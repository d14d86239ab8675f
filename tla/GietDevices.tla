------------------------------ MODULE GietDevices ------------------------------
(***************************************************************************)
(* The terminals, timers, interrupt controllers and GCD coprocessor of the *)
(* platforms as the software sees them: registers behind addresses that    *)
(* the map decodes.  All but the coprocessor are components of SoCLib,     *)
(* which is not in the repository; they are modelled from the way the      *)
(* drivers use them.                                                       *)
(*                                                                         *)
(* A system s says which platform and which software run (see GietKernel); *)
(* d is the state of its devices.                                          *)
(***************************************************************************)
EXTENDS Platforms

(* The base addresses the software is linked with (seg.ld), in words.      *)
seg_stack_base == \h800000
seg_tty_base   == \h24000000
seg_timer_base == \h24400000
seg_gcd_base   == \h25400000
seg_icu_base   == \h27C00000

(* The registers and spans of hwr_mapping.h.                               *)
TIMER_SPAN == 4
TIMER_MODE == 1
TIMER_PERIOD == 2
TIMER_RESETIRQ == 3

TTY_SPAN == 4
TTY_STATUS == 1
TTY_READ == 2

ICU_SPAN == 8
ICU_MASK_SET == 2
ICU_IT_VECTOR == 4
ICU_END == 5

GCD_OPA == 0
GCD_OPB == 1
GCD_START == 2
GCD_STATUS == 3
GCD_END == 4

(* The words each register bank of a component takes.                      *)
Span == [tty |-> TTY_SPAN, tim |-> TIMER_SPAN, icu |-> ICU_SPAN, gcd |-> GCD_END]

(* The register behind address a: the port the routing table of the        *)
(* interconnect gives, the component bound to it, and the place in its     *)
(* segment.                                                                *)
Access(top, routing, a) ==
  LET port == routing[Entry(Level(TopMap[top], <<>>), a)]
      c    == Components[top][port + 1]
      seg  == CHOOSE s \in SegmentList(TopMap[top], <<port>>) : Contains(s, a)
      off  == a - seg.base
  IN  [dev |-> c, channel |-> off \div Span[c], reg |-> off % Span[c]]

(* The addresses of the segments the top cell gives to these components.   *)
Mapped(top) ==
  UNION {s.base .. s.base + s.size - 1 :
           s \in {r \in Segs(TopMap[top]) : Components[top][r.index[1] + 1] \in DOMAIN Span}}

Routing == [top \in DOMAIN TopMap |-> RoutingTable(TopMap[top], <<>>)]

Registers == [top \in DOMAIN TopMap |-> [a \in Mapped(top) |-> Access(top, Routing[top], a)]]

-------------------------------------------------------------------------------
(* The GCD coprocessor (VciGcdCoprocessor) computes or does not; what its  *)
(* operands are, and the result, is the business of GcdBusTop.             *)
GcdReset == FALSE

(* A write: START begins a computation; an operand is written at any time. *)
GcdWritten(busy, reg) == busy \/ reg = GCD_START

(* A read of the result is answered when the computation has ended, and    *)
(* holds the bus until then; one of the status is answered at once.        *)
GcdAnswers(busy, reg) == reg = GCD_OPA => ~busy

-------------------------------------------------------------------------------
(* typed: the characters typed so far at each terminal; rd: how many of    *)
(* them were read; mode, irq: of each timer; ran: whether its processor    *)
(* ran a program since its last tick; mask: the inputs each interrupt      *)
(* controller enables; busy: the coprocessor computes.                     *)
DevicesOff(channels) ==
  [typed |-> [i \in channels |-> <<>>], rd  |-> [i \in channels |-> 0],
   mode  |-> [i \in channels |-> 0],    irq |-> [i \in channels |-> FALSE],
   ran   |-> [i \in channels |-> FALSE],
   mask  |-> [i \in channels |-> {}],   busy |-> GcdReset]

Pending(d, i) == d.rd[i] < Len(d.typed[i])

(* Is input n of the interrupt controllers up?                             *)
Up(irq, d, n) ==
  \/ irq[n][1] = "tim" /\ d.irq[irq[n][2]]
  \/ irq[n][1] = "tty" /\ Pending(d, irq[n][2])

Raised(irq, d, i) == {n \in d.mask[i] : Up(irq, d, n)}

(* The smallest index has the highest priority; 32 stands for none.        *)
ItVector(irq, d, i) ==
  IF Raised(irq, d, i) = {} THEN 32
  ELSE CHOOSE n \in Raised(irq, d, i) : \A k \in Raised(irq, d, i) : n <= k

(* The value a load of register r returns.  A character is identified by   *)
(* its terminal and its number, which is 0 when there is none to read.     *)
Loaded(irq, d, r) ==
  CASE r.dev = "tty" /\ r.reg = TTY_STATUS    -> IF Pending(d, r.channel) THEN 1 ELSE 0
    [] r.dev = "tty" /\ r.reg = TTY_READ      -> <<r.channel, IF Pending(d, r.channel) THEN d.rd[r.channel] + 1 ELSE 0>>
    [] r.dev = "icu" /\ r.reg = ICU_IT_VECTOR -> ItVector(irq, d, r.channel)
    [] OTHER                                  -> 0

(* The load of TTY_READ takes the character away.                          *)
AfterLoad(d, r) ==
  IF r.dev = "tty" /\ r.reg = TTY_READ /\ Pending(d, r.channel)
  THEN [d EXCEPT !.rd[r.channel] = @ + 1] ELSE d

(* A store of v to register r.                                             *)
AfterStore(d, r, v) ==
  CASE r.dev = "tim" /\ r.reg = TIMER_MODE     -> [d EXCEPT !.mode[r.channel] = v, !.ran[r.channel] = FALSE]
    [] r.dev = "tim" /\ r.reg = TIMER_RESETIRQ -> [d EXCEPT !.irq[r.channel] = FALSE]
    [] r.dev = "icu" /\ r.reg = ICU_MASK_SET   -> [d EXCEPT !.mask[r.channel] = @ \cup v]
    [] r.dev = "gcd"                           -> [d EXCEPT !.busy = GcdWritten(@, r.reg)]
    [] OTHER                                   -> d

(* Mode 3: the timer runs and interrupts.                                  *)
AfterTick(d, i) ==
  [d EXCEPT !.irq[i] = @ \/ d.mode[i] = 3, !.ran[i] = FALSE]

(* Processor p ran a step of a program, which its running timer notices.   *)
Noticed(d, p) == [d EXCEPT !.ran[p] = d.mode[p] /= 0]
===============================================================================
