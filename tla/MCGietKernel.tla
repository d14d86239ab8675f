----------------------------- MODULE MCGietKernel -----------------------------
(***************************************************************************)
(* GietKernel on the platforms of TP3 to TP6 with the programs of TP3 to   *)
(* TP5, with a processor that runs two tasks, and with a client of         *)
(* tty_getw_irq; its elaboration also on small maps that mapping_table.cpp *)
(* may accept or refuse.                                                   *)
(***************************************************************************)
EXTENDS GietKernel

(* A platform without software.                                            *)
Bare ==
  [top |-> "none", irq |-> <<>>, channels |-> {}, procs |-> {}, maxtasks |-> 1,
   tasks |-> <<>>, stack |-> <<>>, vector |-> <<>>, mask |-> <<>>, program |-> <<>>,
   typing |-> <<>>]

Commands == {97, 100, 113}

Typing(chars, max) == [chars |-> chars, max |-> max]

Tp3 ==
  [Bare EXCEPT
     !.top = "tp3_top", !.channels = {0}, !.procs = {0},
     !.tasks = [p \in {0} |-> 1], !.stack = [p \in {0} |-> Stack(p)], !.vector = [p \in {0} |-> <<>>], !.mask = [p \in {0} |-> {}],
     !.program = [t \in {<<0, 0>>} |-> "gcd"], !.typing = [i \in {0} |-> Typing({32}, 2)]]

Tp4 ==
  [Bare EXCEPT
     !.top = "tp4_top", !.irq = Tp4Irq, !.channels = {0}, !.procs = {0},
     !.tasks = [p \in {0} |-> 1], !.stack = [p \in {0} |-> Stack(p)], !.vector = [p \in {0} |-> Tp4Vector], !.mask = [p \in {0} |-> Tp4Mask],
     !.program = [t \in {<<0, 0>>} |-> "main"], !.typing = [i \in {0} |-> Typing(Commands, 2)]]

(* soft_prime, whose reset.s puts the stack pointer 64 Mbytes above the    *)
(* base of a segment of 16, with the boot code of soft_gcd, its neighbour, *)
(* which differs from it in that line alone.                               *)
Tp5 ==
  [Bare EXCEPT
     !.top = "tp5_top", !.irq = Tp5Irq, !.channels = {0}, !.procs = {0},
     !.tasks = [p \in {0} |-> 1], !.stack = [p \in {0} |-> Stack(p)], !.vector = [p \in {0} |-> Tp5Vector], !.mask = [p \in {0} |-> Tp5Mask],
     !.program = [t \in {<<0, 0>>} |-> "prime"], !.typing = [i \in {0} |-> Typing({32, 113}, 3)]]

(* The platforms of TP6 with a client of tty_getw_irq, and with the main   *)
(* of soft_hello: the image viewer of TP6 does not read its terminal.      *)
Tp6(top, irq, program, typing) ==
  [Bare EXCEPT
     !.top = top, !.irq = irq, !.channels = {0}, !.procs = {0},
     !.tasks = [p \in {0} |-> 1], !.stack = [p \in {0} |-> Stack(p)], !.vector = [p \in {0} |-> Tp5Vector], !.mask = [p \in {0} |-> Tp5Mask],
     !.program = [t \in {<<0, 0>>} |-> program], !.typing = [i \in {0} |-> typing]]

(* Some processors of the four of tp4_top_multi.cpp; processor 1, with the *)
(* image viewer, sleeps.                                                   *)
MultiProgram == [p \in 0 .. 3 |-> <<"main", "none", "gcd", "tim">>[p + 1]]

Multi(awake) ==
  [Bare EXCEPT
     !.top = "tp4_top_multi", !.irq = MultiIrq(4), !.channels = 0 .. 3, !.procs = awake,
     !.tasks = [p \in awake |-> 1], !.stack = [p \in awake |-> Stack(p)], !.vector = [p \in awake |-> MultiVector(p)],
     !.mask = [p \in awake |-> MultiMask(p)],
     !.program = [t \in awake \X {0} |-> MultiProgram[t[1]]],
     !.typing = [i \in 0 .. 3 |-> Typing({97}, IF i \in awake THEN 1 ELSE 0)]]

(* Two tasks on processor 0, and their terminals.                          *)
Multitask ==
  [Bare EXCEPT
     !.top = "tp4_top_multi", !.irq = MultiIrq(2), !.channels = 0 .. 1, !.procs = {0},
     !.maxtasks = 2, !.tasks = [p \in {0} |-> 2], !.stack = [p \in {0} |-> Stack(p)],
     !.vector = [p \in {0} |-> [n \in {8, 12, 13} |->
                   CASE n = 8 -> "_isr_switch" [] n = 12 -> "_isr_tty_get_task0"
                     [] n = 13 -> "_isr_tty_get_task1"]],
     !.mask = [p \in {0} |-> {8, 12, 13}],
     !.program = [t \in {0} \X (0 .. 1) |-> "reader"],
     !.typing = [i \in 0 .. 1 |-> Typing({32}, 1)]]

(* Two segments of 16 addresses, in one level or two (clusters).           *)
Small(levels, mask, second) ==
  [levels |-> levels, mask |-> mask,
   segs |-> <<[base |-> 1, size |-> 4, index |-> [l \in 1 .. Len(levels) |-> 0], cached |-> TRUE], second>>]

Flat      == <<[unit |-> 4, entries |-> 4]>>
Clusters  == <<[unit |-> 8, entries |-> 2], [unit |-> 2, entries |-> 4]>>
Mask      == [unit |-> 4, entries |-> 4]
FoldedMask == [unit |-> 4, entries |-> 2]

Seconds(indexes) ==
  [base : {4, 6, 8}, size : {1, 6}, index : indexes, cached : BOOLEAN]

SmallMaps ==
  {Small(Flat, k, s)     : k \in {Mask, FoldedMask}, s \in Seconds({<<0>>, <<1>>, <<0, 1>>})}
    \cup {Small(Clusters, k, s) : k \in {Mask, FoldedMask}, s \in Seconds({<<0, 1>>, <<1, 0>>, <<1, 1>>})}

MCSystems ==
  {Tp3, Tp4, Tp5, Tp6("tp6_top", Tp6Irq, "number", Typing({LF, 49, 51, DEL}, 3)),
   Tp6("tp6_top_advanced", Tp6AdvancedIrq, "reader", Typing({32}, 2)),
   Multitask, Multi({0}), Multi({2}), Multi({0, 3}), Bare}

(* main_gcd reads its terminal while the terminal interrupts.              *)
RaceSystems == {Multi({2})}

MCMaps == {TopMap[top] : top \in DOMAIN TopMap} \cup SmallMaps
===============================================================================
