------------------------------- MODULE Platforms -------------------------------
(***************************************************************************)
(* The platforms of TP3 to TP6 as their top cells describe them: the map,  *)
(* the component behind each port of the interconnect, and the interrupt   *)
(* lines.  Addresses and sizes are in words of 4 bytes, which keeps them   *)
(* below 2^31: 0x80000000 is \h20000000.                                   *)
(***************************************************************************)
EXTENDS MappingTable

Segment(base, size, tgt, cached) ==
  [base |-> base, size |-> size, index |-> <<tgt>>, cached |-> cached]

(* The target ports, which are the indexes of the components too.          *)
ROM == 0
RAM == 1
TTY == 2
GCD == 3
TIM == 4
IOC == 5
DMA == 6
FBF == 7
ICU == 8

(* MappingTable maptab(32, IntTab(bits), ..., 0xFF000000): a level of bits *)
(* bits cuts the 2^30 words in 2^bits entries.                             *)
Maptab(bits, segs) ==
  [levels |-> <<[unit |-> 2^(30 - bits), entries |-> 2^bits]>>,
   mask   |-> [unit |-> 2^22, entries |-> 2^8],
   segs   |-> segs]

-------------------------------------------------------------------------------
Tp3Segments ==
  <<Segment(\h2FF00000, \h400,  ROM, TRUE),  Segment(\h20000000, \h4000, RAM, TRUE),
    Segment(\h20400000, \h4000, RAM, TRUE),  Segment(\h20800000, \h4000, RAM, FALSE),
    Segment(\h100000,   \h4000, RAM, TRUE),  Segment(\h400000,   \h4000, RAM, TRUE),
    Segment(\h800000,   \h4000, RAM, TRUE),  Segment(\h24000000, 16,     TTY, FALSE),
    Segment(\h25400000, 4,      GCD, FALSE)>>

Tp3Map == Maptab(6, Tp3Segments)

(* tp4_top.cpp for nprocs = 1 and tp4_top_multi.cpp for 4: the sizes that  *)
(* depend on NPROCS, and on MAX_TASKS = 4 terminals for each processor.    *)
Tp4Segments(nprocs) ==
  <<Segment(\h2FF00000, \h400,  ROM, TRUE),  Segment(\h20000000, \h1000, RAM, TRUE),
    Segment(\h20800000, \h1000, RAM, TRUE),  Segment(\h20400000, \h400,  RAM, FALSE),
    Segment(\h100000,   \h1000, RAM, TRUE),  Segment(\h400000,   \h1000, RAM, TRUE),
    Segment(\h800000,   \h400000 * nprocs, RAM, TRUE),
    Segment(\h25800000, \h101000,    FBF, FALSE),
    Segment(\h24000000, 16 * nprocs, TTY, FALSE),
    Segment(\h27C00000, 8 * nprocs,  ICU, FALSE),
    Segment(\h24400000, 4 * nprocs,  TIM, FALSE),
    Segment(\h24C00000, 8 * nprocs,  DMA, FALSE),
    Segment(\h24800000, 8, IOC, FALSE),      Segment(\h25400000, 4, GCD, FALSE)>>

Tp4Map == Maptab(8, Tp4Segments(1))

MultiSegments == Tp4Segments(4)

MultiMap == Maptab(8, MultiSegments)

(* tp5_top.cpp is the text of tp4_top.cpp.                                 *)
Tp5Segments == Tp4Segments(1)

Tp5Map == Maptab(8, Tp5Segments)

Tp6Segments ==
  <<Segment(\h2FF00000, \h400,  ROM, TRUE),  Segment(\h20000000, \h1000, RAM, TRUE),
    Segment(\h20400000, \h1000, RAM, TRUE),  Segment(\h20800000, \h400,  RAM, FALSE),
    Segment(\h100000,   \h1000, RAM, TRUE),  Segment(\h400000,   \h1000, RAM, TRUE),
    Segment(\h800000, \h400000, RAM, TRUE),  Segment(\h24000000, 16, TTY, FALSE),
    Segment(\h24400000, 16, TIM, FALSE),     Segment(\h27C00000, 5, ICU, FALSE),
    Segment(\h24C00000, 5, DMA, FALSE),      Segment(\h25800000, \h101000, FBF, FALSE),
    Segment(\h24800000, 8, IOC, FALSE),      Segment(\h25400000, 5, GCD, FALSE)>>

Tp6Map == Maptab(8, Tp6Segments)

(* tp6_top_advanced.cpp has the same map.                                  *)
Tp6AdvancedSegments == Tp6Segments

Tp6AdvancedMap == Maptab(8, Tp6AdvancedSegments)

-------------------------------------------------------------------------------
(* The component bound to each port of the interconnect, port 0 first.     *)
Tp3Components == <<"rom", "ram", "tty", "gcd">>

Tp4Components == <<"rom", "ram", "tty", "gcd", "tim", "ioc", "dma", "fbf", "icu">>

Tp5Components == Tp4Components

MultiComponents == <<"rom", "ram", "tty", "gcd", "tim", "ioc", "dma", "fbf", "icu">>

Tp6Components == <<"rom", "ram", "tty", "gcd", "tim", "ioc", "dma", "fbf", "icu">>

Tp6AdvancedComponents == Tp6Components

(* The top cells that run software, by name.                               *)
TopMap ==
  [tp3_top |-> Tp3Map, tp4_top |-> Tp4Map, tp4_top_multi |-> MultiMap, tp5_top |-> Tp5Map,
   tp6_top |-> Tp6Map, tp6_top_advanced |-> Tp6AdvancedMap]

Components ==
  [tp3_top |-> Tp3Components, tp4_top |-> Tp4Components,
   tp4_top_multi |-> MultiComponents, tp5_top |-> Tp5Components,
   tp6_top |-> Tp6Components, tp6_top_advanced |-> Tp6AdvancedComponents]

(* What drives input n of the interrupt controller: a component and one of *)
(* its interrupt outputs.                                                  *)
Nothing == <<"none", 0>>

Tp4Irq ==
  [n \in 0 .. 3 |-> <<<<"tim", 0>>, <<"tty", 0>>, <<"ioc", 0>>, <<"dma", 0>>>>[n + 1]]

Tp5Irq == Tp4Irq

Tp6Irq ==
  [n \in 0 .. 3 |-> <<<<"tim", 0>>, <<"tty", 0>>, <<"ioc", 0>>, <<"dma", 0>>>>[n + 1]]

Tp6AdvancedIrq == Tp6Irq

MultiIrq(nprocs) ==
  [n \in 0 .. 15 |->
     LET i == n % 4
     IN  CASE n = 0                     -> <<"ioc", 0>>
           [] n \div 4 = 1 /\ i < nprocs -> <<"dma", i>>
           [] n \div 4 = 2 /\ i < nprocs -> <<"tim", i>>
           [] n \div 4 = 3 /\ i < nprocs -> <<"tty", i>>
           [] OTHER                     -> Nothing]

-------------------------------------------------------------------------------
(* The boot code of each software (reset.s): the entries of the interrupt  *)
(* vector and the inputs it enables.                                       *)
Tp4Vector ==
  [n \in 0 .. 3 |-> <<"_isr_timer", "_isr_tty_get", "_isr_ioc", "_isr_dma">>[n + 1]]

Tp4Mask == 0 .. 3

(* soft_gcd and soft_prime of TP5, and the software of TP6.                *)
Tp5Vector == [Tp4Vector EXCEPT ![1] = "_isr_tty_get_task0"]

Tp5Mask == 0 .. 3

MultiVector(p) ==
  [n \in {4 + p, 8 + p, 12 + p} \cup (IF p = 0 THEN {0} ELSE {}) |->
     <<"_isr_ioc", "_isr_dma", "_isr_timer", "_isr_tty_get_task0">>[n \div 4 + 1]]

MultiMask(p) == DOMAIN MultiVector(p)

(* The top of the stack of processor p above seg_stack_base: 64 Kbytes for *)
(* each, on all platforms, but for soft_prime of TP5 (see MCGietKernel).   *)
Stack(p) == \h4000 * (p + 1)
===============================================================================
