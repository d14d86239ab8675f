# SMC-TPs in TLA+

A verification development of this repository: cycle-accurate SystemC components
(TP1, TP2, TP6), the address maps of its platforms, and the embedded software that runs
on the simulated multiprocessors (the GIET kernel and the programs of TP3 to TP6). It holds TLA+ modules translated
from the source, TLC configurations that check them on small instances, and proofs
that TLAPS checks for every instance.

`PROJECT.json` names, for every definition, the source lines it stands for; it also
lists the components, runs, hazards, findings and theorems. To check a model:
`tlc -config MCGcdBus.cfg MCGcdBus`; to check the proofs, `tlapm` on each of `GcdArithProofs`,
`FifoGcdProofs`, `GcdBusProofs`, `XcacheProofs`, `GietBarrierProofs`, `GietIocProofs`,
`GietTransposeProofs`, `GietKernelProofs` (`XcacheProofs` takes about ten minutes, `GietKernelProofs` eight, the others one or two).

## 1. The system

Paths are relative to `src/`.

| Component | State it keeps | Operations | Talks to |
|---|---|---|---|
| **TP1 GCD platform** (`TP1_etudiant`) | the state and operand registers of a master and a coprocessor | one `transition()` per clock cycle each | two FIFO channels that store nothing (`fifo_signals.h`) |
| **TP2 GCD master** (`vci_gcd_master.cpp`) | state, operands, result | writes operands, starts, polls the status, reads the result | the bus, as VCI initiator |
| **TP2 GCD coprocessor** (`vci_gcd_coprocessor.cpp`) | two coupled state machines, operand registers, identity of the initiator | answers commands while it computes | the bus, as VCI target |
| **TP2 VGSB bus** (`vci_vgsb.cpp`) | state, elected couple, transaction counters | round-robin arbitration, four Mealy multiplexers | every initiator and target |
| **Address decoding** (`TP2_etudiant/mapping_table.cpp` ...) | the segments added so far, the tables built from them | `add`, which may throw; the routing, locality and cacheability tables | the bus, the caches |
| **Top cells** (`tp3_top.cpp` ... `tp6_top_advanced.cpp`) | none of their own | declare the segments, bind components to ports and interrupt lines | all of the hardware |
| **TP6 cache controller** (`vci_xcache_wrapper_advanced.cpp`) | four state machines, two caches, a write buffer, two response FIFOs, the flip-flops between them | one `transition()` per cycle | the processor, the network, through it memory and devices |
| **GIET barriers** (`giet_2011/sys/common.c`) | the value and count of each barrier, in shared memory | `_barrier_init`, `_barrier_wait` with ll/sc | tasks on other processors |
| **GIET block device driver** (`sys/drivers.c`) | lock, completion flag, status | `_ioc_read`, `_ioc_write`, `_ioc_completed`, `_isr_ioc` | the disk controller, its interrupt on processor 0 |
| **GIET frame buffer/DMA driver** (`sys/drivers.c`) | busy flag and status of each processor | `_fb_read`, `_fb_write`, `_fb_completed`, `_isr_dma` | one DMA channel per processor |
| **GIET kernel** (`giet.s`, `sys_handler.c`, `irq_handler.c`, `ctx_handler.c`, `drivers.c`) | contexts and current task of each processor, what it has saved on the stacks, character buffers and their flags | boot, entry and exit of system calls and interrupts, dispatch, task switch, terminal, timer and GCD calls | ICU, terminals, timers, coprocessor, through the address map |
| **Other programs, user library** (`soft*/`, `giet_2011/app/stdio.c`) | local variables | loops of library calls, number parsing and printing | the kernel |
| **TP5 image pipeline** (`soft_transpose/main.c`) | two image buffers, two flags | load, transpose, display | both drivers |
| **TP4 image viewer** (`soft/main_display.c`) | one buffer, image number | a loop of system calls | both drivers |

What is hard in it, by component:

- *hardware*: signals that carry a word only if both sides are ready on the same cycle;
  transactions of several masters in every phase of each other; an arbiter that moves
  its priority in a state where it does not allocate; writes answered before they are
  done, which later reads must still see; flip-flops set by one state machine and reset
  by another in the same cycle;
- *software*: ll/sc races; a lock held from one system call to the next; flags written by
  an interrupt routine on one processor and polled on another; transfers that run beside
  the tasks that own the buffers; a barrier used again before everyone has left it; a
  character that comes while the one before is being read; an interrupt at any instruction of
  a program, of a system call or of a switch from one task to another.

`PROJECT.json` lists each of these under "hazards" at the line where it bites, with the
properties that would show it going wrong.

## 2. The modules

### TP1: `GcdArith`, `FifoGcdMaster`, `FifoGcdCoprocessor`, `FifoGcdTop`, `GcdService`

`GcdArith` defines the words of a register (`MaxWord` is `2^32 - 1` in the code), the
subtraction modulo `MaxWord + 1`, and `IsGcd`, by common divisors: no algorithm to compare
with. Each state of each `transition()` is an action whose parameters are its input
ports; `MasterR`, `MasterW`, `CoprocData` ... are the outputs of `genMoore()`. `FifoGcdTop`
joins them by the equations of `FifoSignals`: one step, `Clock`, is one clock cycle, and
both components take it together. `GcdService` is the abstract specification of what a
GCD system promises a client: it asks with two words, is answered with their gcd, and
forgets. `FifoGcdTop!ImplementsService` is the refinement, under the mapping
`JobOfMaster` from registers to the state of the client.

### TP2: `VciGcdMaster`, `VciGcdCoprocessor`, `VciVgsb`, `GcdBusTop`

The registers of a component are a record, so that `GcdBusTop` can have any number of
each (`NbInitiator`, `NbTarget`; `tp2_multi_top.cpp` sets them). The bus actions are the cases of its `transition()`; the
Mealy functions are operators, and as no Mealy output is an input of another Mealy
function the ports are functions of the registers. `Base` says which target a master's
segment decodes to. `FSM_RSP` is modelled as written: it scans the requests and moves
the indices and counters, then goes to `FSM_IDLE` whatever it has found. The platform
implements the same `GcdService`, with one client per master.

### TP6: `XcacheStores`, `XcacheDcache`, `XcacheIcache`, `XcacheVci`, `XcacheTop`

`XcacheDcache` and `XcacheIcache` have one action per state of the two cache state machines.
The responses of a cycle (`Drsp`, `Irsp`), the FIFO reads (`DataGet`, `InsGet`) and the
requests to the command machine (`ReadMiss`, `Uncached` ...) are functions of the registers, as
they are in the code before the clock edge. `XcacheVci` has the command and response
machines. They come last in `transition()`: the command machine sees the write buffer as the
cycle has already changed it, and their assignments win over those of the caches to the same
flip-flop. `XcacheTop!Cycle` is one call of `transition()` with its four machines, the
update of the write buffer between them, and the outside world.

Outside `src/`, and marked external in the map, are the processor, `GenericCache`,
`GenericFifo`, `MultiWriteBuffer` (in `XcacheStores`), the network and the targets (in
`XcacheTop`). What is assumed of them:

- the processor issues a fetch and at most one data request, keeps each until it is
  answered, and issues the next ones when both are; it may do any request of its
  program at any time;
- a victim way is a valid one only if there is no other; the words of an invalid way
  are `Junk`, which no comparison accepts;
- a write buffer line is a cache line, is locked at any time after it was opened, and has
  one slot at a time; `rok` offers any locked slot;
- the network takes command flits when it pleases and delivers a response packet as a
  whole; commands to one target are executed in order, those to different targets in
  any order; a target answers an error in one flit;
- a DMA writes its lines once, at any moment.

`TopAssumption` says what is assumed of the programs: they store neither into their
instructions nor into the lines of the DMA, the DMA does not write instructions, and the
words accessed by LL and SC are not cacheable (the locks of the GIET are `in_unckdata`,
`drivers.c:62`). The cache treats every LL and SC as uncached (line 583), so a lock in a
cacheable segment would be read past the writes of the buffer. `StoresAssumption`: a response
FIFO has two places at least, as constructed at line 97.

Left out: byte enables (accesses are whole words), cache sets (they do not influence
each other), the instrumentation counters, `r_vci_rsp_cpt` and the assertions that read
it, and `setWriteBerr`. Words take two values beside those at reset: each store writes the
other one, so that a stale or lost word differs.

### GIET and programs: `GietBarrier`, `GietIoc`, `GietIocClients`, `GietFb`, `GietTranspose`, `GietDisplay`

One step is one access to a shared variable or to a device register. `ll` reserves a word
for its processor, any store to the word cancels the reservations of it, and `sc` succeeds if
its own has survived. Every processor runs one task (`NB_MAXTASKS` is 1 in each `config.h`).
`GietIoc` is the driver, its interrupt routine and the device; the routine runs on processor
0 and suspends the task of that processor. `GietFb` adds the DMA driver. Three programs are
composed with them: `GietIocClients` (any tasks with any sequences of requests),
`GietTranspose` (TP5) and `GietDisplay` (TP4). Memory is taken as coherent: the data caches
and `_dcache_buf_invalidate` are left out of these modules.

### Address maps: `MappingTable`, `PlatformMap`, `Platforms`

`MappingTable` says what the tables hold that `getRoutingTable`, `getLocalityTable` and
`getCacheabilityTable` build from a list of segments: a level of the hierarchy is the number of
entries of a table and the addresses an entry stands for, powers of two as `m_use_bits` and
`m_drop_bits` are. `PlatformMap` is the elaboration: `sc_main` adds segment after segment, each of
which may be refused (`WrongLevel`, `Collides`, `Clashes`), then the components build their tables, which
may throw when one entry belongs to two targets. `DecodesRight` says that what has been built
without an exception sends an access to any address of any segment to its target, at each
level, with the cacheability it was declared with. `Platforms` holds the maps, ports and interrupt
lines of the six top cells. Addresses are in words of 4 bytes, so that they stay below `2^31`.

### The kernel: `GietDevices`, `GietTasks`, `GietPrograms`, `GietSyscalls`, `GietKernel`

One step is one access to a device, or to a variable an interrupt routine shares, or the code
between two of them. `GietDevices` gives what a load or a store does behind an address: every
access goes through the tables of `MappingTable` for the platform (`Registers`), so that a
driver that computes a wrong address, or a map that sends it elsewhere, does something
else. `GietTasks` has the boot code, `_int_handler`, `_int_demux`, the routines, `_ctx_switch` and
`_task_switch`. Registers are abstracted to *whose* values they hold: `sp` and `temp` name the
task whose stack, saved registers and temporaries are in the processor, `Clobbered` what an
interrupt routine leaves in the temporaries, `epc`, `um` and `exl` are those of the processor. That is
enough to tell a context restored right from one that is not. `GietPrograms` has the
programs, as the calls they make one after the other, with the number conversions of `tty_getw_irq`
and `tty_printf`; `GietSyscalls` the way into and out of a call, and the drivers.
`GietKernel` composes them with the elaboration of the platform, with somebody who types, and with the timers.

A line that rises while a processor executes finds it in the middle of an access, which it completes: `begun`
remembers that no line was up when the step before ended, and `RunProgram` then takes one more step, the one
under way, before `TakeInterrupt` must come. This is where `_tty_read` and `_isr_tty_get` can meet between the two loads of
the former. What the register of a terminal holds when it is empty is character number 0: a program that is given it
has been given something nobody typed.

The coprocessor is the one of TP2, reduced to whether it computes (`GcdReset`, `GcdWritten`, `GcdAnswers`, `GcdDone`): a read of
the result holds the bus until the computation ends, which is modelled as a read that has not been executed yet; what it
computes is the business of `GcdBusTop`. External here: terminals, timers and ICU (SoCLib components, modelled from how the
drivers use them) and the processor. A terminal keeps what was typed until it is read; a timer
that rises while its line is up leaves it up; the ICU gives the lowest line that is both up and unmasked.

Two things in these modules are the model's own, for want of code in the repository. A processor of several tasks needs boot
code that prepares their contexts, so that the first switch to a task returns to an `eret` (`FirstContext`), and
starts the timer (`TaskTimer`): every `config.h` has one task per processor, and no `reset.s` does either. And `soft_prime/reset.s:32` of TP5 puts
the stack pointer 64 Mbytes above the base of a segment of 16 (`tp5_top.cpp:82`), so that its first store to the stack is answered
by a bus error. The model boots it with the code of `soft_gcd`, which differs in these lines alone; `StackAssumption` states
that each stack is within the segment, and TLC evaluates it.

`GietIoc` and `GietFb` have the interrupt routines of the disk and of the DMA, which the kernel module does not repeat.

## 3. What TLC checks

| Run | Instance | What it shows |
|---|---|---|
| `fifo_gcd` | 3-bit words, all 64 pairs | lockstep, correct results, service refined, every computable pair answered and no other |
| `gcd_bus` | 3 masters, 3 coprocessors, 2-bit words, 3 pairs | transactions whole, no operand overwritten, results right, service refined, every request answered |
| `bus_starvation` | 2 masters | **violated**: a request may never be granted |
| `giet_barrier` | 3 tasks, 2 barriers, each used twice in turn | nobody early, no lost decrement, everyone returns |
| `barrier_reuse` | 2 tasks, one barrier twice in a row | **violated**: tasks wait for ever |
| `barrier_init` | 2 tasks initialise, then wait | **violated**: tasks wait for ever |
| `giet_ioc` | 3 tasks, 5 requests (reads, writes, a refused one), failures | one owner, own outcome, blocks moved, all served |
| `giet_transpose` | 3 images of 2 x 2 distinct pixels, failures | buffers protected, frames in order and whole, all displayed |
| `display_overrun` | 2 images | **violated**: a buffer is loaded while the DMA reads it |
| `xcache` | 5 processors, lines of 3 words, 1 way, 2 slots, FIFOs of 2 | reads see writes, none lost, SYNC and INVAL, responses accounted, all answered |
| `tty_race` | processor 2 of `tp4_top_multi`, one character | **violated**: a program is given a character nobody typed |
| `giet_kernel` | 6 platforms with 9 pieces of software, and 144 small maps | maps decode right or are refused, contexts kept, characters in order, numbers kept, interrupts served, tasks take turns |

Each property has a mutant in `PROJECT.json`: a plausible bug of a mapped definition,
written just before it in the module, for which TLC finds the property violated.

**Why the bounds are enough.** `fifo_gcd` enumerates operands completely for its width, and
the proofs remove the width. In `gcd_bus` three is the number of masters at which the
round robin changes behaviour (with two, one of them starves; see below); the pairs take
zero, one and several subtractions, plus one that never ends, so that phases shift against each
other in all ways. The counters are reduced to one value there (`CounterSize = 1`), as
nothing reads them. Barriers need three tasks for a decrement to race with two others, and
four waits for a barrier to be used again. `giet_ioc` has each pair of tasks competing for
the lock in every phase, and a request after a failed one. In `giet_transpose` the third
image is the first to reuse a buffer whose both neighbours have gone through a cycle; the
pixels are all distinct, so an image that is torn, transposed twice or repeated differs. In
`xcache` a line of three words exceeds the response FIFOs of two words (the size in the
code) by one; one way makes each miss of another line an eviction; two writable lines fill the
two slots of the write buffer, and a second write to a line that is locked or sent is
refused; a burst has one or two flits; the network may delay everything for any time. The five
processors differ in the requests they may make, in any order and number: writes that
fill the buffer, with SYNC; writes gathered in one slot; writes with reads and evictions;
devices, errors and the DMA; fetches of every kind beside buffered writes.

`giet_kernel` runs each platform with programs that use what the platform has: TP3 polls the
coprocessor; TP4 and TP5 read the terminal beside a timer; `tp4_top_multi` has the masks and vectors
of its boot code, with processors 0, 2, and 0 with 3 awake (a processor that sleeps
touches nothing the others use); `tp6_top` a client of `tty_getw_irq`, since the image viewer
of TP6 reads no terminal; `tp6_top_advanced` `soft_hello`. `NB_MAXTASKS` is 1 in each `config.h` of
the repository: `Multitask` is the processor of two tasks for which `ctx_handler.c` is
written. One to three characters come at any moment: two are enough for one to overwrite the other in
`_tty_get_buf`, three for two digits and a correction. With `WordSize = 32` two digits overflow,
and with `LineSize = 3` a line fills the buffer. The small maps, of one level or two, with adjacent,
overlapping and inverted segments, lead to each way of being refused and of being accepted. Deadlock is not an
error here: a map that is refused ends `sc_main`, and a program that exits loops without effect.

**Fairness.** Hardware: the clock never stops (`WF` of `Clock` in TP1 and TP2). In TP6 this is
stated for each state machine, and the outside world does its part in the end: the write
buffer locks its slots (its timeout), the network accepts a flit it is offered and delivers
those it has, a target executes its next command. Software: a processor that can execute its task
does, a pending interrupt is taken, a device ends its transfers. In `giet_kernel` the elaboration
goes on, each processor takes its steps, and a timer that runs ticks, but only once its
processor has run a step of a program since the last tick: a period is far longer than an
interrupt routine. Nobody has to type, and the coprocessor need not end. No fairness is assumed
between the tasks that compete for a lock or an `sc`: the runs show that with the finite
programs modelled, weak fairness of each processor is enough.

## 4. What the code does that its documentation does not say

- `vci_vgsb.h:35` promises a round robin. `vci_vgsb.cpp:162` moves the priority when a
  response ends without allocating the bus. With two masters, one that polls a
  computation that never ends is elected each time (`bus_starvation`); with three and the
  workload of `gcd_bus` nobody starves.
- `drivers.c:268` says that `_tty_read` returns 1 if the register is full. It loads the status (line 286), then the
  register (line 288), with interrupts enabled; a character that comes during the first load interrupts, `_isr_tty_get` takes it,
  and the second load finds the register empty (`tty_race`). `main_gcd` uses `_tty_read` on a processor whose boot
  code enables the interrupt of its terminal (`soft_multi/reset.s:116-121`). `CharactersInOrder` says what remains true.
- `common.c:189` says that the last task wakes up all the others; a fast task that waits again on
  the same barrier takes the count away from them first (`barrier_reuse`). Two barriers used in
  turn are safe (`giet_barrier`).
- `common.c:128` lets several tasks initialise a barrier; losers return before the winner
  has set the count (`barrier_init`). `giet_barrier` passes because its tasks meet at another
  barrier before they use the one they have initialised.
- `stdio.c:754` requires `fb_completed`; the viewer of TP4 never calls it (`display_overrun`).

Beside these, met while modelling and not run as such:

- `vci_vgsb.h:50-51` says that the counters count the requests. A scan in `FSM_RSP` increments the counter of a request
  (line 157 of the `.cpp`) that line 162 does not serve: it stays pending, and a later scan, of `FSM_RSP` or of `FSM_IDLE`, counts
  it again. Nothing in the repository reads the counters.
- `main_gcd.c:28` polls until `gcd_get_status` *returns* zero, which it does at once: the status it
  reads is in its argument. `GcdNext` does the same; the read of the result then holds the bus until the computation ends.
- `stdio.c:348`, the overflow test of `tty_getw`, compares a value with the one before it, and misses
  products that wrap beyond it. `NumbersKept` is about numbers that fit.
- `%u` of `tty_printf` divides an `int`: a number from `2^31` on gives negative digits, which
  index the table of digits from outside. `NumbersKept` stops below.
- `soft_gcd/seg.ld:29` of TP5 places the ICU at `0x9E000000`, which `tp5_top.cpp:102` does not
  map: its boot code would be answered by a bus error.
- `exc_handler.c:53` lacks a comma: two messages are one, and the last cause has none.
- `_ctx_switch` is also system call `0x0D` (`sys_handler.c:30`). It would run with interrupts enabled
  and be interrupted between its two contexts; no program makes the call.

The code of TP6 lets an uncached access pass an earlier cached write that the write buffer has
not locked yet: a program must issue a SYNC before it starts a device. `SyncDrains` is
what SYNC gives it. The GIET does not use SYNC; this is listed as a hazard to be
examined when the drivers are composed with the cache.

## 5. What is proved

TLAPS checks the theorems below for every value of the constants, from the `ASSUME`s of the modules and
nothing else: `MaxWord` is a natural number, operands are words, each master has a target of its own (`Base` is
an injection), there is at least one task and finitely many, requests name buffers and blocks that exist, the
images of TP5 are square arrays that fill the disk, the entries of a map's tables are whole numbers of pages, a
system's vectors name routines of the kernel, the software of a system finds its devices where it looks for them (`PlatformAssumption`),
characters have codes that are natural numbers (`SystemsAssumption`), a word has at most 32 bits (`LibraryAssumption`),
and what section 2 says of the programs on the cache of TP6. `PROJECT.json` lists each theorem with the property of a run it states.

**TP1** (`GcdArithProofs`, `FifoGcdProofs`).

- `DividesDifference`, `SubtractionKeepsDivisors`: a subtraction that is legal keeps the
  common divisors. This is Euclid's step; `WordSubInWord` adds that its result is a word.
- `TypeAlwaysOK`, `LockstepAlways`, `ResultAlwaysGcd`, `OneZeroNever`: invariants of TP1. As `WordSub` is modulo the
  width of a register, `TypeOK` alone does not say that no subtraction wraps; `SubtractionsNeverWrap`, a property of the steps, does.
- `FifoImplementsService`: each behaviour of TP1 is one of `GcdService`.

They follow from one inductive invariant,
`IInv == TypeOK /\ Lockstep /\ GcdKept /\ ResultIsGcd /\ ZeroKept /\ OneZeroNeverAnswered`.
`ResultIsGcd` is not inductive: it needs `GcdKept` to know that what the coprocessor holds has
the divisors of what the master holds, `Lockstep` to know that the word the master reads is the
one just computed, and `TypeOK` for the subtraction. `OneZeroNeverAnswered` needs
`ZeroKept`: a zero stays where it is, so that the operands never become equal. `StepIInv` has
one step per couple of states the lockstep allows. The refinement is proved step by step under
`IInv`: each clock cycle is an `Ask`, an `Answer`, a `Forget`, or leaves the job unchanged.

**TP2** (`GcdBusProofs`), for any number of masters and coprocessors. The invariant is
`TypeOK /\ OneTransaction /\ \A i : Pair(master[i], coproc[Base[i]])`. `OneTransaction` says which couple the bus is
serving and in which phase both are; from it `BusNeverWaits` follows (the elected target always accepts the
command, the elected master always accepts the response). `Pair` relates a master to its coprocessor
by the place of the master: which operands have arrived, that the divisors are kept while it polls, that the
coprocessor computes only then. A cycle changes the registers of the elected couple and of coprocessors that
compute; `PairMoves` treats these cases, and `Base` being an injection keeps everyone else away. `BusyAlwaysPolled`,
`EveryResultIsGcd` and `BusImplementsService` (as many clients of `GcdService` as there are masters) come from it.

**Address maps** (`GietKernelProofs`, second part), for any width, number of levels and list of segments.
`AlwaysDecodesRight`: what elaborates without an exception decodes right. The invariant `MapInv` says that
the tables are coherent once they are built: `getRoutingTable` and the others have thrown for no entry. The
central lemma is `PageInEntry`: the code walks a segment page by page and enters the first address of each page, while an
access asks for any address; both fall in the same entry as an entry is a whole number of pages. A table with one owner
per entry then answers with the target of the segment that has the address. `KernelDecodesRight` says the same of the platforms
the kernel runs on: nothing a processor, a device or a program does touches the map that was built.

**Cache of TP6** (`XcacheProofs`), for any number of lines, words per line, ways, write buffer slots and targets, any
programs, FIFOs of two words or more, and whatever the network delays. The inductive invariant is `IInv == Controlled /\ DataValues /\ InsValues`.
`Controlled` is about control, and holds without a word on values:

- `ServedData`, `ServedIns`: the registers of a state machine hold the request it serves, since the processor keeps a
  request until its answer. `DcacheShape`, `IcacheShape`: a line is in one way at most, and the one a miss waits for in none.
- `OncePlaced`: a read request is in exactly one `Place` (flip-flop, command machine, network, response, none); this is
  what makes the flip-flops set by a cache and reset by the command machine safe. `PacketsAsk`: what is in the network asks
  for what its cache waits for. `NetDistinct`: no two commands carry the same mark (`trdid`).
- `WbufShape`, `WritesPlaced`, `BurstShape`: busy slots have different lines, a slot waits for the acknowledge of a command
  that is still in the network, and the burst being sent is the slot up to the counter.
- `DataTraffic`, `InsTraffic`: the words of a response that are stored, in the FIFO and to come add up (`Accounts`), for both
  caches. `FlowStep` is the step: a word may leave the FIFO and another enter it on the same cycle. `TypeAlwaysOK`
  and `AllResponsesAccounted` follow from `Controlled`.

`DataValues` follows each value. `WritesRight` is the core: of the places of the way of a write to memory (the
registers of the cache, its slot, a command in the network, memory), the first that has a word has its latest value; an older
value may only be behind a newer one. A slot is sent whole and takes no write from then on, and a second command with the
same word cannot leave before the first is acknowledged. `MissClear`: the command machine takes a miss only when the write
buffer has nothing of its line, so a line is read in memory after every earlier write to it. `FillRight` and
`CachedRight` follow the words from there to the FIFO and the way; `CachedRight` has one exception, the word that
`WRITE_UPDT` is about to write. `UncRight` and `DeviceRight` do the same for uncached words, `DmaRight` for the lines of the DMA, `InsValues` for
instructions. The properties of the run follow: `AlwaysReadsOwnWrites`, `AlwaysNoWriteLost`, `AlwaysSyncDrains`, `AlwaysInvalidatedFresh`,
`AlwaysFetchesRight`. The proof splits `Dcache`, `Icache`, `Cmd` and the network into named cases first (`DataCases`, `InsCases`,
`CmdStep`, `RspStep`, `SlotStep`), and every part of the invariant is kept by lemmas that use only those.

**Barriers** (`GietBarrierProofs`), for any number of tasks, barriers and calls. The invariant is
`TypeOK /\ Waiters /\ \A i \in Ready : Round(i) /\ NoneLost(i)`, where `Ready` are the barriers initialised before the
tasks started. `Waiters`: who waits has read the initial value, and an `sc` that can succeed stores one less than the
count there is. `Round`: the waits on a barrier come one after the other, one task releases a round and only once all have
arrived, and while a round is open the count is what its arrivals leave. `NobodyEverEarly` follows, as
a task can only pass a round that is no longer open. `NobodyEverEarly` and `DecrementsNeverLost` assume that the barriers in question are in `Ready`:
`barrier_init` shows what happens otherwise.

**Block device** (`GietIocProofs`), for any tasks, requests, blocks and disk. The invariant is
`TypeOK /\ Waiting /\ OneOwner /\ Phases`. `AlwaysExclusive` needs `OneOwner` with its last part: an `sc` that can still
succeed has a free lock. `OutcomeAlwaysOwn` and `BlocksAlwaysMoved` need `Phases`, which says for each place of the owner
which registers it has written and where the transfer may be: not begun, moving, ended with its interrupt
pending, between the two writes of the interrupt routine, or over. It is there that the order of the writes of `_isr_ioc` and of
`_ioc_completed` matters.

**Pipeline of TP5** (`GietTransposeProofs`), for any number and size of images and whatever transfers fail, with both
drivers, interrupt routines and devices. The invariant is `Types /\ Places /\ LoadPhase /\ DisplayPhase /\
TransposePhase /\ Flags`. `LoadPhase` and `DisplayPhase` say for each place of a task in its driver how far its transfer
is and which lines have been moved; `TransposePhase` which pixels have been copied; `Flags` ties the two flags to the images
the tasks are at: `buf_in` is full exactly when the load task is one image ahead of the transposition. `BuffersAlwaysHeld` follows from
the phases, as a device moves only between a task's call and its completion; `FramesAlwaysInOrder` needs all of them, from the disk to
the frame buffer. A step of one part leaves what the others look at alone (`LoadSame`, `DisplaySame`, ...); `Pixels` is
the arithmetic of line and column.

**Context switch** (`GietKernelProofs`), for any number of processors and tasks, any vectors and programs.
`ContextAlwaysKept` follows from `Types /\ Places /\ \A p \in sys.procs : Keeps(p)`, which says of each processor where every one of
its tasks has left its context: the current one has it in the registers, or, once interrupted, in its frame on
its own stack (`Stacked`); every other one in its entry of `_task_context_array`, and that entry leads back to
the place where the task left off (`Sleeps`, `LeftOff`), be it user code or a system call it had entered. There is one
lemma per step of the interrupt path, and one for all accesses of programs and system calls, which
change no context. Devices do not appear in the invariant: whatever they raise, and whenever, the contexts are kept.

**Characters of the kernel** (`GietKernelProofs`, third part), on the platforms of TP3 to TP6, for any number of processors and tasks,
whichever program each task runs, any interrupt lines, vectors and masks, and any characters.
`CharactersAlwaysInOrder` rests on the two invariants above and on `DevInv`. A character goes from the register of its terminal
to `_tty_get_buf`, then to the program, and its number grows along this way: what a program has received is older than what
its full buffer holds (`Newer`), and that has been taken from the terminal (`Devices`). The one moment when this fails is
between the read of the buffer and the reset of the flag, where the buffer may hold the same character still: `Buffered` leaves
out the step `tty_reset`, at whose end the flag is down. An interrupt there may put a newer character in the buffer, which the
reset loses; it never brings an older one back. Three facts keep numbers out of order from getting in. A routine of a terminal
runs only while its register has a character (`Answers`), although the ICU is read before and the register after:
no other processor or task reads this register in between, as terminals are distinct
and main_gcd, which polls one, is interrupted while the routine runs. A program that has seen its status at 1 finds the register
full, unless the terminal interrupts (`Drives`): it may be given something that was not typed only then, and
`SharesTerminal` is that condition in the theorem. And each access reaches the register it means (`Reaches`): this takes
`MapInv`, as the address goes through the routing table that was built. `PlatformAssumption` is what the build of each
platform provides: a segment for each device at the base the linker script names, with room for the channels the software
uses, and interrupt lines tied to the terminal whose routine the vector calls. TLC evaluates it on every system of the run.
`TypeAlwaysOK` adds `Temps` (saved temporaries are those of a task of the same processor, or what a routine left) and `Rets`.

**Numbers of the kernel** (`GietKernelProofs`, last part), for any number of processors and tasks, any characters, a line of any
size and words of at most 32 bits. `NumbersAlwaysKept` says that a client of the user library that reads a number with
`tty_getw_irq` and prints it with `tty_printf("%u")` gets the number typed, whatever DELs came in between, and writes it, without leading
zeros. What was *typed* and not cancelled is defined without a line (`Kept`: a digit stays if each DEL after it finds
another digit between the two), so the theorem compares two definitions. It takes both invariants above, for
the value a system call has returned, and `NumInv`, for the program:

- `Writes`: the digits in the line are those kept of the characters heard, at increasing positions, and after the k-th come as
  many more digits than DELs (`Balance`) as follow it in the line. The last part makes it inductive: a DEL takes the last digit
  of the line since this is the one whose balance becomes negative (`LastCancelled`), and no other's does; a DEL on an empty line and
  any other character change nothing (`LineLeft`); a digit is kept and adds one to every balance (`DigitWritten`).
- what was converted and printed is `Converted` and `Printed` of this line.

Three lemmas on the operators follow. `NumberWritten`: the line has the value of the digits kept. `ConvertedRight`: the
loop of the conversion, which multiplies modulo the size of a word and compares with the value before, reports no overflow
and loses nothing when that value fits. `PrintedRight`: ten divisions by ten suffice for an `int` of 32 bits (hence the assumption) and the digits
written have the value printed. These are statements about recursive functions for all inputs. The library's
induction theorems have a parameter that is an operator, which the provers cannot instantiate; `EveryNatural`
is induction on the elements of a *set* instead, shown from the least element outside it
(`WellFoundedInduction`), and `Recursion` gives the function that follows a step *function* from a value, both without such a parameter.

**Only model-checked**: liveness, which is out of the prover's reach (`RequestsAnswered` of `fifo_gcd`, `gcd_bus` and `xcache`, `EveryoneReturns`,
`EveryRequestServed`, `AllDisplayed`, `InterruptsServed` and `TasksTakeTurns`). Every safety property of a passing run is
proved, the refinements included. The runs that find a violation have no theorem: among them is the only one of the
program of TP4 on both drivers (`display_overrun`).

## 6. What is not modelled

- The caches under the GIET: memory is coherent in its modules, and the invalidation of the buffers
  (`_dcache_buf_invalidate`) is left out. Two hazards are left open for this reason.
- `_fb_sync_read` and `_fb_sync_write`, copies by the processor of what only its task uses, and the image viewer of
  TP6, a loop of `ioc_read`, `ioc_completed` and `fb_sync_write` by one task: its requests are some of those of `GietIocClients`.
- `_timer_read`, `_icu_read`, `_icu_write`: no program calls them.
- `_isr_swi` and `_isr_default`, which nothing raises; exceptions, which print and end a program.
- Of the user library: `tty_gets`, the formats other than `%u`, `rand`.
- `tp5_cluster_top.cpp`: unfinished, its segments still read TO BE COMPLETED and it does not compile.
- `tp2_simple_top.cpp` (one master, one coprocessor): an instance of `GcdBusTop`, covered by its proofs.
- `soft_gcd` of TP5 (see above). The image viewer of `soft_multi` is, but for a name, the one `GietDisplay` models.
- VCI ports and signals, bundles of wires; printing and allocation of tables; clock loops and loaders of the top cells.
- Byte enables, cache sets, instrumentation and `setWriteBerr` of TP6.
- `tools/giet_2011`, a copy of `giet_2011`; reports, disassembly.

## 7. What could follow

The components that carry the logic of the repository are modelled, checked, and in part proved. What would add most:

1. The drivers on the cache of TP6: the buffers of `_ioc_read` and `_fb_read` with invalidation as
   written, and the order between cached writes and uncached device registers (two hazards without a property).
