------------------------------ MODULE GietBarrier ------------------------------
(***************************************************************************)
(* The software barriers of the GIET: _barrier_init and _barrier_wait      *)
(* (sys/common.c), called by tasks that run on processors of their own.    *)
(* The variables of a barrier are uncached, so each load, store, ll or sc  *)
(* is one transaction on the memory and one step here.                     *)
(*                                                                         *)
(* The tasks all run the same program, a sequence of calls; the barriers   *)
(* of Ready were initialised before the tasks were started.                *)
(***************************************************************************)
EXTENDS Integers, Sequences, FiniteSets

CONSTANTS Task,
          MaxBarrierCount,  \* MAX_BARRIER_COUNT
          MaxCount,         \* the largest unsigned int (2^32 - 1)
          Calls,            \* the system calls of a task, in order
          Ready             \* the barriers initialised beforehand

Index == 0 .. MaxBarrierCount - 1

ASSUME BarrierAssumption ==
  /\ IsFiniteSet(Task) /\ Task /= {}
  /\ MaxBarrierCount \in Nat /\ Ready \subseteq Index
  /\ MaxCount \in Nat /\ MaxCount >= Cardinality(Task)
  /\ Calls \in Seq([op : {"barrier_init", "barrier_wait"}, index : Nat])

(* The value every task gives to barrier_init: all of them synchronise.    *)
Value == Cardinality(Task)

VARIABLES initial,      \* _barrier_initial_value
          count,        \* _barrier_count
          link,         \* the word each processor's ll reserved, if any
          at,           \* the position in Calls of each task
          pc,           \* its position in the call
          maxcount, got \* the local variables maxcount and count

vars == <<initial, count, link, at, pc, maxcount, got>>

NoLink == <<"none", 0>>

Init ==
  /\ initial = [i \in Index |-> IF i \in Ready THEN Value ELSE 0]
  /\ count = initial
  /\ link = [t \in Task |-> NoLink]
  /\ at = [t \in Task |-> 1]
  /\ pc = [t \in Task |-> "entry"]
  /\ maxcount = [t \in Task |-> 0] /\ got = [t \in Task |-> 0]

-------------------------------------------------------------------------------
Ended(t) == at[t] > Len(Calls)
Idx(t)   == Calls[at[t]].index

(* Task t is in a call of op, about to do the access named l.              *)
In(t, op, l) ==
  ~Ended(t) /\ Calls[at[t]].op = op /\ pc[t] = l /\ Idx(t) < MaxBarrierCount

Goto(t, l) == pc' = [pc EXCEPT ![t] = l] /\ at' = at

Return(t) == pc' = [pc EXCEPT ![t] = "entry"] /\ at' = [at EXCEPT ![t] = @ + 1]

(* ll reserves a word for its processor, and any store to the word cancels *)
(* every reservation of it: sc succeeds if its reservation has survived.   *)
Reserve(t, word) == link' = [link EXCEPT ![t] = word]
Cancel(word)     == link' = [u \in Task |-> IF link[u] = word THEN NoLink ELSE link[u]]

(* A store-conditional that is but a store.                                *)
LinkedAlways(t, word) == TRUE

Linked(t, word) == link[t] = word

(* The check of the index, in both calls.                                  *)
Refuse(t) ==
  /\ ~Ended(t) /\ Idx(t) >= MaxBarrierCount
  /\ Return(t)
  /\ UNCHANGED <<initial, count, link, maxcount, got>>

-------------------------------------------------------------------------------
(* _barrier_init: the one task whose sc changes the initial value from 0   *)
(* then sets the count; the others return at once.                         *)
InitLL(t) ==
  /\ In(t, "barrier_init", "entry")
  /\ Reserve(t, <<"initial", Idx(t)>>)
  /\ IF initial[Idx(t)] /= 0 THEN Return(t) ELSE Goto(t, "init_sc")
  /\ UNCHANGED <<initial, count, maxcount, got>>

InitSC(t) ==
  /\ In(t, "barrier_init", "init_sc")
  /\ IF Linked(t, <<"initial", Idx(t)>>)
     THEN /\ initial' = [initial EXCEPT ![Idx(t)] = Value]
          /\ Cancel(<<"initial", Idx(t)>>)
          /\ Goto(t, "init_count")
     ELSE Goto(t, "entry") /\ UNCHANGED <<initial, link>>
  /\ UNCHANGED <<count, maxcount, got>>

InitCount(t) ==
  /\ In(t, "barrier_init", "init_count")
  /\ count' = [count EXCEPT ![Idx(t)] = Value]
  /\ Cancel(<<"count", Idx(t)>>)
  /\ Return(t)
  /\ UNCHANGED <<initial, maxcount, got>>

-------------------------------------------------------------------------------
(* _barrier_wait: decrement the count; the last task sets it back to the   *)
(* initial value, the others poll it until it has that value again.        *)
WaitMax(t) ==
  /\ In(t, "barrier_wait", "entry")
  /\ maxcount' = [maxcount EXCEPT ![t] = initial[Idx(t)]]
  /\ Goto(t, "wait_ll")
  /\ UNCHANGED <<initial, count, link, got>>

WaitLL(t) ==
  /\ In(t, "barrier_wait", "wait_ll")
  /\ Reserve(t, <<"count", Idx(t)>>)
  /\ got' = [got EXCEPT ![t] = count[Idx(t)]]
  /\ Goto(t, "wait_sc")
  /\ UNCHANGED <<initial, count, maxcount>>

(* An addi of the wrong sign.                                              *)
DecrementUp(n) == n + 1

(* addi -1 on an unsigned int.                                             *)
Decrement(n) == (n + MaxCount) % (MaxCount + 1)

(* A task that takes itself for the last one a task too early.             *)
AfterDecrementEarly(n) == IF n <= 2 THEN "release" ELSE "poll"

AfterDecrement(n) == IF n = 1 THEN "release" ELSE "poll"

WaitSC(t) ==
  /\ In(t, "barrier_wait", "wait_sc")
  /\ IF Linked(t, <<"count", Idx(t)>>)
     THEN /\ count' = [count EXCEPT ![Idx(t)] = Decrement(got[t])]
          /\ Cancel(<<"count", Idx(t)>>)
          /\ Goto(t, AfterDecrement(got[t]))
     ELSE Goto(t, "wait_ll") /\ UNCHANGED <<count, link>>
  /\ UNCHANGED <<initial, maxcount, got>>

(* A last task that forgets the others.                                    *)
ReleaseNobody(t) ==
  /\ In(t, "barrier_wait", "release")
  /\ Return(t)
  /\ UNCHANGED <<initial, count, link, maxcount, got>>

Release(t) ==
  /\ In(t, "barrier_wait", "release")
  /\ count' = [count EXCEPT ![Idx(t)] = maxcount[t]]
  /\ Cancel(<<"count", Idx(t)>>)
  /\ Return(t)
  /\ UNCHANGED <<initial, maxcount, got>>

Poll(t) ==
  /\ In(t, "barrier_wait", "poll")
  /\ IF count[Idx(t)] = maxcount[t] THEN Return(t) ELSE UNCHANGED <<at, pc>>
  /\ UNCHANGED <<initial, count, link, maxcount, got>>

Step(t) ==
  \/ Refuse(t)
  \/ InitLL(t) \/ InitSC(t) \/ InitCount(t)
  \/ WaitMax(t) \/ WaitLL(t) \/ WaitSC(t) \/ Release(t) \/ Poll(t)

(* The tasks have all run their program.                                   *)
AllEnded == (\A t \in Task : Ended(t)) /\ UNCHANGED vars

Next == (\E t \in Task : Step(t)) \/ AllEnded

(* A processor goes on executing its task.                                 *)
Spec == Init /\ [][Next]_vars /\ \A t \in Task : WF_vars(Step(t))

-------------------------------------------------------------------------------
Word == 0 .. MaxCount

TypeOK ==
  /\ initial \in [Index -> Word] /\ count \in [Index -> Word]
  /\ link \in [Task -> {NoLink} \cup ({"initial", "count"} \X Index)]
  /\ at \in [Task -> 1 .. Len(Calls) + 1]
  /\ pc \in [Task -> {"entry", "init_sc", "init_count",
                      "wait_ll", "wait_sc", "release", "poll"}]
  /\ maxcount \in [Task -> Word] /\ got \in [Task -> Word]

(* The waits of Calls that the kernel does not refuse.                     *)
Waits == {k \in 1 .. Len(Calls) :
            Calls[k].op = "barrier_wait" /\ Calls[k].index < MaxBarrierCount}

(* Task t has done the decrement of its k-th call.                         *)
Arrived(t, k) == at[t] > k \/ (at[t] = k /\ pc[t] \in {"release", "poll"})

(***************************************************************************)
(* "barrier_wait returns only when all synchonized asks have reached the   *)
(* barrier" (stdio.c:828): who has left a wait, all have arrived at it.    *)
(***************************************************************************)
NobodyEarly ==
  \A k \in Waits : \A t, u \in Task : at[t] > k => Arrived(u, k)

Arrivals(i) ==
  Cardinality({p \in Task \X Waits : Calls[p[2]].index = i /\ Arrived(p[1], p[2])})

(* A task is about to give barrier i its count.                            *)
BeingInitialised(i) == \E t \in Task : In(t, "barrier_init", "init_count") /\ Idx(t) = i

(***************************************************************************)
(* No decrement is lost however the ll and sc of the tasks interleave: up  *)
(* to whole rounds, the count is what the arrivals leave of the value.     *)
(***************************************************************************)
NoLostDecrement ==
  \A i \in Index :
    initial[i] /= 0 /\ ~BeingInitialised(i) => (Arrivals(i) + count[i]) % Value = 0

(***************************************************************************)
(* "The last task re-initializes the barrier counter to the max value,     *)
(* waking up all other waiting tasks" (common.c:189): every wait returns.  *)
(***************************************************************************)
EveryoneReturns == \A t \in Task : <>Ended(t)
===============================================================================
