--------------------------- MODULE GietBarrierProofs ---------------------------
(***************************************************************************)
(* Proofs about GietBarrier, for any tasks and calls: on a barrier that    *)
(* was initialised before the tasks were started, nobody leaves early and  *)
(* no decrement is lost.                                                   *)
(***************************************************************************)
EXTENDS GietBarrier, FiniteSetTheorems, TLAPS

(* Each wait of the program on barrier i is a round of it.                 *)
WaitsOn(i) == {k \in Waits : Calls[k].index = i}

ArrivedAt(k) == {t \in Task : Arrived(t, k)}

Releasing(t, k) == at[t] = k /\ pc[t] = "release"

(* Somebody has arrived, and the count is not set back yet.                *)
Open(k) == ArrivedAt(k) /= {} /\ (ArrivedAt(k) /= Task \/ \E t \in Task : Releasing(t, k))

(* Who waits on a barrier of Ready has read its value, and an sc that can  *)
(* succeed stores one less than the count.                                 *)
Waiter(t) ==
  ~Ended(t) /\ Idx(t) \in Ready =>
    /\ pc[t] \notin {"init_sc", "init_count"}
    /\ pc[t] \in {"wait_ll", "wait_sc", "release", "poll"} => maxcount[t] = Value
    /\ pc[t] = "wait_sc" /\ Linked(t, <<"count", Idx(t)>>) => got[t] = count[Idx(t)]

Waiters == (\A i \in Ready : initial[i] = Value) /\ \A t \in Task : Waiter(t)

(* One round after the other; one task releases a round, once all have     *)
(* arrived; nobody has passed the open round, and the count is what its    *)
(* arrivals leave of Value.                                                *)
Round(i) ==
  /\ \A j, k \in WaitsOn(i) : j < k /\ ArrivedAt(k) /= {} => ArrivedAt(j) = Task
  /\ \A k \in WaitsOn(i) : \A t, u \in Task :
       Releasing(t, k) => ArrivedAt(k) = Task /\ (Releasing(u, k) => u = t)
  /\ \A k \in WaitsOn(i) :
       Open(k) => count[i] = Value - Cardinality(ArrivedAt(k)) /\ \A t \in Task : at[t] <= k
  /\ (\A k \in WaitsOn(i) : ~Open(k)) => count[i] = Value

Pairs(i) == {p \in Task \X Waits : Calls[p[2]].index = i /\ Arrived(p[1], p[2])}

NoneLost(i) == (Arrivals(i) + count[i]) % Value = 0

IInv == TypeOK /\ Waiters /\ \A i \in Ready : Round(i) /\ NoneLost(i)

LEMMA ValueType == Value \in Nat /\ 0 < Value /\ Value <= MaxCount /\ MaxCount \in Nat
<1>1. Value \in Nat /\ Value /= 0
  BY BarrierAssumption, FS_CardinalityType, FS_EmptySet DEF Value
<1> QED
  BY <1>1, BarrierAssumption DEF Value

LEMMA DecrementType ==
  /\ \A n \in Word : Decrement(n) \in Word
  /\ \A n \in Word : 0 < n => Decrement(n) = n - 1
<1> DEFINE m == MaxCount + 1
<1>1. m \in Nat \ {0} /\ MaxCount \in Nat
  BY ValueType
<1>2. ASSUME NEW n \in Word PROVE Decrement(n) \in Word
  <2> DEFINE x == n + MaxCount
  <2>1. x \in Nat
    BY <1>1 DEF Word
  <2> HIDE DEF m, x
  <2>2. x % m \in 0 .. m - 1
    BY <1>1, <2>1
  <2> QED
    BY <1>1, <2>2 DEF Decrement, Word, m, x
<1>3. ASSUME NEW n \in Word, 0 < n PROVE Decrement(n) = n - 1
  <2>1. n - 1 \in 0 .. m - 1 /\ n + MaxCount = (n - 1) + m
    BY <1>1, <1>3 DEF Word
  <2> DEFINE y == n - 1
  <2> HIDE DEF m, y
  <2>2. y \in 0 .. m - 1 => (y + m) % m = y
    BY <1>1
  <2> QED
    BY <2>1, <2>2 DEF Decrement, m, y
<1> QED
  BY <1>2, <1>3

LEMMA RoundsModulo ==
  ASSUME NEW x \in Nat, NEW v \in Nat \ {0}, x % v = 0
  PROVE  (x + v) % v = 0
<1>1. x = v * (x \div v) + (x % v) /\ x \div v \in Int
  BY SMT
<1>2. PICK q \in Int : x = v * q
  BY <1>1
<1>3. x + v = v * (q + 1)
  BY <1>2
<1>4. \A z \in Int : (v * z) % v = 0
  BY SMT
<1> QED
  BY <1>2, <1>3, <1>4

LEMMA ArrivedFinite ==
  ASSUME NEW k
  PROVE  IsFiniteSet(ArrivedAt(k)) /\ Cardinality(ArrivedAt(k)) \in 0 .. Value
<1>1. ArrivedAt(k) \in SUBSET Task /\ IsFiniteSet(Task)
  BY BarrierAssumption DEF ArrivedAt
<1>2. IsFiniteSet(ArrivedAt(k)) /\ Cardinality(ArrivedAt(k)) <= Value
  BY <1>1, FS_Subset DEF Value
<1> QED
  BY <1>2, ValueType, FS_CardinalityType

LEMMA PairsFinite == ASSUME NEW i PROVE IsFiniteSet(Pairs(i)) /\ Cardinality(Pairs(i)) \in Nat
<1>1. Len(Calls) \in Nat
  BY BarrierAssumption
<1>2. IsFiniteSet(1 .. Len(Calls))
  BY <1>1, FS_Interval
<1>3. IsFiniteSet(Waits)
  BY <1>2, FS_Subset DEF Waits
<1>4. IsFiniteSet(Task \X Waits)
  BY <1>3, BarrierAssumption, FS_Product
<1>5. IsFiniteSet(Pairs(i))
  BY <1>4, FS_Subset DEF Pairs
<1> QED
  BY <1>5, FS_CardinalityType

LEMMA WaitsNumbers ==
  /\ \A i : \A k \in WaitsOn(i) : k \in 1 .. Len(Calls) /\ k \in Waits /\ Calls[k].index = i
  /\ Len(Calls) \in Nat
  /\ \A k \in 1 .. Len(Calls) : Calls[k].index \in Nat
<1>1. Len(Calls) \in Nat
  BY BarrierAssumption
<1>2. ASSUME NEW k \in 1 .. Len(Calls) PROVE Calls[k].index \in Nat
  <2> DEFINE Call == [op : {"barrier_init", "barrier_wait"}, index : Nat]
  <2>1. Calls \in Seq(Call)
    BY BarrierAssumption
  <2> HIDE DEF Call
  <2>2. Calls[k] \in Call
    BY <2>1
  <2> QED
    BY <2>2 DEF Call
<1> QED
  BY <1>1, <1>2 DEF WaitsOn, Waits

-------------------------------------------------------------------------------
LEMMA InitIInv == Init => IInv
<1> SUFFICES ASSUME Init PROVE IInv
  OBVIOUS
<1> USE DEF Init
<1>1. Ready \subseteq Index /\ 0 \in Word /\ Value \in Word /\ 1 \in 1 .. Len(Calls) + 1
  BY ValueType, WaitsNumbers, BarrierAssumption DEF Word
<1>2. TypeOK
  BY <1>1 DEF TypeOK
<1>3. Waiters
  BY <1>1 DEF Waiters, Waiter
<1>4. ASSUME NEW i \in Ready PROVE Round(i) /\ NoneLost(i)
  <2>1. \A t \in Task : \A k \in Waits : ~Arrived(t, k) /\ ~Releasing(t, k)
    BY WaitsNumbers DEF Arrived, Releasing, Waits
  <2>2. \A k \in WaitsOn(i) : ArrivedAt(k) = {} /\ ~Open(k)
    BY <2>1, WaitsNumbers DEF ArrivedAt, Open
  <2>3. count[i] = Value
    BY <1>1
  <2>4. Round(i)
    BY <2>1, <2>2, <2>3, WaitsNumbers DEF Round
  <2>5. Pairs(i) = {}
    BY <2>1 DEF Pairs
  <2>6. Arrivals(i) = 0
    BY <2>5, FS_EmptySet DEF Arrivals, Pairs
  <2>7. (0 + Value) % Value = 0
    BY ValueType
  <2> QED
    BY <2>3, <2>4, <2>6, <2>7 DEF NoneLost
<1> QED
  BY <1>2, <1>3, <1>4 DEF IInv

LEMMA TypeKept ==
  ASSUME TypeOK, NEW t \in Task, Step(t)
  PROVE  TypeOK'
<1> USE DEF TypeOK, Goto, Return
<1>1. ~Ended(t)
  BY DEF Step, Refuse, In, InitLL, InitSC, InitCount, WaitMax, WaitLL, WaitSC, Release, Poll
<1>2. at[t] \in 1 .. Len(Calls) /\ at[t] + 1 \in 1 .. Len(Calls) + 1
  BY <1>1, WaitsNumbers DEF Ended
<1>3. Idx(t) < MaxBarrierCount => Idx(t) \in Index
  BY <1>2, WaitsNumbers, BarrierAssumption DEF Idx, Index
<1>4. CASE Refuse(t)
  BY <1>2, <1>4 DEF Refuse
<1>5. CASE InitLL(t)
  BY <1>2, <1>3, <1>5 DEF InitLL, In, Reserve
<1>6. CASE InitSC(t)
  <2>1. Value \in Word /\ Idx(t) \in Index
    BY <1>3, <1>6, ValueType DEF InitSC, In, Word
  <2>2. link' \in [Task -> {NoLink} \cup ({"initial", "count"} \X Index)]
    BY <1>6 DEF InitSC, Cancel
  <2>3. initial' \in [Index -> Word] /\ UNCHANGED <<count, maxcount, got, at>>
    BY <2>1, <1>6 DEF InitSC
  <2>4. pc' = [pc EXCEPT ![t] = "init_count"] \/ pc' = [pc EXCEPT ![t] = "entry"]
    BY <1>6 DEF InitSC
  <2> QED
    BY <2>2, <2>3, <2>4
<1>7. CASE InitCount(t)
  BY <1>2, <1>3, <1>7, ValueType DEF InitCount, In, Cancel, Word
<1>8. CASE WaitMax(t)
  BY <1>2, <1>3, <1>8 DEF WaitMax, In
<1>9. CASE WaitLL(t)
  BY <1>2, <1>3, <1>9 DEF WaitLL, In, Reserve
<1>10. CASE WaitSC(t)
  <2>1. AfterDecrement(got[t]) \in {"release", "poll"} /\ Decrement(got[t]) \in Word
    BY DecrementType DEF AfterDecrement
  <2>2. link' \in [Task -> {NoLink} \cup ({"initial", "count"} \X Index)]
    BY <1>10 DEF WaitSC, Cancel
  <2>3. count' \in [Index -> Word] /\ UNCHANGED <<initial, maxcount, got, at>>
    BY <2>1, <1>10 DEF WaitSC
  <2>4. \/ pc' = [pc EXCEPT ![t] = AfterDecrement(got[t])]
        \/ pc' = [pc EXCEPT ![t] = "wait_ll"]
    BY <1>10 DEF WaitSC
  <2> QED
    BY <2>1, <2>2, <2>3, <2>4
<1>11. CASE Release(t)
  BY <1>2, <1>3, <1>11 DEF Release, In, Cancel
<1>12. CASE Poll(t)
  BY <1>2, <1>3, <1>12 DEF Poll, In
<1> QED
  BY <1>4, <1>5, <1>6, <1>7, <1>8, <1>9, <1>10, <1>11, <1>12 DEF Step

-------------------------------------------------------------------------------
(* The step of t moves no other task, and count and initial but at Idx(t). *)
Alone(t) ==
  /\ \A u \in Task : u /= t => at'[u] = at[u] /\ pc'[u] = pc[u]
  /\ \A i \in Index : i /= Idx(t) => count'[i] = count[i]

(* Nobody's part in barrier i has changed.                                 *)
Unmoved(i) ==
  \A k \in WaitsOn(i) : \A u \in Task :
    /\ Arrived(u, k)' <=> Arrived(u, k)
    /\ Releasing(u, k)' <=> Releasing(u, k)
    /\ Open(k) /\ at[u] <= k => at'[u] <= k

LEMMA UnmovedKeeps ==
  ASSUME NEW i \in Ready, Round(i), NoneLost(i), count'[i] = count[i], Unmoved(i)
  PROVE  Round(i)' /\ NoneLost(i)'
<1>1. \A k \in WaitsOn(i) : ArrivedAt(k)' = ArrivedAt(k)
  BY DEF Unmoved, ArrivedAt
<1>2. \A k \in WaitsOn(i) : \A u \in Task : Releasing(u, k)' <=> Releasing(u, k)
  BY DEF Unmoved
<1>3. \A k \in WaitsOn(i) : Open(k)' <=> Open(k)
  BY <1>1, <1>2 DEF Open
<1>4. Pairs(i)' = Pairs(i)
  BY DEF Unmoved, Pairs, WaitsOn
<1>5. Arrivals(i)' = Arrivals(i)
  BY <1>4 DEF Arrivals, Pairs
<1>6. NoneLost(i)'
  BY <1>5 DEF NoneLost
<1>7. (\A k \in WaitsOn(i) : Open(k) =>
          count[i] = Value - Cardinality(ArrivedAt(k)) /\ \A u \in Task : at[u] <= k)'
  BY <1>1, <1>3 DEF Round, Unmoved
<1>8. (\A j, k \in WaitsOn(i) : j < k /\ ArrivedAt(k) /= {} => ArrivedAt(j) = Task)'
  BY <1>1 DEF Round
<1>9. (\A k \in WaitsOn(i) : \A r, u \in Task :
         Releasing(r, k) => ArrivedAt(k) = Task /\ (Releasing(u, k) => u = r))'
  BY <1>1, <1>2 DEF Round
<1>10. ((\A k \in WaitsOn(i) : ~Open(k)) => count[i] = Value)'
  BY <1>3 DEF Round
<1> QED
  BY <1>6, <1>7, <1>8, <1>9, <1>10 DEF Round

(* A task that stays where it is, or moves on from a call that is not a    *)
(* wait on i.                                                              *)
LEMMA ElsewhereUnmoved ==
  ASSUME TypeOK, NEW t \in Task, NEW i, Alone(t),
         \/ at'[t] = at[t] /\ (at[t] \notin WaitsOn(i) \/ pc'[t] = pc[t]
                                 \/ {pc[t], pc'[t]} \cap {"release", "poll"} = {})
         \/ at'[t] = at[t] + 1 /\ pc'[t] = "entry" /\ at[t] \notin WaitsOn(i)
  PROVE  Unmoved(i)
<1>1. \A u \in Task : at[u] \in Nat
  BY WaitsNumbers DEF TypeOK
<1>2. \A k \in WaitsOn(i) : k \in Nat
  BY WaitsNumbers
<1>3. ASSUME NEW k \in WaitsOn(i), NEW u \in Task, u /= t
      PROVE  /\ Arrived(u, k)' <=> Arrived(u, k)
             /\ Releasing(u, k)' <=> Releasing(u, k)
             /\ Open(k) /\ at[u] <= k => at'[u] <= k
  BY <1>3 DEF Alone, Arrived, Releasing
<1>4. ASSUME NEW k \in WaitsOn(i)
      PROVE  /\ Arrived(t, k)' <=> Arrived(t, k)
             /\ Releasing(t, k)' <=> Releasing(t, k)
             /\ Open(k) /\ at[t] <= k => at'[t] <= k
  <2>1. at[t] \in Nat /\ k \in Nat
    BY <1>1, <1>2
  <2>2. CASE at'[t] = at[t]
    BY <2>1, <2>2 DEF Arrived, Releasing
  <2>3. CASE at'[t] = at[t] + 1 /\ pc'[t] = "entry" /\ at[t] \notin WaitsOn(i)
    BY <2>1, <2>3 DEF Arrived, Releasing
  <2> QED
    BY <2>2, <2>3
<1> QED
  BY <1>3, <1>4 DEF Unmoved

-------------------------------------------------------------------------------
(* Where a task is when it goes through a wait on a barrier of Ready.      *)
LEMMA InWait ==
  ASSUME TypeOK, Waiters, NEW t \in Task, ~Ended(t), Idx(t) \in Ready
  PROVE  /\ at[t] \in Nat /\ at[t] \in 1 .. Len(Calls)
         /\ Idx(t) \in Index /\ initial[Idx(t)] = Value /\ Value /= 0
         /\ pc[t] \notin {"init_sc", "init_count"}
         /\ pc[t] \in {"wait_ll", "wait_sc", "release", "poll"} => maxcount[t] = Value
         /\ pc[t] = "wait_sc" /\ Linked(t, <<"count", Idx(t)>>) => got[t] = count[Idx(t)]
         /\ Calls[at[t]].op = "barrier_wait" => at[t] \in WaitsOn(Idx(t))
<1>1. at[t] \in Nat /\ at[t] \in 1 .. Len(Calls)
  BY WaitsNumbers DEF TypeOK, Ended
<1>2. Idx(t) \in Index /\ Idx(t) < MaxBarrierCount
  <2>1. Idx(t) \in Index /\ MaxBarrierCount \in Nat
    BY BarrierAssumption
  <2> QED
    BY <2>1 DEF Index
<1>3. Calls[at[t]].op = "barrier_wait" => at[t] \in WaitsOn(Idx(t))
  BY <1>1, <1>2 DEF Idx, WaitsOn, Waits
<1> QED
  BY <1>1, <1>2, <1>3, ValueType DEF Waiters, Waiter

(* The waits where t is are on the barrier of its call.                    *)
LEMMA WaitHere ==
  ASSUME NEW t \in Task, NEW i \in Ready
  PROVE  at[t] \in WaitsOn(i) =>
           ~Ended(t) /\ Idx(t) = i /\ Idx(t) < MaxBarrierCount /\ Calls[at[t]].op = "barrier_wait"
<1> SUFFICES ASSUME at[t] \in WaitsOn(i)
             PROVE  ~Ended(t) /\ Idx(t) = i /\ Idx(t) < MaxBarrierCount
                      /\ Calls[at[t]].op = "barrier_wait"
  OBVIOUS
<1>1. at[t] \in 1 .. Len(Calls) /\ Calls[at[t]].index = i /\ i < MaxBarrierCount
        /\ Calls[at[t]].op = "barrier_wait"
  BY DEF WaitsOn, Waits
<1> QED
  BY <1>1, WaitsNumbers DEF Ended, Idx

(* What a step leaves of the waiters: nobody else moves, and the count of  *)
(* a barrier changes only with the cancelling of its reservations.         *)
LEMMA OthersWait ==
  ASSUME TypeOK, Waiters, NEW t \in Task, Alone(t),
         \A i \in Ready : initial'[i] = initial[i],
         \A u \in Task \ {t} : maxcount'[u] = maxcount[u] /\ got'[u] = got[u],
         \A u \in Task \ {t} : link'[u] = link[u] \/ link'[u] = NoLink,
         \/ count' = count
         \/ \A u \in Task : link'[u] /= <<"count", Idx(t)>>,
         Waiter(t)'
  PROVE  Waiters'
<1>1. ASSUME NEW u \in Task \ {t} PROVE Waiter(u)'
  <2>1. Ended(u)' = Ended(u) /\ Idx(u)' = Idx(u) /\ pc'[u] = pc[u]
    BY DEF Alone, Ended, Idx
  <2>2. SUFFICES ASSUME ~Ended(u), Idx(u) \in Ready
                 PROVE  /\ pc[u] \notin {"init_sc", "init_count"}
                        /\ pc[u] \in {"wait_ll", "wait_sc", "release", "poll"} => maxcount'[u] = Value
                        /\ pc[u] = "wait_sc" /\ link'[u] = <<"count", Idx(u)>> => got'[u] = count'[Idx(u)]
    BY <2>1 DEF Waiter, Linked
  <2>3. link'[u] = <<"count", Idx(u)>> => link[u] = link'[u]
    BY DEF NoLink
  <2>4. link'[u] = <<"count", Idx(u)>> => count'[Idx(u)] = count[Idx(u)]
    <3>1. CASE count' = count
      BY <3>1
    <3>2. CASE \A v \in Task : link'[v] /= <<"count", Idx(t)>>
      BY <3>2, <2>2, InWait DEF Alone
    <3> QED
      BY <3>1, <3>2
  <2> QED
    BY <2>2, <2>3, <2>4, InWait DEF Linked
<1> QED
  BY <1>1 DEF Waiters

LEMMA StepAlone ==
  ASSUME TypeOK, NEW t \in Task, Step(t)
  PROVE  Alone(t) /\ ~Ended(t)
<1> USE DEF TypeOK, Goto, Return, Alone
<1>1. CASE Refuse(t)
  BY <1>1 DEF Refuse
<1>2. CASE InitLL(t)
  BY <1>2 DEF InitLL, In
<1>3. CASE InitSC(t)
  BY <1>3 DEF InitSC, In
<1>4. CASE InitCount(t)
  BY <1>4 DEF InitCount, In
<1>5. CASE WaitMax(t)
  BY <1>5 DEF WaitMax, In
<1>6. CASE WaitLL(t)
  BY <1>6 DEF WaitLL, In
<1>7. CASE WaitSC(t)
  BY <1>7 DEF WaitSC, In
<1>8. CASE Release(t)
  BY <1>8 DEF Release, In
<1>9. CASE Poll(t)
  BY <1>9 DEF Poll, In
<1> QED
  BY <1>1, <1>2, <1>3, <1>4, <1>5, <1>6, <1>7, <1>8, <1>9 DEF Step

LEMMA ReturnsWaiting ==
  ASSUME TypeOK, NEW t \in Task, Return(t)
  PROVE  Waiter(t)'
BY DEF TypeOK, Return, Waiter

LEMMA WaitersKept ==
  ASSUME TypeOK, Waiters, NEW t \in Task, Step(t)
  PROVE  Waiters'
<1>1. Alone(t) /\ ~Ended(t)
  BY StepAlone
<1> USE DEF TypeOK
<1>2. CASE Refuse(t)
  <2>1. Waiter(t)'
    BY <1>2, ReturnsWaiting DEF Refuse
  <2> QED
    BY <1>1, <1>2, <2>1, OthersWait DEF Refuse
<1>3. CASE InitLL(t)
  <2>1. Waiter(t)'
    <3>1. CASE initial[Idx(t)] /= 0
      BY <1>3, <3>1, ReturnsWaiting DEF InitLL
    <3>2. CASE initial[Idx(t)] = 0
      <4>1. Idx(t) \notin Ready
        BY <1>1, <3>2, InWait
      <4>2. at' = at
        BY <1>3, <3>2 DEF InitLL, Goto
      <4> QED
        BY <4>1, <4>2 DEF Waiter, Idx
    <3> QED
      BY <3>1, <3>2
  <2> QED
    BY <1>1, <1>3, <2>1, OthersWait DEF InitLL, Reserve
<1>4. CASE InitSC(t)
  <2>1. Idx(t) \notin Ready
    BY <1>1, <1>4, InWait DEF InitSC, In
  <2>2. Waiter(t)'
    BY <1>4, <2>1 DEF InitSC, Goto, Waiter, Idx
  <2>3. \A i \in Ready : initial'[i] = initial[i]
    BY <1>4, <2>1, BarrierAssumption DEF InitSC
  <2> QED
    BY <1>1, <1>4, <2>2, <2>3, OthersWait DEF InitSC, Cancel
<1>5. CASE InitCount(t)
  <2>1. Waiter(t)'
    BY <1>5, ReturnsWaiting DEF InitCount
  <2>2. \A u \in Task : link'[u] /= <<"count", Idx(t)>>
    BY <1>5 DEF InitCount, Cancel, NoLink
  <2> QED
    BY <1>1, <1>5, <2>1, <2>2, OthersWait DEF InitCount, Cancel
<1>6. CASE WaitMax(t)
  <2>1. Waiter(t)'
    <3>1. Idx(t)' = Idx(t) /\ Ended(t)' = Ended(t) /\ pc'[t] = "wait_ll"
      BY <1>6 DEF WaitMax, Goto, Idx, Ended
    <3>2. maxcount'[t] = initial[Idx(t)]
      BY <1>6 DEF WaitMax
    <3> QED
      BY <1>1, <3>1, <3>2, InWait DEF Waiter
  <2> QED
    BY <1>1, <1>6, <2>1, OthersWait DEF WaitMax
<1>7. CASE WaitLL(t)
  <2>1. Waiter(t)'
    <3>1. Idx(t)' = Idx(t) /\ Ended(t)' = Ended(t) /\ pc'[t] = "wait_sc" /\ pc[t] = "wait_ll"
      BY <1>7 DEF WaitLL, In, Goto, Idx, Ended
    <3>2. got'[t] = count[Idx(t)] /\ count' = count /\ maxcount' = maxcount
      BY <1>7 DEF WaitLL
    <3> QED
      BY <1>1, <3>1, <3>2, InWait DEF Waiter
  <2> QED
    BY <1>1, <1>7, <2>1, OthersWait DEF WaitLL, Reserve
<1>8. CASE WaitSC(t)
  <2>1. Waiter(t)'
    <3>1. Idx(t)' = Idx(t) /\ Ended(t)' = Ended(t) /\ pc[t] = "wait_sc" /\ maxcount' = maxcount
      BY <1>8 DEF WaitSC, In, Goto, Idx, Ended
    <3>2. pc'[t] \in {"wait_ll", "release", "poll"}
      BY <1>8 DEF WaitSC, Goto, AfterDecrement
    <3> QED
      BY <1>1, <3>1, <3>2, InWait DEF Waiter
  <2>2. count' = count \/ \A u \in Task : link'[u] /= <<"count", Idx(t)>>
    <3>1. ASSUME Cancel(<<"count", Idx(t)>>), NEW u \in Task
          PROVE  link'[u] /= <<"count", Idx(t)>>
      BY <3>1 DEF Cancel, NoLink
    <3>2. count' = count \/ Cancel(<<"count", Idx(t)>>)
      BY <1>8 DEF WaitSC
    <3> QED
      BY <3>1, <3>2
  <2> QED
    BY <1>1, <1>8, <2>1, <2>2, OthersWait DEF WaitSC, Cancel
<1>9. CASE Release(t)
  <2>1. Waiter(t)'
    BY <1>9, ReturnsWaiting DEF Release
  <2>2. \A u \in Task : link'[u] /= <<"count", Idx(t)>>
    BY <1>9 DEF Release, Cancel, NoLink
  <2> QED
    BY <1>1, <1>9, <2>1, <2>2, OthersWait DEF Release, Cancel
<1>10. CASE Poll(t)
  <2>1. Waiter(t)'
    <3>1. CASE count[Idx(t)] = maxcount[t]
      BY <1>10, <3>1, ReturnsWaiting DEF Poll
    <3>2. CASE count[Idx(t)] /= maxcount[t]
      BY <1>10, <3>2 DEF Poll, Waiters, Waiter, Linked, Idx, Ended
    <3> QED
      BY <3>1, <3>2
  <2> QED
    BY <1>1, <1>10, <2>1, OthersWait DEF Poll
<1> QED
  BY <1>2, <1>3, <1>4, <1>5, <1>6, <1>7, <1>8, <1>9, <1>10 DEF Step

-------------------------------------------------------------------------------
(* The decrement of t, at its wait k on i.                                 *)
LEMMA Arrives ==
  ASSUME TypeOK, TypeOK', NEW t \in Task, NEW i \in Ready, Round(i), NoneLost(i), Alone(t),
         at[t] \in WaitsOn(i), pc[t] = "wait_sc", at' = at,
         count'[i] = Decrement(count[i]), pc'[t] = AfterDecrement(count[i])
  PROVE  Round(i)' /\ NoneLost(i)'
<1> DEFINE k == at[t]
<1> USE DEF Releasing
<1>1. \A j \in WaitsOn(i) : j \in Nat
  BY WaitsNumbers
<1>2. \A u \in Task : at[u] \in Nat /\ at'[u] = at[u]
  BY WaitsNumbers DEF TypeOK
<1>3. k \in WaitsOn(i) /\ k \in Nat
  BY <1>1
<1>4. pc'[t] \in {"release", "poll"} /\ (pc'[t] = "release" <=> count[i] = 1)
  BY DEF AfterDecrement
<1>5. \A j \in WaitsOn(i) : \A u \in Task \ {t} :
        (Arrived(u, j)' <=> Arrived(u, j)) /\ (Releasing(u, j)' <=> Releasing(u, j))
  BY <1>2 DEF Alone, Arrived
<1>6. \A j \in WaitsOn(i) :
        /\ Arrived(t, j) <=> j < k
        /\ Arrived(t, j)' <=> (j < k \/ j = k)
        /\ ~Releasing(t, j)
        /\ Releasing(t, j)' <=> (j = k /\ count[i] = 1)
  BY <1>1, <1>2, <1>4 DEF Arrived
<1>7. \A j \in WaitsOn(i) : j /= k =>
        ArrivedAt(j)' = ArrivedAt(j) /\ \A u \in Task : Releasing(u, j)' <=> Releasing(u, j)
  BY <1>5, <1>6 DEF ArrivedAt
<1>8. t \notin ArrivedAt(k) /\ ArrivedAt(k)' = ArrivedAt(k) \cup {t}
  BY <1>3, <1>5, <1>6 DEF ArrivedAt
<1>9. \A j \in WaitsOn(i) : j /= k => ~Open(j)
  <2> SUFFICES ASSUME NEW j \in WaitsOn(i), j /= k, Open(j) PROVE FALSE
    OBVIOUS
  <2>1. k < j /\ ArrivedAt(j) /= {}
    BY <1>1, <1>3 DEF Open, Round
  <2>2. ArrivedAt(k) = Task
    BY <1>3, <2>1 DEF Round
  <2> QED
    BY <1>8, <2>2
<1>10. count[i] = Value - Cardinality(ArrivedAt(k)) /\ \A u \in Task : at[u] <= k
  <2>1. CASE Open(k)
    BY <1>3, <2>1 DEF Round
  <2>2. CASE ~Open(k)
    <3>1. count[i] = Value
      BY <1>9, <2>2 DEF Round
    <3>2. ArrivedAt(k) = {}
      BY <1>8, <2>2 DEF Open
    <3>3. \A u \in Task : at[u] <= k
      BY <1>2, <1>3, <3>2 DEF ArrivedAt, Arrived
    <3> QED
      BY <3>1, <3>2, <3>3, FS_EmptySet, ValueType
  <2> QED
    BY <2>1, <2>2
<1>11. /\ Cardinality(ArrivedAt(k)) \in Nat
       /\ Cardinality(ArrivedAt(k)') = Cardinality(ArrivedAt(k)) + 1
       /\ Cardinality(ArrivedAt(k)') <= Value
       /\ Cardinality(ArrivedAt(k)') = Value => ArrivedAt(k)' = Task
       /\ ArrivedAt(k)' = Task => Cardinality(ArrivedAt(k)') = Value
  <2>1. ArrivedAt(k)' \in SUBSET Task /\ IsFiniteSet(Task)
    BY BarrierAssumption DEF ArrivedAt
  <2>2. Cardinality(ArrivedAt(k)') <= Value /\ (Value = Cardinality(ArrivedAt(k)') => Task = ArrivedAt(k)')
    BY <2>1, FS_Subset DEF Value
  <2>3. Cardinality(ArrivedAt(k) \cup {t}) = Cardinality(ArrivedAt(k)) + 1
    BY <1>8, ArrivedFinite, FS_AddElement
  <2> QED
    BY <1>8, <2>2, <2>3, ArrivedFinite DEF Value
<1>12. count[i] \in Nat /\ count[i] >= 1 /\ count'[i] = count[i] - 1
  <2>1. count[i] \in Word
    BY BarrierAssumption DEF TypeOK
  <2>2. count[i] >= 1
    BY <1>10, <1>11, ValueType
  <2> QED
    BY <2>1, <2>2, DecrementType DEF Word
<1>13. count[i] = 1 <=> ArrivedAt(k)' = Task
  BY <1>10, <1>11, ValueType
<1>14. (\A j, m \in WaitsOn(i) : j < m /\ ArrivedAt(m) /= {} => ArrivedAt(j) = Task)'
  <2> SUFFICES ASSUME NEW j \in WaitsOn(i), NEW m \in WaitsOn(i), j < m, ArrivedAt(m)' /= {}
               PROVE  ArrivedAt(j)' = Task
    BY DEF WaitsOn, Waits
  <2>1. CASE m /= k
    <3>1. ArrivedAt(j) = Task
      BY <1>7, <2>1 DEF Round
    <3> QED
      BY <1>7, <1>8, <3>1
  <2>2. CASE m = k
    <3>1. j < k /\ t \in ArrivedAt(j) /\ j /= k
      BY <1>1, <1>6, <2>2 DEF ArrivedAt
    <3>2. ArrivedAt(j) = Task
      BY <1>9, <3>1 DEF Open
    <3> QED
      BY <1>7, <3>1, <3>2
  <2> QED
    BY <2>1, <2>2
<1>15. \A u \in Task : ~Releasing(u, k)
  BY <1>3, <1>8 DEF Round
<1>16. (\A j \in WaitsOn(i) : \A r, u \in Task :
          Releasing(r, j) => ArrivedAt(j) = Task /\ (Releasing(u, j) => u = r))'
  <2> SUFFICES ASSUME NEW j \in WaitsOn(i), NEW r \in Task, NEW u \in Task, Releasing(r, j)'
               PROVE  ArrivedAt(j)' = Task /\ (Releasing(u, j)' => u = r)
    BY DEF WaitsOn, Waits
  <2>1. CASE j /= k
    BY <1>7, <2>1 DEF Round
  <2>2. CASE j = k
    <3>1. \A v \in Task : Releasing(v, k)' => v = t /\ count[i] = 1
      BY <1>3, <1>5, <1>6, <1>15
    <3> QED
      BY <1>13, <2>2, <3>1
  <2> QED
    BY <2>1, <2>2
<1>17. \A j \in WaitsOn(i) : Open(j)' => j = k
  BY <1>7, <1>9 DEF Open
<1>18. (\A j \in WaitsOn(i) :
          Open(j) => count[i] = Value - Cardinality(ArrivedAt(j)) /\ \A u \in Task : at[u] <= j)'
  <2> SUFFICES ASSUME NEW j \in WaitsOn(i), Open(j)'
               PROVE  count'[i] = Value - Cardinality(ArrivedAt(j)') /\ \A u \in Task : at'[u] <= j
    BY DEF WaitsOn, Waits
  <2> QED
    BY <1>2, <1>10, <1>11, <1>12, <1>17, ValueType
<1>19. Open(k)'
  <2>1. ArrivedAt(k)' /= {} /\ (ArrivedAt(k)' = Task => Releasing(t, k)')
    BY <1>3, <1>6, <1>8, <1>13
  <2> QED
    BY <2>1 DEF Open
<1>20. ((\A j \in WaitsOn(i) : ~Open(j)) => count[i] = Value)'
  BY <1>3, <1>19 DEF WaitsOn, Waits
<1>21. NoneLost(i)'
  <2>1. k \in Waits /\ Calls[k].index = i
    BY <1>3 DEF WaitsOn
  <2>2. <<t, k>> \notin Pairs(i) /\ Pairs(i)' = Pairs(i) \cup {<<t, k>>}
    <3>1. \A j \in Waits : Calls[j].index = i =>
            \A u \in Task : Arrived(u, j)' <=> Arrived(u, j) \/ (u = t /\ j = k)
      BY <1>5, <1>6 DEF WaitsOn
    <3>2. ~Arrived(t, k)
      BY <1>8 DEF ArrivedAt
    <3>3. \A p \in Task \X Waits : p = <<p[1], p[2]>> /\ p[1] \in Task /\ p[2] \in Waits
      OBVIOUS
    <3>4. <<t, k>> \notin Pairs(i)
      BY <3>2 DEF Pairs
    <3>5. ASSUME NEW p \in Task \X Waits
          PROVE  p \in Pairs(i)' <=> p \in Pairs(i) \/ p = <<t, k>>
      BY <2>1, <3>1, <3>3 DEF Pairs
    <3>6. Pairs(i)' \subseteq Task \X Waits /\ Pairs(i) \subseteq Task \X Waits
            /\ <<t, k>> \in Task \X Waits
      BY <2>1 DEF Pairs
    <3> QED
      BY <3>4, <3>5, <3>6
  <2>3. Cardinality(Pairs(i)') = Cardinality(Pairs(i)) + 1
    BY <2>2, PairsFinite, FS_AddElement
  <2>4. Arrivals(i)' = Cardinality(Pairs(i)') /\ Arrivals(i) = Cardinality(Pairs(i))
    BY DEF Arrivals, Pairs
  <2>5. Arrivals(i)' + count'[i] = Arrivals(i) + count[i]
    BY <1>12, <2>3, <2>4, PairsFinite
  <2> QED
    BY <2>5 DEF NoneLost
<1> QED
  BY <1>14, <1>16, <1>18, <1>20, <1>21 DEF Round

(* t leaves the wait k on i, at which all have arrived.                    *)
LEMMA LeavesUnmoved ==
  ASSUME TypeOK, NEW t \in Task, NEW i, Alone(t), at[t] \in WaitsOn(i), pc[t] = "poll",
         ~Open(at[t]), at'[t] = at[t] + 1, pc'[t] = "entry"
  PROVE  Unmoved(i)
<1>1. \A j \in WaitsOn(i) : j \in Nat
  BY WaitsNumbers
<1>2. at[t] \in Nat
  BY <1>1
<1>3. ASSUME NEW k \in WaitsOn(i), NEW u \in Task, u /= t
      PROVE  /\ Arrived(u, k)' <=> Arrived(u, k)
             /\ Releasing(u, k)' <=> Releasing(u, k)
             /\ Open(k) /\ at[u] <= k => at'[u] <= k
  BY <1>3 DEF Alone, Arrived, Releasing
<1>4. ASSUME NEW k \in WaitsOn(i)
      PROVE  /\ Arrived(t, k)' <=> Arrived(t, k)
             /\ Releasing(t, k)' <=> Releasing(t, k)
             /\ Open(k) /\ at[t] <= k => at'[t] <= k
  <2>1. k \in Nat
    BY <1>1
  <2> QED
    BY <1>2, <2>1 DEF Arrived, Releasing
<1> QED
  BY <1>3, <1>4 DEF Unmoved

LEMMA Returns ==
  ASSUME TypeOK, NEW t \in Task, NEW i \in Ready, Round(i), NoneLost(i), Alone(t),
         at[t] \in WaitsOn(i), pc[t] = "poll", count[i] = Value, count'[i] = count[i],
         at'[t] = at[t] + 1, pc'[t] = "entry"
  PROVE  Round(i)' /\ NoneLost(i)'
<1>1. t \in ArrivedAt(at[t])
  BY DEF ArrivedAt, Arrived
<1>2. Cardinality(ArrivedAt(at[t])) /= 0 /\ Cardinality(ArrivedAt(at[t])) \in Nat
  BY <1>1, ArrivedFinite, FS_EmptySet
<1>3. ~Open(at[t])
  BY <1>2, ValueType DEF Round
<1> QED
  BY <1>3, LeavesUnmoved, UnmovedKeeps

(* t, the last at the wait k on i, sets its count back.                    *)
LEMMA Releases ==
  ASSUME TypeOK, NEW t \in Task, NEW i \in Ready, Round(i), NoneLost(i), Alone(t),
         at[t] \in WaitsOn(i), pc[t] = "release", count'[i] = Value,
         at'[t] = at[t] + 1, pc'[t] = "entry"
  PROVE  Round(i)' /\ NoneLost(i)'
<1> DEFINE k == at[t]
<1>1. \A j \in WaitsOn(i) : j \in Nat
  BY WaitsNumbers
<1>2. k \in WaitsOn(i) /\ k \in Nat /\ Releasing(t, k)
  BY <1>1 DEF Releasing
<1>3. ArrivedAt(k) = Task /\ \A u \in Task : Releasing(u, k) => u = t
  BY <1>2 DEF Round
<1>4. count[i] = 0 /\ \A u \in Task : at[u] <= k
  <2>1. Open(k)
    BY <1>2, <1>3, BarrierAssumption DEF Open
  <2>2. count[i] = Value - Cardinality(ArrivedAt(k)) /\ \A u \in Task : at[u] <= k
    BY <1>2, <2>1 DEF Round
  <2> QED
    BY <1>3, <2>2, ValueType DEF Value
<1>5. \A u \in Task : at[u] \in Nat
  BY WaitsNumbers DEF TypeOK
<1>6. \A j \in WaitsOn(i) : \A u \in Task : Arrived(u, j)' <=> Arrived(u, j)
  <2> SUFFICES ASSUME NEW j \in WaitsOn(i), NEW u \in Task PROVE Arrived(u, j)' <=> Arrived(u, j)
    BY DEF WaitsOn, Waits
  <2>1. j \in Nat
    BY <1>1
  <2>2. CASE u = t
    BY <1>2, <2>1, <2>2 DEF Arrived
  <2>3. CASE u /= t
    BY <2>3 DEF Alone, Arrived
  <2> QED
    BY <2>2, <2>3
<1>7. \A j \in WaitsOn(i) : \A u \in Task : Releasing(u, j)' <=> Releasing(u, j) /\ u /= t
  BY DEF Alone, Releasing
<1>8. \A j \in WaitsOn(i) : ArrivedAt(j)' = ArrivedAt(j)
  BY <1>6 DEF ArrivedAt
<1>9. \A j \in WaitsOn(i) : ~Open(j)'
  <2> SUFFICES ASSUME NEW j \in WaitsOn(i), Open(j)' PROVE FALSE
    BY DEF WaitsOn, Waits
  <2>1. ArrivedAt(j) /= {} /\ (ArrivedAt(j) /= Task \/ \E u \in Task : Releasing(u, j) /\ u /= t)
    BY <1>7, <1>8 DEF Open
  <2>2. j /= k
    BY <1>3, <2>1
  <2>3. Open(j)
    BY <2>1 DEF Open
  <2>4. k <= j
    BY <2>3 DEF Round
  <2>5. \A u \in Task : at[u] < j
    BY <1>1, <1>2, <1>4, <1>5, <2>2, <2>4
  <2> QED
    BY <1>1, <1>5, <2>1, <2>5 DEF ArrivedAt, Arrived
<1>10. (\A j, m \in WaitsOn(i) : j < m /\ ArrivedAt(m) /= {} => ArrivedAt(j) = Task)'
  BY <1>8 DEF Round
<1>11. (\A j \in WaitsOn(i) : \A r, u \in Task :
          Releasing(r, j) => ArrivedAt(j) = Task /\ (Releasing(u, j) => u = r))'
  BY <1>7, <1>8 DEF Round
<1>12. Round(i)'
  BY <1>9, <1>10, <1>11 DEF Round
<1>13. NoneLost(i)'
  <2>1. Pairs(i)' = Pairs(i)
    BY <1>6 DEF Pairs, WaitsOn
  <2>2. Arrivals(i)' = Arrivals(i) /\ Arrivals(i) = Cardinality(Pairs(i))
    BY <2>1 DEF Arrivals, Pairs
  <2>3. Arrivals(i) \in Nat /\ Arrivals(i) % Value = 0
    BY <1>4, <2>2, PairsFinite DEF NoneLost
  <2>4. (Arrivals(i) + Value) % Value = 0
    BY <2>3, RoundsModulo, ValueType
  <2> QED
    BY <2>2, <2>4 DEF NoneLost
<1> QED
  BY <1>12, <1>13

-------------------------------------------------------------------------------
LEMMA StaysOrReturns ==
  ASSUME TypeOK, NEW t \in Task, Step(t)
  PROVE  at'[t] = at[t] \/ (at'[t] = at[t] + 1 /\ pc'[t] = "entry")
BY DEF TypeOK, Step, Refuse, InitLL, InitSC, InitCount, WaitMax, WaitLL, WaitSC, Release, Poll,
       Goto, Return

(* A step of t that is not part of a wait on i.                            *)
LEMMA ElsewhereKept ==
  ASSUME TypeOK, Waiters, NEW t \in Task, Step(t),
         NEW i \in Ready, Round(i), NoneLost(i), at[t] \notin WaitsOn(i)
  PROVE  Round(i)' /\ NoneLost(i)'
<1>1. Alone(t) /\ ~Ended(t)
  BY StepAlone
<1>2. Unmoved(i)
  BY <1>1, StaysOrReturns, ElsewhereUnmoved
<1>3. count'[i] = count[i]
  <2>1. CASE Idx(t) /= i
    BY <1>1, <2>1, BarrierAssumption DEF Alone
  <2>2. CASE Idx(t) = i
    <3>1. Calls[at[t]].op /= "barrier_wait" /\ pc[t] /= "init_count"
      BY <1>1, <2>2, InWait
    <3> QED
      BY <3>1 DEF Step, Refuse, InitLL, InitSC, InitCount, WaitMax, WaitLL, WaitSC, Release, Poll, In
  <2> QED
    BY <2>1, <2>2
<1> QED
  BY <1>2, <1>3, UnmovedKeeps

LEMMA WaitKept ==
  ASSUME TypeOK, TypeOK', Waiters, NEW t \in Task, Step(t),
         NEW i \in Ready, Round(i), NoneLost(i), at[t] \in WaitsOn(i)
  PROVE  Round(i)' /\ NoneLost(i)'
<1>1. Alone(t)
  BY StepAlone
<1>2. ~Ended(t) /\ Idx(t) = i /\ Idx(t) < MaxBarrierCount /\ Calls[at[t]].op = "barrier_wait"
  BY WaitHere
<1>3. Idx(t) \in Nat /\ i \in Index
  <2>1. i \in Index
    BY BarrierAssumption
  <2> QED
    BY <1>2, <2>1 DEF Index
<1>4. ~Refuse(t) /\ ~InitLL(t) /\ ~InitSC(t) /\ ~InitCount(t)
  BY <1>2, <1>3, BarrierAssumption DEF Refuse, InitLL, InitSC, InitCount, In
<1>5. CASE WaitMax(t)
  <2>1. at'[t] = at[t] /\ {pc[t], pc'[t]} \cap {"release", "poll"} = {} /\ count' = count
    BY <1>5 DEF WaitMax, In, Goto, TypeOK
  <2> QED
    BY <1>1, <2>1, ElsewhereUnmoved, UnmovedKeeps
<1>6. CASE WaitLL(t)
  <2>1. at'[t] = at[t] /\ {pc[t], pc'[t]} \cap {"release", "poll"} = {} /\ count' = count
    BY <1>6 DEF WaitLL, In, Goto, TypeOK
  <2> QED
    BY <1>1, <2>1, ElsewhereUnmoved, UnmovedKeeps
<1>7. CASE WaitSC(t) /\ Linked(t, <<"count", Idx(t)>>)
  <2>1. pc[t] = "wait_sc" /\ got[t] = count[i]
    BY <1>2, <1>7, InWait DEF WaitSC, In
  <2>2. at' = at /\ count'[i] = Decrement(count[i]) /\ pc'[t] = AfterDecrement(count[i])
    BY <1>2, <1>3, <1>7, <2>1 DEF WaitSC, Goto, TypeOK
  <2> QED
    BY <1>1, <2>1, <2>2, Arrives
<1>8. CASE WaitSC(t) /\ ~Linked(t, <<"count", Idx(t)>>)
  <2>1. at'[t] = at[t] /\ {pc[t], pc'[t]} \cap {"release", "poll"} = {} /\ count' = count
    BY <1>8 DEF WaitSC, In, Goto, TypeOK
  <2> QED
    BY <1>1, <2>1, ElsewhereUnmoved, UnmovedKeeps
<1>9. CASE Release(t)
  <2>1. pc[t] = "release" /\ maxcount[t] = Value
    BY <1>2, <1>9, InWait DEF Release, In
  <2>2. count'[i] = Value /\ at'[t] = at[t] + 1 /\ pc'[t] = "entry"
    BY <1>2, <1>3, <1>9, <2>1 DEF Release, Return, TypeOK
  <2> QED
    BY <1>1, <2>1, <2>2, Releases
<1>10. CASE Poll(t)
  <2>1. pc[t] = "poll" /\ maxcount[t] = Value /\ count' = count
    BY <1>2, <1>10, InWait DEF Poll, In
  <2>2. CASE count[i] = Value
    <3>1. at'[t] = at[t] + 1 /\ pc'[t] = "entry"
      BY <1>2, <1>10, <2>1, <2>2 DEF Poll, Return, TypeOK
    <3> QED
      BY <1>1, <2>1, <2>2, <3>1, Returns
  <2>3. CASE count[i] /= Value
    <3>1. at' = at /\ pc' = pc
      BY <1>2, <1>10, <2>1, <2>3 DEF Poll
    <3> QED
      BY <1>1, <2>1, <3>1, ElsewhereUnmoved, UnmovedKeeps
  <2> QED
    BY <2>2, <2>3
<1> QED
  BY <1>4, <1>5, <1>6, <1>7, <1>8, <1>9, <1>10 DEF Step

LEMMA NextIInv == IInv /\ [Next]_vars => IInv'
<1> SUFFICES ASSUME IInv, [Next]_vars PROVE IInv'
  OBVIOUS
<1>1. CASE UNCHANGED vars
  <2> USE <1>1 DEF vars, IInv
  <2>1. TypeOK'
    BY DEF TypeOK
  <2>2. Waiters'
    BY DEF Waiters, Waiter, Ended, Idx, Linked
  <2>3. ASSUME NEW i \in Ready PROVE Round(i)' /\ NoneLost(i)'
    BY UnmovedKeeps DEF Unmoved, Arrived, Releasing
  <2> QED
    BY <2>1, <2>2, <2>3
<1>2. ASSUME NEW t \in Task, Step(t) PROVE IInv'
  <2>1. TypeOK' /\ Waiters'
    BY <1>2, TypeKept, WaitersKept DEF IInv
  <2>2. ASSUME NEW i \in Ready PROVE Round(i)' /\ NoneLost(i)'
    BY <1>2, <2>1, WaitKept, ElsewhereKept DEF IInv
  <2> QED
    BY <2>1, <2>2 DEF IInv
<1> QED
  BY <1>1, <1>2 DEF Next, AllEnded

THEOREM AlwaysIInv == Spec => []IInv
<1>1. Spec => Init /\ [][Next]_vars
  BY PTL DEF Spec
<1> QED
  BY <1>1, InitIInv, NextIInv, PTL

(* The barriers' words stay unsigned ints, whatever the tasks call.        *)
THEOREM BarrierTypeAlwaysOK == Spec => []TypeOK
<1>1. IInv => TypeOK
  BY DEF IInv
<1> QED
  BY <1>1, AlwaysIInv, PTL

(* A wait returns only when all tasks have reached it (_barrier_wait), if  *)
(* the barriers waited on were initialised before the tasks were started.  *)
THEOREM NobodyEverEarly ==
  ASSUME \A k \in Waits : Calls[k].index \in Ready
  PROVE  Spec => []NobodyEarly
<1>1. ASSUME IInv PROVE NobodyEarly
  <2> SUFFICES ASSUME NEW k \in Waits, NEW t \in Task, NEW u \in Task, at[t] > k
               PROVE  Arrived(u, k)
    BY DEF NobodyEarly
  <2> DEFINE i == Calls[k].index
  <2>1. i \in Ready /\ k \in WaitsOn(i) /\ Round(i)
    BY <1>1 DEF WaitsOn, IInv
  <2>2. t \in ArrivedAt(k)
    BY DEF ArrivedAt, Arrived
  <2>3. at[t] \in Nat /\ k \in Nat
    BY <1>1, <2>1, WaitsNumbers DEF IInv, TypeOK
  <2>4. ~Open(k)
    BY <2>1, <2>3 DEF Round
  <2>5. ArrivedAt(k) = Task
    BY <2>2, <2>4 DEF Open
  <2> QED
    BY <2>5 DEF ArrivedAt
<1> QED
  BY <1>1, AlwaysIInv, PTL

(* No decrement of a barrier is lost between the ll and the sc of its      *)
(* waits (_barrier_wait), if all were initialised beforehand.              *)
THEOREM DecrementsNeverLost ==
  ASSUME Index \subseteq Ready
  PROVE  Spec => []NoLostDecrement
<1>1. IInv => NoLostDecrement
  BY DEF IInv, NoneLost, NoLostDecrement
<1> QED
  BY <1>1, AlwaysIInv, PTL
===============================================================================
