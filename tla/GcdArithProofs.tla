---------------------------- MODULE GcdArithProofs ----------------------------
(***************************************************************************)
(* One subtraction of Euclid's algorithm keeps the common divisors.  This  *)
(* is the arithmetic both GCD systems rest on.                             *)
(***************************************************************************)
EXTENDS GcdArith, TLAPS

(* If d divides y, it divides x exactly when it divides x - y.             *)
LEMMA DividesDifference ==
  ASSUME NEW d \in Nat \ {0}, NEW x \in Nat, NEW y \in Nat, x >= y, Divides(d, y)
  PROVE  Divides(d, x) <=> Divides(d, x - y)
<1>1. PICK k \in 0 .. y : y = d * k
  BY DEF Divides
<1>2. ASSUME Divides(d, x) PROVE Divides(d, x - y)
  <2>1. PICK l \in 0 .. x : x = d * l
    BY <1>2 DEF Divides
  <2>2. x - y = d * (l - k)
    BY <1>1, <2>1
  <2>3. l - k >= 0
    <3>1. SUFFICES ASSUME l + 1 <= k PROVE FALSE
      BY <1>1, <2>1
    <3>2. d * (l + 1) <= d * k
      BY <1>1, <2>1, <3>1
    <3>3. QED
      BY <1>1, <2>1, <3>2
  <2>4. l - k <= x - y
    BY <1>1, <2>1, <2>2, <2>3
  <2>5. QED
    BY <1>1, <2>1, <2>2, <2>3, <2>4 DEF Divides
<1>3. ASSUME Divides(d, x - y) PROVE Divides(d, x)
  <2>1. PICK l \in 0 .. x - y : x - y = d * l
    BY <1>3 DEF Divides
  <2>2. x = d * (l + k)
    BY <1>1, <2>1
  <2>3. l + k \in 0 .. x
    BY <1>1, <2>1
  <2>4. QED
    BY <2>2, <2>3 DEF Divides
<1>4. QED
  BY <1>2, <1>3

LEMMA WordSubInWord ==
  ASSUME NEW x \in Word, NEW y \in Word
  PROVE  /\ WordSub(x, y) \in Word
         /\ x >= y => WordSub(x, y) = x - y
BY MaxWordAssumption DEF Word, WordSub

LEMMA CommonDivisorsSwap ==
  ASSUME NEW x, NEW y
  PROVE  CommonDivisors(x, y) = CommonDivisors(y, x)
BY DEF CommonDivisors

(* The subtraction that a comparison has found legal keeps the gcd.        *)
LEMMA SubtractionKeepsDivisors ==
  ASSUME NEW x \in Word, NEW y \in Word, x > y
  PROVE  CommonDivisors(WordSub(x, y), y) = CommonDivisors(x, y)
<1>1. WordSub(x, y) = x - y /\ x \in Nat /\ y \in Nat
  BY WordSubInWord, MaxWordAssumption DEF Word
<1>2. ASSUME NEW d \in Divisor
      PROVE  (Divides(d, x - y) /\ Divides(d, y)) <=> (Divides(d, x) /\ Divides(d, y))
  BY <1>1, DividesDifference, MaxWordAssumption DEF Divisor
<1>3. QED
  BY <1>1, <1>2 DEF CommonDivisors
===============================================================================
