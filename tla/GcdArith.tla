------------------------------- MODULE GcdArith -------------------------------
(***************************************************************************)
(* The words the two GCD systems compute on, and what a greatest common    *)
(* divisor is.  The hardware holds its operands in uint32_t registers; the *)
(* largest word is a parameter here, so that a small instance wraps as the *)
(* 32-bit one does.                                                        *)
(***************************************************************************)
EXTENDS Integers

CONSTANT MaxWord        \* the largest value of an operand register (2^32 - 1)

ASSUME MaxWordAssumption == MaxWord \in Nat

Word == 0 .. MaxWord

(* Mistaken subtractors: one that adds, one that does nothing.             *)
WordSubAdds(x, y)  == x + y
WordSubStuck(x, y) == x

(* Subtraction of two uint32_t registers: modulo MaxWord + 1.              *)
WordSub(x, y) == IF x >= y THEN x - y ELSE x - y + MaxWord + 1

Divides(d, n) == \E k \in 0 .. n : n = d * k

(***************************************************************************)
(* MaxWord + 1 divides no word but 0, so Divisor tells every two words     *)
(* with different divisors apart, 0 included.                              *)
(***************************************************************************)
Divisor == 1 .. MaxWord + 1

CommonDivisors(x, y) == { d \in Divisor : Divides(d, x) /\ Divides(d, y) }

(***************************************************************************)
(* The gcd of a and b is the word that has exactly their common divisors.  *)
(* This includes the zero cases: gcd(a, 0) = a, and gcd(0, 0) = 0.         *)
(***************************************************************************)
IsGcd(g, a, b) == CommonDivisors(g, g) = CommonDivisors(a, b)
===============================================================================
