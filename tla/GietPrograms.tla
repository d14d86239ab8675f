----------------------------- MODULE GietPrograms -----------------------------
(***************************************************************************)
(* The user programs of TP3 to TP5 and the functions of the user library   *)
(* they are made of (giet_2011/app/stdio.c): the system calls they make,   *)
(* one after the other, and what they do with the results.  The text they  *)
(* print is left out, but for the numbers.                                 *)
(*                                                                         *)
(* A program is at a label, where it makes a call; u is its local state.   *)
(***************************************************************************)
EXTENDS GietDevices

CONSTANTS WordSize,     \* the number of values of an unsigned int (2^32)
          LineSize      \* the size of the buffer of tty_getw_irq (32)

(* A word has at most 32 bits, so that an int has at most ten decimal      *)
(* digits (2^32, as 65536 * 65536, is beyond the integers of TLC).         *)
ASSUME LibraryAssumption ==
  WordSize \in Nat \ {0} /\ LineSize \in Nat \ {0} /\ WordSize \div 65536 <= 65536

LF  == 10
CR  == 13
DEL == 127

IsDigit(c) == 47 < c /\ c < 58

(* got: the characters received, by their terminal and number, and code    *)
(* the last one itself; line: the buffer of tty_getw_irq; heard: all the   *)
(* characters it was given; val: what it returned; shown: what tty_printf  *)
(* wrote of it.                                                            *)
NoCharacter == <<0, 0>>

ProgramStart ==
  [at |-> "start", got |-> <<>>, code |-> 0, line |-> <<>>, heard |-> <<>>, val |-> 0, shown |-> <<>>]

(* A command that starts the timer without its interrupt.                  *)
MainCallsNoIrq ==
  [start |-> [no |-> "TIMER_WRITE", reg |-> TIMER_PERIOD, val |-> 0],
   wait  |-> [no |-> "TTY_READ_IRQ"],
   off   |-> [no |-> "TIMER_WRITE", reg |-> TIMER_MODE, val |-> 0],
   on    |-> [no |-> "TIMER_WRITE", reg |-> TIMER_MODE, val |-> 1],
   quit  |-> [no |-> "TIMER_WRITE", reg |-> TIMER_MODE, val |-> 0],
   exit  |-> [no |-> "EXIT"]]

(* The system calls of a program, at each of its labels.                   *)
MainCalls ==
  [start |-> [no |-> "TIMER_WRITE", reg |-> TIMER_PERIOD, val |-> 0],
   wait  |-> [no |-> "TTY_READ_IRQ"],
   off   |-> [no |-> "TIMER_WRITE", reg |-> TIMER_MODE, val |-> 0],
   on    |-> [no |-> "TIMER_WRITE", reg |-> TIMER_MODE, val |-> 3],
   quit  |-> [no |-> "TIMER_WRITE", reg |-> TIMER_MODE, val |-> 0],
   exit  |-> [no |-> "EXIT"]]

(* main of TP4: a, d and q are commands, all else is ignored.              *)
MainNext(u, ret) ==
  CASE u.at = "start" \/ u.at = "on" \/ u.at = "off" -> "wait"
    [] u.at = "wait" /\ ret = 1 /\ u.code = 100 -> "off"
    [] u.at = "wait" /\ ret = 1 /\ u.code = 97  -> "on"
    [] u.at = "wait" /\ ret = 1 /\ u.code = 113 -> "quit"
    [] u.at = "quit" -> "exit"
    [] OTHER -> "wait"

(* main_tim differs from it in its texts and its period alone.             *)
TimNext(u, ret) == MainNext(u, ret)

GcdCalls ==
  [start  |-> [no |-> "GCD_WRITE", reg |-> GCD_OPA],
   opb    |-> [no |-> "GCD_WRITE", reg |-> GCD_OPB],
   go     |-> [no |-> "GCD_WRITE", reg |-> GCD_START],
   status |-> [no |-> "GCD_READ", reg |-> GCD_STATUS],
   result |-> [no |-> "GCD_READ", reg |-> GCD_OPA],
   wait   |-> [no |-> "TTY_READ"]]

(* main_gcd, and main of TP3: the loop on the status tests what the system *)
(* call returns, which is 0 as soon as the register exists.                *)
GcdNext(u, ret) ==
  CASE u.at = "start"  -> "opb"
    [] u.at = "opb"    -> "go"
    [] u.at = "go"     -> "status"
    [] u.at = "status" -> IF ret /= 0 THEN "status" ELSE "result"
    [] u.at = "result" -> "wait"
    [] u.at = "wait"   -> IF ret = 0 THEN "wait" ELSE "start"

-------------------------------------------------------------------------------
(* tty_getw_irq: a character is given to the line.                         *)
Edited(line, c) ==
  CASE IsDigit(c)               -> Append(line, c - 48)
    [] c = DEL /\ Len(line) > 0 -> SubSeq(line, 1, Len(line) - 1)
    [] OTHER                    -> line

(* A conversion that starts with the last digit.                           *)
ConvertedBackwards(line) ==
  LET dec[i \in 0 .. Len(line)] ==
        IF i = 0 THEN 0 ELSE (dec[i - 1] * 10 + line[Len(line) + 1 - i]) % WordSize
  IN  dec[Len(line)]

(* The conversion, and its test of overflow: the new value is below the    *)
(* old one.                                                                *)
Converted(line) ==
  LET dec[i \in 0 .. Len(line)] ==
        IF i = 0 THEN 0 ELSE (dec[i - 1] * 10 + line[i]) % WordSize
      overflow == \E i \in 1 .. Len(line) : dec[i] < dec[i - 1]
  IN  IF overflow THEN 0 ELSE dec[Len(line)]

(* tty_printf("%u"): the argument is held in a signed int.  The table of   *)
(* digits is read outside its bounds for a negative one.  The digits are   *)
(* written from the last one on, until no other is left or there are ten.  *)
OutOfTable == -1

Printed(val) ==
  LET rest[i \in 0 .. 10] == IF i = 0 THEN val ELSE rest[i - 1] \div 10
      lengths == {n \in 1 .. 10 : n = 10 \/ rest[n] = 0}
      len     == CHOOSE n \in lengths : \A m \in lengths : n <= m
  IN  IF val >= WordSize \div 2 THEN <<OutOfTable>>
      ELSE [i \in 1 .. len |-> rest[len - i] % 10]

(* A client of the library: it reads a number and prints it.  Neither has  *)
(* a caller in the repository.                                             *)
NumberCalls ==
  [start |-> [no |-> "TTY_READ_IRQ"], print |-> [no |-> "TTY_WRITE"], exit |-> [no |-> "EXIT"]]

NumberNext(u, ret) ==
  LET line == Edited(u.line, u.code)
      next == [u EXCEPT !.line = line, !.heard = Append(@, u.code)]
  IN  CASE u.at = "start" /\ ret = 1 ->
             IF Len(line) = LineSize THEN [next EXCEPT !.at = "print"]
             ELSE IF u.code \in {LF, CR} THEN [next EXCEPT !.val = Converted(line), !.at = "print"]
             ELSE next
        [] u.at = "print" -> [u EXCEPT !.shown = Printed(u.val), !.at = "exit"]
        [] OTHER -> u

(* main of soft_prime: a number is tested against the table of the primes  *)
(* (line), and printed if it is one; then a character is read, q to stop.  *)
PrimeTable == 1000

PrimeCalls ==
  [start |-> [no |-> "TTY_WRITE"], print |-> [no |-> "TTY_WRITE"],
   wait  |-> [no |-> "TTY_READ_IRQ"], exit |-> [no |-> "EXIT"]]

Tested(u, v) ==
  IF \E i \in 1 .. Len(u.line) : v % u.line[i] = 0
  THEN [u EXCEPT !.val = v, !.at = "wait"]
  ELSE [u EXCEPT !.val = v, !.line = Append(@, v), !.at = "print"]

PrimeNext(u, ret) ==
  CASE u.at = "start" -> Tested(u, 2)
    [] u.at = "print" -> [u EXCEPT !.at = IF Len(u.line) = PrimeTable THEN "exit" ELSE "wait"]
    [] u.at = "wait" /\ ret = 1 -> IF u.code = 113 THEN [u EXCEPT !.at = "exit"] ELSE Tested(u, u.val + 1)
    [] OTHER -> u

(* main of soft_hello reads characters one by one (tty_getc_irq).          *)
ReaderCalls == [start |-> [no |-> "TTY_READ_IRQ"]]

-------------------------------------------------------------------------------
Calls == [main |-> MainCalls, tim |-> MainCalls, gcd |-> GcdCalls, number |-> NumberCalls,
          prime |-> PrimeCalls, reader |-> ReaderCalls]

(* The program goes on after a call that returned ret.                     *)
Resumed(program, u, ret) ==
  CASE program = "main"   -> [u EXCEPT !.at = MainNext(u, ret)]
    [] program = "tim"    -> [u EXCEPT !.at = TimNext(u, ret)]
    [] program = "gcd"    -> [u EXCEPT !.at = GcdNext(u, ret)]
    [] program = "number" -> NumberNext(u, ret)
    [] program = "prime"  -> PrimeNext(u, ret)
    [] program = "reader" -> u
===============================================================================
