------------------------------ MODULE GcdService ------------------------------
(***************************************************************************)
(* What both GCD systems promise their masters, with no hint of how: a     *)
(* client asks for the gcd of two words, is given it, and forgets it.      *)
(* Clients are independent, and several may move in the same clock cycle.  *)
(***************************************************************************)
EXTENDS GcdArith

CONSTANT Client

VARIABLE job            \* the state of each client's current computation

Idle              == [st |-> "idle", a |-> 0, b |-> 0, g |-> 0]
Asked(a, b)       == [st |-> "asked", a |-> a, b |-> b, g |-> 0]
Answered(a, b, g) == [st |-> "answered", a |-> a, b |-> b, g |-> g]

Job == [st : {"idle", "asked", "answered"}, a : Word, b : Word, g : Word]

Init == job = [c \in Client |-> Idle]

(* A client asks for the gcd of any two words.                             *)
Ask(c) ==
  /\ job[c] = Idle
  /\ \E a, b \in Word : job'[c] = Asked(a, b)

(* It is answered with their gcd and nothing else.                         *)
Answer(c) ==
  /\ job[c].st = "asked"
  /\ \E g \in Word : /\ IsGcd(g, job[c].a, job[c].b)
                     /\ job'[c] = Answered(job[c].a, job[c].b, g)

(* The answer has been displayed.                                          *)
Forget(c) ==
  /\ job[c].st = "answered"
  /\ job'[c] = Idle

Next ==
  /\ job' \in [Client -> Job]
  /\ \A c \in Client : job'[c] = job[c] \/ Ask(c) \/ Answer(c) \/ Forget(c)

Spec == Init /\ [][Next]_job

(***************************************************************************)
(* The liveness half, kept apart because the hardware only honours it for  *)
(* operands on which Euclid's subtractions terminate: both null or none.   *)
(***************************************************************************)
Computable(c) == (job[c].a = 0) <=> (job[c].b = 0)

Responsive ==
  \A c \in Client : (job[c].st = "asked" /\ Computable(c)) ~> (job[c].st = "answered")
===============================================================================
