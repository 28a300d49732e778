---------------------------- MODULE PortService ----------------------------
(***************************************************************************)
(* What sdram_arbiter promises to the requesters that share the SDRAM      *)
(* controller, without saying how: every request is answered exactly once, *)
(* and while a request waits at most NREQ - 1 answers go to other ports.   *)
(*                                                                         *)
(* One step is one clock.  In a clock at most one port is answered, and    *)
(* every port moves through idle -> waiting -> answered -> idle.           *)
(***************************************************************************)
EXTENDS Integers

CONSTANT NREQ          \* number of requester ports

Ports  == 0 .. NREQ - 1
NoPort == -1

VARIABLES
  phase,               \* phase[i]: what port i is doing
  bypass               \* bypass[i]: answers given to others while i waits

vars == <<phase, bypass>>

Phases == {"idle", "waiting", "answered"}

TypeOK ==
  /\ phase  \in [Ports -> Phases]
  /\ bypass \in [Ports -> 0 .. NREQ - 1]

Init ==
  /\ phase  = [i \in Ports |-> "idle"]
  /\ bypass = [i \in Ports |-> 0]

(* A port alone decides when to ask and when to let go; only an answer     *)
(* takes it out of "waiting".                                              *)
MayBecome(i, answeredPort) ==
  CASE phase[i] = "idle"     -> {"idle", "waiting"}
    [] phase[i] = "waiting"  -> IF i = answeredPort THEN {"answered", "idle"}
                                                    ELSE {"waiting"}
    [] phase[i] = "answered" -> {"answered", "idle"}

(* The clock in which port a (or nobody, a = NoPort) is answered.  The     *)
(* conjunct on bypass' is the fairness promise.                            *)
Clock(a) ==
  /\ a # NoPort => phase[a] = "waiting"
  /\ phase' \in [Ports -> Phases]
  /\ \A i \in Ports : phase'[i] \in MayBecome(i, a)
  /\ bypass' = [i \in Ports |->
                  IF phase[i] = "waiting" /\ i # a
                    THEN IF a = NoPort THEN bypass[i] ELSE bypass[i] + 1
                    ELSE 0]
  /\ \A i \in Ports : bypass'[i] <= NREQ - 1

Next == \E a \in Ports \cup {NoPort} : Clock(a)

Spec == Init /\ [][Next]_vars
=============================================================================
