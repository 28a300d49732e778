---------------------------- MODULE SdramSystem ----------------------------
(***************************************************************************)
(* memory_controller's SDRAM path (src/modules/memory_controller.sv, lines *)
(* 135-273): NREQ requesters -> sdram_arbiter -> sdram_controller -> chip. *)
(* One step is one edge of the shared clock, taken by all of them at once. *)
(***************************************************************************)
EXTENDS SdramController, FiniteSets

CONSTANT NREQ

VARIABLES
  req, served, active, cur, rotate,             \* as in SdramArbiter
  acc                                           \* acc[i]: port i's address,
                                                \* lanes and data lines
(* SdramArbiter's history variable is not needed here.                     *)
Arb == INSTANCE SdramArbiter WITH turns <- [i \in 0 .. NREQ - 1 |-> 0]

vars == <<req, Arb!arbVars, ctlVars, acc>>

Ports == Arb!Ports
Lines == [row : Rows, col : Cols, be : (SUBSET Lanes) \ {{}}]

(* Values are only moved, never looked at: a port always writes the same   *)
(* word, one that no other port writes.                                    *)
atRest    == CHOOSE p \in Lines : TRUE
wordOf(i) == [l \in Lanes |-> i]

ASSUME SystemAssumptions == NREQ \in Nat \ {0} /\ 0 .. NREQ - 1 \subseteq Vals

(* mem_addr, mem_wdata, mem_be, mem_rd and mem_wr: the request lines of    *)
(* whichever port the arbiter has selected.                                *)
memRequest == [kind |-> Arb!presented, row |-> acc[Arb!sel].row,
               col |-> acc[Arb!sel].col, be |-> acc[Arb!sel].be,
               data |-> wordOf(Arb!sel)]

SysInit ==
  /\ Init
  /\ Arb!Init
  /\ acc = [i \in Ports |-> atRest]

(* A requester sets up its lines as it raises its request and keeps them   *)
(* until it lets go.  Lines nobody looks at -- all of them between         *)
(* requests, the lanes of a read -- are given one value.                   *)
rising == {i \in Ports : req[i] = "none" /\ req'[i] # "none"}

AccClock ==
  \E p \in [rising -> Lines] :
    acc' = [i \in Ports |->
              CASE req'[i] = "none" -> atRest
                [] i \in rising /\ req'[i] = "rd" -> [p[i] EXCEPT !.be = Lanes]
                [] i \in rising /\ req'[i] = "wr" -> p[i]
                [] OTHER -> acc[i]]

SysClock ==
  /\ Arb!ArbClock(ready)
  /\ Arb!PortClock(ready)
  /\ AccClock
  /\ CtlClock(memRequest)

SysSpec == SysInit /\ [][SysClock]_vars /\ WF_vars(SysClock)
-----------------------------------------------------------------------------
(* A read returns the word, a write lands, once each and at one instant.   *)
visible(i) == IF req[i] = "none" THEN [kind |-> "none"]
              ELSE [kind |-> req[i], addr |-> <<acc[i].row, acc[i].col>>,
                    be |-> acc[i].be, data |-> wordOf(i)]

Memory == INSTANCE SharedMemory WITH
  Addrs   <- Rows \X Cols,
  array   <- [a \in Rows \X Cols |-> arrayAfter(cmd)[a[1]][a[2]]],
  request <- [i \in Ports |-> visible(i)],
  done    <- [i \in Ports |-> req[i] # "none"
                              /\ (served[i] \/ Arb!req_ready(i, ready))],
  answer  <- IF ready
               THEN [kind |-> Arb!presented, port |-> Arb!sel,
                     data |-> IF Arb!presented = "rd" THEN rdata
                                                      ELSE wordOf(Arb!sel)]
               ELSE [kind |-> "none"]

ImplementsSharedMemory == Memory!Spec

(* Between refreshes the controller reaches every waiting port.            *)
EveryRequestAnswered ==
  \A i \in Ports : Arb!eligible(i) ~> ~Arb!eligible(i)
=============================================================================
