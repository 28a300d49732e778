---------------------------- MODULE SdramArbiter ----------------------------
(***************************************************************************)
(* src/modules/sdram_arbiter.sv: one SDRAM controller shared by NREQ       *)
(* requesters, with a combinational grant when idle, a registered one for  *)
(* the length of an access, rotating priority, and a `served' flag that    *)
(* makes a request good for one access only.                               *)
(*                                                                         *)
(* A step is one clock edge: the registers take their next values while    *)
(* the requesters, which obey the contract in the module's header, choose  *)
(* theirs.  The data path (addr, wdata, be) is left to SdramSystem; here   *)
(* an access is only its kind.                                             *)
(***************************************************************************)
EXTENDS Integers

CONSTANT NREQ          \* number of requester ports (parameter NREQ)

ASSUME NREQAssumption == NREQ \in Nat \ {0}

Ports == 0 .. NREQ - 1
Kinds == {"none", "rd", "wr"}

VARIABLES
  req,                 \* req[i]: the request lines req_rd[i], req_wr[i]
  served, active, cur, rotate,
  turns                \* history: accesses of others while port i waits

arbVars == <<served, active, cur, rotate>>
vars    == <<req, served, active, cur, rotate, turns>>
-----------------------------------------------------------------------------
(* The combinational part.                                                 *)

asking(i)   == req[i] # "none"
eligible(i) == asking(i) /\ ~served[i]

(* How far port i is from the head of the scan that starts at `rotate'.    *)
distFrom(head, i) == IF i >= head THEN i - head ELSE i + NREQ - head
scanPosFixed(i) == i
scanPos(i) == distFrom(rotate, i)

found  == \E i \in Ports : eligible(i)
winner == IF found
            THEN CHOOSE i \in Ports :
                   /\ eligible(i)
                   /\ \A j \in Ports : eligible(j) => scanPos(i) <= scanPos(j)
            ELSE 0

selUnregistered == winner
sel          == IF active THEN cur ELSE winner
sel_valid    == active \/ found
presented    == IF sel_valid /\ ~served[sel] THEN req[sel] ELSE "none"
req_ready(i, ready) == ready /\ sel_valid /\ i = sel
-----------------------------------------------------------------------------
(* The registers.                                                          *)

Init ==
  /\ req    = [i \in Ports |-> "none"]
  /\ served = [i \in Ports |-> FALSE]
  /\ active = FALSE
  /\ cur    = 0
  /\ rotate = 0
  /\ turns  = [i \in Ports |-> 0]

(* The port after i: whoever just went drops to the back of the queue.     *)
after(i) == IF i = NREQ - 1 THEN 0 ELSE i + 1

ArbClockForgetsServed(ready) ==
  /\ served' = [i \in Ports |-> served[i] /\ asking(i)]
  /\ active' = (sel_valid /\ ~ready)
  /\ cur'    = IF ~active /\ found THEN winner ELSE cur
  /\ rotate' = IF sel_valid /\ ready THEN after(sel) ELSE rotate

ArbClock(ready) ==
  /\ served' = [i \in Ports |-> req_ready(i, ready) \/ (served[i] /\ asking(i))]
  /\ active' = (sel_valid /\ ~ready)
  /\ cur'    = IF ~active /\ found THEN winner ELSE cur
  /\ rotate' = IF sel_valid /\ ready THEN after(sel) ELSE rotate

(* The requester's side of the contract: hold the request until its ready, *)
(* then drop it, for at least one clock, before asking again.              *)
portMay(i, ready) ==
  CASE ~asking(i)                             -> Kinds
    [] asking(i) /\ (served[i] \/ req_ready(i, ready)) -> {req[i], "none"}
    [] OTHER                                  -> {req[i]}

PortClock(ready) ==
  /\ req' \in [Ports -> Kinds]
  /\ \A i \in Ports : req'[i] \in portMay(i, ready)

TurnsClock(ready) ==
  turns' = [i \in Ports |->
              IF eligible(i) /\ ~req_ready(i, ready)
                THEN IF ready THEN turns[i] + 1 ELSE turns[i]
                ELSE 0]

(* The controller answers only an access it is shown: SdramSystem composes *)
(* the real one and checks that it does.                                   *)
Clock(ready) ==
  /\ ready => presented # "none"
  /\ ArbClock(ready)
  /\ PortClock(ready)
  /\ TurnsClock(ready)

Answer == Clock(TRUE)
Idle   == Clock(FALSE)

Next == Answer \/ Idle

Spec == Init /\ [][Next]_vars

(* An access shown to the controller is answered in the end: its states    *)
(* form no cycle that avoids `ready' (checked in SdramController).         *)
FairSpec == Spec /\ WF_vars(Answer)
-----------------------------------------------------------------------------
TypeOK ==
  /\ req    \in [Ports -> Kinds]
  /\ served \in [Ports -> BOOLEAN]
  /\ active \in BOOLEAN
  /\ cur    \in Ports
  /\ rotate \in Ports
  /\ turns  \in [Ports -> Nat]

(* The registered grant belongs to a port whose request is still           *)
(* outstanding, so `mem_rd' and `mem_wr' cannot fall while the controller  *)
(* is busy with them (the stall lines 119-140 would never leave).          *)
GrantStandsForARequest == active => eligible(cur)

(* The header's claim, line 16: "Nobody waits longer than one turn per     *)
(* other requester."                                                       *)
BoundedWait == \A i \in Ports : turns[i] <= NREQ - 1

(* The invariant behind BoundedWait: the accesses a waiting port has       *)
(* already let past, plus those still ahead of it in the scan (counting    *)
(* the one in progress), fit in one round.                                 *)
ahead(i) == IF active /\ cur # i THEN 1 + distFrom(after(cur), i)
                                 ELSE scanPos(i)

WaitBudget ==
  \A i \in Ports : IF eligible(i) THEN turns[i] + ahead(i) <= NREQ - 1
                                  ELSE turns[i] = 0

IInv == TypeOK /\ GrantStandsForARequest /\ WaitBudget

(* From grant to ready the controller is shown one and the same access,    *)
(* whatever the other ports do meanwhile (header: the winner is registered *)
(* "to hold the selection steady for the length of a transfer").           *)
HeldAccess ==
  [][Idle /\ presented # "none" => sel' = sel /\ presented' = presented]_vars

(* The arbiter implements PortService: one answer per request, bounded     *)
(* bypass.                                                                 *)
portPhase(i) == CASE ~asking(i)  -> "idle"
                  [] eligible(i) -> "waiting"
                  [] OTHER       -> "answered"

Service == INSTANCE PortService
             WITH phase  <- [i \in Ports |-> portPhase(i)],
                  bypass <- turns

ImplementsPortService == Service!Spec
=============================================================================
