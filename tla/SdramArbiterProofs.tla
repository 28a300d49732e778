------------------------- MODULE SdramArbiterProofs -------------------------
(***************************************************************************)
(* Proofs about SdramArbiter for every number of ports: the wait bound     *)
(* (one turn per other requester) and the refinement of PortService.       *)
(***************************************************************************)
EXTENDS SdramArbiter, TLAPS, WellFoundedInduction

(* The scan distance is a position in 0 .. NREQ - 1 and tells ports apart. *)
LEMMA DistFromBounds ==
  ASSUME NEW h \in Ports, NEW i \in Ports
  PROVE  distFrom(h, i) \in 0 .. NREQ - 1
BY NREQAssumption DEF distFrom, Ports

(* The port after a port is a port.                                        *)
LEMMA AfterIsPort ==
  ASSUME NEW i \in Ports
  PROVE  after(i) \in Ports
BY NREQAssumption DEF after, Ports

(* Seen from the port after c, every port but c itself is less than a full *)
(* round away.                                                             *)
LEMMA DistAfterOther ==
  ASSUME NEW c \in Ports, NEW i \in Ports, i # c
  PROVE  distFrom(after(c), i) \in 0 .. NREQ - 2
BY NREQAssumption DEF distFrom, after, Ports

(* Serving a port ahead of i in the scan brings i closer by at least the   *)
(* one turn it costs.                                                      *)
LEMMA DistAfterAhead ==
  ASSUME NEW h \in Ports, NEW w \in Ports, NEW i \in Ports, i # w,
         distFrom(h, w) <= distFrom(h, i)
  PROVE  1 + distFrom(after(w), i) <= distFrom(h, i)
BY NREQAssumption DEF distFrom, after, Ports

(* A nonempty set of ports has a member first in the scan: the minimum of  *)
(* their distances, which exists because < is well founded on Nat.         *)
LEMMA ScanHasFirst ==
  ASSUME NEW h \in Ports, NEW S \in SUBSET Ports, S # {}
  PROVE  \E i \in S : \A j \in S : distFrom(h, i) <= distFrom(h, j)
PROOF
<1> DEFINE D == {distFrom(h, i) : i \in S}
           Less == {ss \in Nat \X Nat : ss[1] < ss[2]}
<1>1. D # {} /\ D \subseteq Nat
  BY DistFromBounds, NREQAssumption
<1>2. IsWellFoundedOn(Less, Nat)
  BY NatLessThanWellFounded, Zenon DEF OpToRel
<1>3. PICK d \in D : \A e \in D : <<e, d>> \notin Less
  <2> HIDE DEF D, Less
  <2> QED BY <1>1, <1>2, WFMin, Zenon
<1>4. ASSUME NEW e \in D PROVE d <= e
  <2>1. d \in Nat /\ e \in Nat
    BY <1>1
  <2>2. <<e, d>> \notin Less
    BY <1>3
  <2>3. ~ (e < d)
    BY <2>1, <2>2, SMT
  <2> HIDE DEF D, Less
  <2> QED BY <2>1, <2>3
<1>5. PICK i \in S : d = distFrom(h, i)
  BY <1>3
<1> QED BY <1>4, <1>5
-----------------------------------------------------------------------------
(* The combinational selection.                                            *)

(* When some request is eligible, `winner' is one of them and the scan     *)
(* meets no other before it.                                               *)
LEMMA WinnerIsFirst ==
  ASSUME TypeOK, found
  PROVE  /\ winner \in Ports
         /\ eligible(winner)
         /\ \A j \in Ports : eligible(j) => scanPos(winner) <= scanPos(j)
PROOF
<1> DEFINE S == {i \in Ports : eligible(i)}
           P(i) == /\ eligible(i)
                   /\ \A j \in Ports : eligible(j) => scanPos(i) <= scanPos(j)
<1>1. rotate \in Ports /\ S # {} /\ S \in SUBSET Ports
  BY DEF found, TypeOK
<1>2. \E i \in S : \A j \in S : distFrom(rotate, i) <= distFrom(rotate, j)
  <2> HIDE DEF S
  <2> QED BY <1>1, ScanHasFirst
<1>3. \E i \in Ports : P(i)
  BY <1>2 DEF scanPos
<1>4. winner = CHOOSE i \in Ports : P(i)
  BY DEF winner
<1> QED
  <2> HIDE DEF P
  <2>1. winner \in Ports /\ P(winner)
    BY <1>3, <1>4
  <2> QED BY <2>1 DEF P

(* What an answer needs to be legal: something is presented only for a     *)
(* port whose request is outstanding.                                      *)
LEMMA PresentedIsEligible ==
  ASSUME TypeOK, GrantStandsForARequest
  PROVE  /\ sel \in Ports
         /\ presented # "none" => eligible(sel)
         /\ sel_valid => eligible(sel)
PROOF
<1>1. CASE active
  BY <1>1 DEF sel, sel_valid, presented, eligible, asking, TypeOK,
              GrantStandsForARequest
<1>2. CASE ~active /\ found
  BY <1>2, WinnerIsFirst DEF sel, sel_valid, presented, eligible, asking
<1>3. CASE ~active /\ ~found
  BY <1>3, NREQAssumption DEF sel, sel_valid, presented, winner, Ports
<1> QED BY <1>1, <1>2, <1>3
-----------------------------------------------------------------------------
(* Inductiveness, one lemma per conjunct of IInv.                          *)

LEMMA InitIInv == Init => IInv
PROOF
<1> SUFFICES ASSUME Init PROVE IInv
  OBVIOUS
<1>1. \A i \in Ports : ~eligible(i)
  BY DEF Init, eligible, asking
<1>2. 0 \in Ports
  BY NREQAssumption DEF Ports
<1>3. TypeOK
  BY <1>2 DEF Init, TypeOK, Kinds
<1>4. GrantStandsForARequest
  BY DEF Init, GrantStandsForARequest
<1>5. WaitBudget
  BY <1>1 DEF Init, WaitBudget
<1> QED BY <1>3, <1>4, <1>5 DEF IInv

LEMMA ClockTypeOK ==
  ASSUME IInv, NEW ready \in BOOLEAN, Clock(ready)
  PROVE  TypeOK'
PROOF
<1>1. TypeOK /\ sel \in Ports
  BY PresentedIsEligible DEF IInv
<1>2. found => winner \in Ports
  BY <1>1, WinnerIsFirst
<1>3. req' \in [Ports -> Kinds]
  BY DEF Clock, PortClock
<1>4. served' \in [Ports -> BOOLEAN]
  <2>1. \A i \in Ports : req_ready(i, ready) \/ (served[i] /\ asking(i)) \in BOOLEAN
    OBVIOUS
  <2> QED BY <2>1 DEF Clock, ArbClock
<1>5. active' \in BOOLEAN
  BY DEF Clock, ArbClock
<1>6. cur' \in Ports
  BY <1>1, <1>2 DEF Clock, ArbClock, TypeOK
<1>7. rotate' \in Ports
  BY <1>1, AfterIsPort DEF Clock, ArbClock, TypeOK
<1>8. turns' \in [Ports -> Nat]
  BY <1>1 DEF Clock, TurnsClock, TypeOK
<1> QED BY <1>3, <1>4, <1>5, <1>6, <1>7, <1>8 DEF TypeOK

(* How eligibility changes: a waiting port that is not answered keeps      *)
(* waiting, an answered one does not.                                      *)
LEMMA EligibleNext ==
  ASSUME IInv, NEW ready \in BOOLEAN, Clock(ready), NEW i \in Ports
  PROVE  /\ eligible(i) /\ ~req_ready(i, ready) => eligible(i)'
         /\ req_ready(i, ready) => eligible(i) /\ ~eligible(i)'
PROOF
<1>1. TypeOK /\ TypeOK'
  BY ClockTypeOK DEF IInv
<1>2. served'[i] = (req_ready(i, ready) \/ (served[i] /\ asking(i)))
  BY DEF Clock, ArbClock
<1>3. req'[i] \in portMay(i, ready)
  BY DEF Clock, PortClock
<1>4. req_ready(i, ready) => eligible(i)
  BY <1>1, PresentedIsEligible DEF req_ready, IInv
<1>5. eligible(i)' = (req'[i] # "none" /\ ~served'[i])
  BY DEF eligible, asking
<1>6. ASSUME eligible(i), ~req_ready(i, ready) PROVE req'[i] = req[i]
  BY <1>3, <1>6 DEF portMay, eligible, asking
<1>7. ASSUME eligible(i), ~req_ready(i, ready) PROVE eligible(i)'
  BY <1>7, <1>6, <1>2, <1>5 DEF eligible, asking
<1> QED BY <1>2, <1>4, <1>5, <1>7

LEMMA ClockGrant ==
  ASSUME IInv, NEW ready \in BOOLEAN, Clock(ready)
  PROVE  GrantStandsForARequest'
PROOF
<1> SUFFICES ASSUME active' PROVE eligible(cur)'
  BY DEF GrantStandsForARequest
<1>1. ~ready /\ sel_valid
  BY DEF Clock, ArbClock
<1>2. cur' = sel
  BY <1>1 DEF Clock, ArbClock, sel, sel_valid
<1>3. sel \in Ports /\ eligible(sel)
  BY <1>1, PresentedIsEligible DEF IInv
<1>4. ~req_ready(sel, ready)
  BY <1>1 DEF req_ready
<1>5. (req'[sel] # "none") /\ ~served'[sel]
  BY <1>3, <1>4, EligibleNext DEF eligible, asking
<1> QED BY <1>2, <1>5 DEF eligible, asking

(* The budget.  Three ways port i can be waiting after the edge: it was    *)
(* waiting and somebody else was answered, it was waiting and nobody was,  *)
(* or it has only just asked.                                              *)
LEMMA ClockBudget ==
  ASSUME IInv, NEW ready \in BOOLEAN, Clock(ready)
  PROVE  WaitBudget'
PROOF
<1> USE NREQAssumption
<1>1. /\ TypeOK /\ TypeOK' /\ WaitBudget /\ sel \in Ports
      /\ GrantStandsForARequest'
  BY ClockTypeOK, ClockGrant, PresentedIsEligible DEF IInv
<1> SUFFICES ASSUME NEW i \in Ports
             PROVE  IF eligible(i)' THEN turns'[i] + ahead(i)' <= NREQ - 1
                                    ELSE turns'[i] = 0
  BY DEF WaitBudget
<1>2. turns'[i] = IF eligible(i) /\ ~req_ready(i, ready)
                    THEN IF ready THEN turns[i] + 1 ELSE turns[i]
                    ELSE 0
  BY DEF Clock, TurnsClock
<1>3. ahead(i)' = IF active' /\ cur' # i THEN 1 + distFrom(after(cur'), i)
                                          ELSE distFrom(rotate', i)
  BY DEF ahead, scanPos, distFrom, after
<1>4. ready => sel_valid
  BY DEF Clock, presented
<1>5. rotate' = IF ready THEN after(sel) ELSE rotate
  BY <1>4 DEF Clock, ArbClock
<1>6. active' = (sel_valid /\ ~ready)
  BY DEF Clock, ArbClock
<1>7. sel_valid => cur' = IF active THEN cur ELSE sel
  BY DEF Clock, ArbClock, sel, sel_valid
<1>8. cur \in Ports /\ rotate \in Ports /\ turns[i] \in Nat
  BY <1>1 DEF TypeOK
<1>9. CASE ~eligible(i)' 
  <2>1. ~eligible(i) \/ req_ready(i, ready)
    BY <1>9, EligibleNext
  <2> QED BY <1>2, <1>9, <2>1
<1>10. CASE eligible(i)' /\ (~eligible(i) \/ req_ready(i, ready))
  <2>1. turns'[i] = 0
    BY <1>2, <1>10
  <2>2. CASE active' /\ cur' # i
    <3>1. cur' \in Ports
      BY <1>1 DEF TypeOK
    <3>2. distFrom(after(cur'), i) \in 0 .. NREQ - 2
      BY <2>2, <3>1, DistAfterOther
    <3> QED BY <1>3, <1>10, <2>1, <2>2, <3>2 DEF Ports
  <2>3. CASE ~(active' /\ cur' # i)
    <3>1. rotate' \in Ports
      BY <1>1 DEF TypeOK
    <3>2. distFrom(rotate', i) \in 0 .. NREQ - 1
      BY <3>1, DistFromBounds
    <3> QED BY <1>3, <1>10, <2>1, <2>3, <3>2
  <2> QED BY <2>2, <2>3
<1>11. CASE eligible(i)' /\ eligible(i) /\ ~req_ready(i, ready)
  <2>1. turns[i] + ahead(i) <= NREQ - 1
    BY <1>1, <1>11 DEF WaitBudget
  <2>2. sel_valid /\ sel # i /\ ~active => 1 + distFrom(after(sel), i) <= distFrom(rotate, i)
    <3> SUFFICES ASSUME sel_valid, sel # i, ~active
                 PROVE  1 + distFrom(after(sel), i) <= distFrom(rotate, i)
      OBVIOUS
    <3>1. found /\ sel = winner
      BY DEF sel, sel_valid
    <3>2. distFrom(rotate, sel) <= distFrom(rotate, i)
      BY <1>1, <1>11, <3>1, WinnerIsFirst DEF scanPos
    <3> QED BY <1>1, <1>8, <3>2, DistAfterAhead
  <2>3. ahead(i) = IF active /\ cur # i THEN 1 + distFrom(after(cur), i)
                                         ELSE distFrom(rotate, i)
    BY DEF ahead, scanPos
  <2>4. distFrom(rotate, i) \in Int /\ distFrom(after(sel), i) \in Int
    BY <1>1, <1>8, DistFromBounds, AfterIsPort
  <2>5. CASE ready
    <3>1. sel # i /\ turns'[i] = turns[i] + 1 /\ ~active'
      BY <1>2, <1>4, <1>6, <1>11, <2>5 DEF req_ready
    <3>2. ahead(i)' = distFrom(after(sel), i)
      BY <1>3, <1>5, <2>5, <3>1
    <3>3. 1 + distFrom(after(sel), i) <= ahead(i)
      BY <1>4, <2>2, <2>3, <2>4, <2>5, <3>1 DEF sel
    <3>4. ahead(i) \in Int
      BY <1>8, <2>3, <2>4 DEF sel
    <3> QED BY <1>8, <1>11, <2>1, <2>4, <3>1, <3>2, <3>3, <3>4
  <2>6. CASE ~ready
    <3>1. turns'[i] = turns[i] /\ rotate' = rotate
      BY <1>2, <1>5, <1>11, <2>6
    <3>2. active' <=> sel_valid
      BY <1>6, <2>6 DEF sel_valid
    <3>3. ahead(i)' <= ahead(i)
      <4>1. CASE active
        <5>1. cur' = cur /\ active' /\ sel = cur
          BY <1>7, <3>2, <4>1 DEF sel_valid, sel
        <5> QED BY <1>3, <2>3, <2>4, <3>1, <4>1, <5>1
      <4>2. CASE ~active
        BY <1>3, <1>7, <2>2, <2>3, <2>4, <3>1, <3>2, <4>2
      <4> QED BY <4>1, <4>2
    <3>4. ahead(i) \in Int /\ ahead(i)' \in Int
      <4>1. CASE active
        BY <1>3, <1>7, <2>3, <2>4, <3>1, <3>2, <4>1 DEF sel_valid, sel
      <4>2. CASE ~active
        BY <1>3, <1>7, <2>3, <2>4, <3>1, <3>2, <4>2
      <4> QED BY <4>1, <4>2
    <3> QED BY <1>8, <1>11, <2>1, <3>1, <3>3, <3>4
  <2> QED BY <2>5, <2>6
<1> QED BY <1>9, <1>10, <1>11

LEMMA NextIInv == IInv /\ [Next]_vars => IInv'
PROOF
<1> SUFFICES ASSUME IInv, [Next]_vars PROVE IInv'
  OBVIOUS
<1>1. ASSUME NEW ready \in BOOLEAN, Clock(ready) PROVE IInv'
  BY <1>1, ClockTypeOK, ClockGrant, ClockBudget DEF IInv
<1>2. CASE UNCHANGED vars
  BY <1>2 DEF vars, IInv, TypeOK, GrantStandsForARequest, WaitBudget, ahead,
              scanPos, distFrom, after, eligible, asking
<1> QED BY <1>1, <1>2 DEF Next, Answer, Idle

(* IInv is an invariant of the arbiter, whatever the number of ports.      *)
THEOREM ArbiterInvariant == Spec => []IInv
BY InitIInv, NextIInv, PTL DEF Spec

(* A request never sees more than one turn per other requester go by:      *)
(* sdram_arbiter.sv, header line 16.                                       *)
THEOREM ArbiterBoundedWait == Spec => []BoundedWait
PROOF
<1>1. IInv => BoundedWait
  <2> SUFFICES ASSUME IInv, NEW i \in Ports PROVE turns[i] <= NREQ - 1
    BY DEF BoundedWait
  <2>1. turns[i] \in Nat /\ rotate \in Ports /\ cur \in Ports
    BY DEF IInv, TypeOK
  <2>2. CASE eligible(i)
    <3>1. turns[i] + ahead(i) <= NREQ - 1
      BY <2>2 DEF IInv, WaitBudget
    <3>2. ahead(i) \in Nat
      <4>1. distFrom(after(cur), i) \in 0 .. NREQ - 1
        BY <2>1, AfterIsPort, DistFromBounds
      <4>2. distFrom(rotate, i) \in 0 .. NREQ - 1
        BY <2>1, DistFromBounds
      <4> QED BY <4>1, <4>2, NREQAssumption DEF ahead, scanPos
    <3> QED BY <2>1, <3>1, <3>2, NREQAssumption
  <2>3. CASE ~eligible(i)
    BY <2>3, NREQAssumption DEF IInv, WaitBudget
  <2> QED BY <2>2, <2>3
<1> QED BY <1>1, ArbiterInvariant, PTL

(* From grant to ready one and the same access is shown to the controller, *)
(* whatever the other ports raise or drop meanwhile: the stall of          *)
(* sdram_arbiter.sv, lines 119-140, never sees its request change.         *)
THEOREM ArbiterHeldAccess == Spec => HeldAccess
PROOF
<1>1. IInv /\ Idle /\ presented # "none" => sel' = sel /\ presented' = presented
  <2> SUFFICES ASSUME IInv, Clock(FALSE), presented # "none"
               PROVE  sel' = sel /\ presented' = presented
    BY DEF Idle
  <2>1. /\ sel \in Ports /\ eligible(sel) /\ sel_valid
        /\ presented = req[sel]
    BY PresentedIsEligible DEF IInv, presented
  <2>2. active' /\ cur' = sel
    BY <2>1 DEF Clock, ArbClock, sel, sel_valid
  <2>3. sel' = sel /\ sel_valid'
    BY <2>2 DEF sel, sel_valid
  <2>4. ~req_ready(sel, FALSE)
    BY DEF req_ready
  <2>5. req'[sel] # "none" /\ ~served'[sel]
    BY <2>1, <2>4, EligibleNext DEF eligible, asking
  <2>6. req'[sel] = req[sel]
    <3>1. req'[sel] \in portMay(sel, FALSE)
      BY <2>1 DEF Clock, PortClock
    <3> QED BY <2>1, <2>4, <3>1 DEF portMay, eligible, asking
  <2> QED BY <2>1, <2>3, <2>5, <2>6 DEF presented
<1> QED BY <1>1, ArbiterInvariant, PTL DEF Spec, HeldAccess
-----------------------------------------------------------------------------
(* Refinement of PortService.                                              *)

LEMMA InitImplements == Init => Service!Init
PROOF
<1> SUFFICES ASSUME Init PROVE Service!Init
  OBVIOUS
<1>1. \A i \in Ports : portPhase(i) = "idle"
  BY DEF Init, portPhase, eligible, asking
<1>2. Service!Ports = Ports
  BY DEF Service!Ports, Ports
<1> QED BY <1>1, <1>2 DEF Init, Service!Init

(* How the phase of a port changes in a clock that answers port `a'.       *)
LEMMA PhaseNext ==
  ASSUME IInv, NEW ready \in BOOLEAN, Clock(ready), NEW i \in Ports,
         NEW a, a = IF ready THEN sel ELSE -1
  PROVE  portPhase(i)' \in
           CASE portPhase(i) = "idle"     -> {"idle", "waiting"}
             [] portPhase(i) = "waiting"  ->
                  IF i = a THEN {"answered", "idle"} ELSE {"waiting"}
             [] portPhase(i) = "answered" -> {"answered", "idle"}
PROOF
<1>1. req_ready(i, ready) <=> i = a
  BY NREQAssumption DEF Ports, Clock, presented, req_ready, sel_valid
<1>2. /\ served'[i] = (req_ready(i, ready) \/ (served[i] /\ asking(i)))
      /\ req'[i] \in portMay(i, ready)
  BY DEF Clock, ArbClock, PortClock
<1>3. portPhase(i)' = CASE ~(req'[i] # "none")                 -> "idle"
                        [] req'[i] # "none" /\ ~served'[i]     -> "waiting"
                        [] OTHER                               -> "answered"
  BY DEF portPhase, eligible, asking
<1>4. CASE ~asking(i)
  <2>1. portPhase(i) = "idle" /\ ~req_ready(i, ready)
    BY <1>4, EligibleNext DEF portPhase, eligible
  <2>2. ~served'[i]
    BY <1>2, <1>4, <2>1
  <2> QED BY <1>3, <2>1, <2>2
<1>5. CASE eligible(i)
  <2>1. portPhase(i) = "waiting"
    BY <1>5 DEF portPhase, eligible
  <2>2. CASE i = a
    <3>1. served'[i]
      BY <1>1, <1>2, <2>2
    <3> QED BY <1>3, <2>1, <2>2, <3>1
  <2>3. CASE i # a
    <3>1. eligible(i)'
      BY <1>1, <1>5, <2>3, EligibleNext
    <3>2. portPhase(i)' = "waiting"
      BY <1>3, <3>1 DEF eligible, asking
    <3> QED BY <2>1, <2>3, <3>2
  <2> QED BY <2>2, <2>3
<1>6. CASE asking(i) /\ ~eligible(i)
  <2>1. portPhase(i) = "answered" /\ served[i]
    BY <1>6 DEF portPhase, eligible
  <2>2. served'[i]
    BY <1>2, <1>6, <2>1
  <2> QED BY <1>3, <2>1, <2>2
<1> QED BY <1>4, <1>5, <1>6 DEF eligible

LEMMA ClockImplements ==
  ASSUME IInv, BoundedWait', NEW ready \in BOOLEAN, Clock(ready)
  PROVE  Service!Next
PROOF
<1> DEFINE a == IF ready THEN sel ELSE -1
           phs == [i \in Ports |-> portPhase(i)]
<1>1. a \in Ports \cup {-1}
  BY PresentedIsEligible DEF IInv
<1>2. Service!Ports = Ports /\ Service!NoPort = -1
  BY DEF Service!Ports, Ports, Service!NoPort
<1>3. a # -1 => phs[a] = "waiting"
  BY <1>1, PresentedIsEligible, NREQAssumption
     DEF IInv, Clock, portPhase, eligible, Ports
<1>4. phs' = [i \in Ports |-> portPhase(i)']
  BY DEF Ports
<1>5. phs' \in [Ports -> {"idle", "waiting", "answered"}]
  BY <1>4 DEF portPhase
<1>6. ASSUME NEW i \in Ports PROVE phs'[i] \in Service!MayBecome(i, a)
  <2>1. phs[i] = portPhase(i) /\ phs'[i] = portPhase(i)'
    BY <1>4
  <2> HIDE DEF a, phs
  <2> QED BY <2>1, PhaseNext DEF Service!MayBecome, a, phs
<1>7. turns' = [i \in Ports |->
                  IF phs[i] = "waiting" /\ i # a
                    THEN IF a = -1 THEN turns[i] ELSE turns[i] + 1
                    ELSE 0]
  <2>1. ASSUME NEW i \in Ports
        PROVE  /\ phs[i] = "waiting" <=> eligible(i)
               /\ req_ready(i, ready) <=> i = a
               /\ ready <=> a # -1
    BY <1>1, PresentedIsEligible, NREQAssumption
       DEF IInv, portPhase, eligible, req_ready, Clock, presented, sel_valid, Ports
  <2>2. turns' = [i \in Ports |-> IF eligible(i) /\ ~req_ready(i, ready)
                                    THEN IF ready THEN turns[i] + 1 ELSE turns[i]
                                    ELSE 0]
    BY DEF Clock, TurnsClock
  <2> HIDE DEF a, phs
  <2> QED BY <2>1, <2>2
<1>8. \A i \in Ports : turns'[i] <= NREQ - 1
  BY DEF BoundedWait, Ports
<1>9. Service!Clock(a)
  <2> HIDE DEF a
  <2> QED BY <1>2, <1>3, <1>5, <1>6, <1>7, <1>8
          DEF Service!Clock, Service!Phases
<1> QED
  <2> HIDE DEF a
  <2> QED BY <1>1, <1>2, <1>9 DEF Service!Next

(* The arbiter refines the fair one-answer-per-request service, for every  *)
(* number of ports.                                                        *)
THEOREM ArbiterImplementsPortService == Spec => ImplementsPortService
PROOF
<1>1. Init => Service!Init
  BY InitImplements
<1>2. IInv /\ BoundedWait' /\ [Next]_vars => [Service!Next]_(Service!vars)
  <2> SUFFICES ASSUME IInv, BoundedWait', [Next]_vars
               PROVE  [Service!Next]_(Service!vars)
    OBVIOUS
  <2>1. ASSUME NEW ready \in BOOLEAN, Clock(ready) PROVE Service!Next
    BY <2>1, ClockImplements
  <2>2. CASE UNCHANGED vars
    BY <2>2 DEF vars, Service!vars, portPhase, eligible, asking
  <2> QED BY <2>1, <2>2 DEF Next, Answer, Idle
<1>3. Spec => []IInv /\ []BoundedWait
  BY ArbiterInvariant, ArbiterBoundedWait
<1> QED BY <1>1, <1>2, <1>3, PTL DEF Spec, ImplementsPortService, Service!Spec
=============================================================================
