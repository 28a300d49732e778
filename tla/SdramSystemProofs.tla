------------------------- MODULE SdramSystemProofs -------------------------
(***************************************************************************)
(* Proofs about SdramSystem, for every number of ports and every geometry  *)
(* and timing of the chip that ControllerAssumptions and DeadlineAssumption *)
(* allow:                                                                  *)
(*                                                                         *)
(*   - the chip is sent legal commands only, and its refreshes in time     *)
(*     (IInv);                                                             *)
(*   - arbiter, controller and chip together are SharedMemory (RInv).      *)
(***************************************************************************)
EXTENDS SdramSystem, TLAPS, WellFoundedInduction

(* The arbiter selects a port, and one that is waiting if there is one.    *)
Selecting ==
  /\ req \in [Ports -> Arb!Kinds] /\ served \in [Ports -> BOOLEAN]
  /\ active \in BOOLEAN /\ cur \in Ports /\ rotate \in Ports
  /\ active => Arb!eligible(cur)

LEMMA DistFromNat ==
  ASSUME NEW h \in Ports, NEW i \in Ports
  PROVE  Arb!distFrom(h, i) \in Nat
BY SystemAssumptions DEF Arb!distFrom, Arb!Ports, Ports

LEMMA ScanHasFirst ==
  ASSUME NEW h \in Ports, NEW S \in SUBSET Ports, S # {}
  PROVE  \E i \in S : \A j \in S : Arb!distFrom(h, i) <= Arb!distFrom(h, j)
PROOF
<1> DEFINE D == {Arb!distFrom(h, i) : i \in S}
           Less == {ss \in Nat \X Nat : ss[1] < ss[2]}
<1>1. D # {} /\ D \subseteq Nat
  BY DistFromNat
<1>2. IsWellFoundedOn(Less, Nat)
  BY NatLessThanWellFounded, Zenon DEF OpToRel
<1>3. PICK d \in D : \A e \in D : <<e, d>> \notin Less
  <2> HIDE DEF D, Less
  <2> QED BY <1>1, <1>2, WFMin, Zenon
<1>4. ASSUME NEW e \in D PROVE d <= e
  <2>1. d \in Nat /\ e \in Nat
    BY <1>1
  <2>2. <<e, d>> \notin Less
    BY <1>3
  <2>3. ~ (e < d)
    BY <2>1, <2>2, SMT
  <2> HIDE DEF D, Less
  <2> QED BY <2>1, <2>3
<1>5. PICK i \in S : d = Arb!distFrom(h, i)
  BY <1>3
<1> QED BY <1>4, <1>5

LEMMA SelectedPort ==
  ASSUME Selecting
  PROVE  Arb!sel \in Ports /\ (Arb!sel_valid => Arb!eligible(Arb!sel))
PROOF
<1> DEFINE S == {i \in Ports : Arb!eligible(i)}
           P(i) == /\ Arb!eligible(i)
                   /\ \A j \in Ports : Arb!eligible(j) => Arb!scanPos(i) <= Arb!scanPos(j)
<1>1. ASSUME Arb!found PROVE Arb!winner \in Ports /\ Arb!eligible(Arb!winner)
  <2>1. rotate \in Ports /\ S # {} /\ S \in SUBSET Ports
    BY <1>1 DEF Arb!found, Selecting, Ports
  <2>2. \E i \in S : \A j \in S : Arb!distFrom(rotate, i) <= Arb!distFrom(rotate, j)
    <3> HIDE DEF S
    <3> QED BY <2>1, ScanHasFirst
  <2>3. \E i \in Ports : P(i)
    BY <2>2 DEF Arb!scanPos
  <2>4. Arb!winner = CHOOSE i \in Ports : P(i)
    BY <1>1 DEF Arb!winner, Ports
  <2> HIDE DEF P
  <2>5. Arb!winner \in Ports /\ P(Arb!winner)
    BY <2>3, <2>4
  <2> QED BY <2>5 DEF P
<1>2. ASSUME ~Arb!found PROVE Arb!winner \in Ports
  BY <1>2, SystemAssumptions DEF Arb!winner, Arb!Ports, Ports
<1> QED BY <1>1, <1>2 DEF Arb!sel, Arb!sel_valid, Selecting
-----------------------------------------------------------------------------
(* The controller.  `place' is where the state machine is, or where a delay*)
(* leads.                                                                  *)
PowerUp == {"S_INIT_PRE", "S_INIT_R1", "S_INIT_R2", "S_INIT_MRS"}
place   == IF state = "S_WAIT" THEN next_after_wait ELSE state
running == place \notin PowerUp

Registers ==
  /\ state \in PowerUp \cup {"S_WAIT", "S_IDLE", "S_ACTIVE", "S_RCD", "S_READ",
                             "S_READ_W", "S_WRITE", "S_RECOVER", "S_REFRESH"}
  /\ next_after_wait \in PowerUp \cup {"S_IDLE", "S_ACTIVE", "S_REFRESH"}
  /\ delay \in Nat
  /\ row_open \in BOOLEAN /\ open_row \in Rows

(* What the controller believes of the row is what the chip will have once *)
(* the registered command has reached it.                                  *)
RowTracked == rowAfter(cmd) = IF row_open THEN open_row ELSE NoRow

RowAsNeeded ==
  /\ state \in {"S_RCD", "S_READ", "S_WRITE"} => row_open
  /\ state \in PowerUp \cup {"S_WAIT", "S_ACTIVE", "S_REFRESH"} => ~row_open

ModeSet == running <=> chip.set \/ cmd.op = "MRS"

Disciplined == Registers /\ RowTracked /\ RowAsNeeded /\ ModeSet /\ ChipProtocol

LEMMA ClockKeepsDisciplined ==
  ASSUME Disciplined, NEW r, r.row \in Rows, CtlClock(r)
  PROVE  Disciplined'
PROOF
<1> USE ControllerAssumptions
<1>c. ASSUME ChipClock
      PROVE  /\ chip'.row = IF row_open THEN open_row ELSE NoRow
             /\ chip'.set = (chip.set \/ cmd.op = "MRS")
  <2>1. chip'.row = rowAfter(cmd) /\ chip'.set = (chip.set \/ cmd.op = "MRS")
    BY <1>c DEF ChipClock
  <2> QED BY <2>1 DEF Disciplined, RowTracked
<1>r. rowAfter(cmd)' = IF cmd'.op = "ACTIVE" THEN cmd'.row
                       ELSE IF cmd'.op = "PRECHARGE" THEN NoRow ELSE chip'.row
  BY Zenon DEF rowAfter
<1> USE DEF Disciplined, Registers, RowTracked, RowAsNeeded, ModeSet, ChipProtocol,
            running, place, PowerUp, Quiet, Nop, goto, waitThen, access, page
<1>1. CASE Wait
  <2>1. ChipClock
    BY <1>1 DEF Wait, Tick
  <2>2. CASE delay = 0
    <3>1. state = "S_WAIT"
          /\ state' = next_after_wait
          /\ cmd'.op = "NOP"
          /\ UNCHANGED <<delay, next_after_wait, row_open, open_row>>
      BY <1>1, <2>2 DEF Wait, Tick, Countdown
    <3>2. Registers'    BY <2>2, <3>1
    <3>3. RowTracked'   BY <1>c, <1>r, <2>1, <3>1
    <3>4. RowAsNeeded'  BY <2>2, <3>1
    <3>5. ModeSet'      BY <1>c, <2>1, <3>1
    <3>6. ChipProtocol' BY <1>c, <2>1, <2>2, <3>1
    <3> QED BY <3>2, <3>3, <3>4, <3>5, <3>6
  <2>3. CASE delay # 0
    <3>1. state = "S_WAIT"
          /\ delay' = delay - 1
          /\ cmd'.op = "NOP"
          /\ UNCHANGED <<state, next_after_wait, row_open, open_row>>
      BY <1>1, <2>3 DEF Wait, Tick, Countdown
    <3>2. Registers'    BY <2>3, <3>1
    <3>3. RowTracked'   BY <1>c, <1>r, <2>1, <3>1
    <3>4. RowAsNeeded'  BY <2>3, <3>1
    <3>5. ModeSet'      BY <1>c, <2>1, <3>1
    <3>6. ChipProtocol' BY <1>c, <2>1, <2>3, <3>1
    <3> QED BY <3>2, <3>3, <3>4, <3>5, <3>6
  <2> QED BY <2>2, <2>3
<1>2. CASE InitPre
  <2>1. ChipClock
    BY <1>2 DEF InitPre, Tick
  <2> QED BY <1>r, <1>2, <1>c, <2>1 DEF InitPre, Tick
<1>3. CASE InitMrs
  <2>1. ChipClock
    BY <1>3 DEF InitMrs, Tick
  <2> QED BY <1>r, <1>3, <1>c, <2>1 DEF InitMrs, Tick
<1>4. CASE InitRefresh("S_INIT_R1", "S_INIT_R2") \/ InitRefresh("S_INIT_R2", "S_INIT_MRS")
  <2>1. ChipClock
    BY <1>4 DEF InitRefresh, Tick
  <2> QED BY <1>r, <1>4, <1>c, <2>1 DEF InitRefresh, Tick
<1>5. CASE IdleRefresh
  <2>1. ChipClock
    BY <1>5 DEF IdleRefresh, Tick
  <2>2. CASE row_open
    <3>1. state = "S_IDLE" /\ state' = "S_WAIT"
          /\ delay' = 1 /\ next_after_wait' = "S_REFRESH"
          /\ cmd'.op = "PRECHARGE"
          /\ row_open' = FALSE /\ open_row' = open_row
      BY <1>5, <2>2 DEF IdleRefresh, Tick, CloseRowThen
    <3>2. Registers'    BY <2>2, <3>1
    <3>3. RowTracked'   BY <1>c, <1>r, <2>1, <3>1
    <3>4. RowAsNeeded'  BY <2>2, <3>1
    <3>5. ModeSet'      BY <1>c, <2>1, <3>1
    <3>6. ChipProtocol' BY <1>c, <2>1, <2>2, <3>1
    <3> QED BY <3>2, <3>3, <3>4, <3>5, <3>6
  <2>3. CASE ~row_open
    <3>1. state = "S_IDLE" /\ state' = "S_REFRESH"
          /\ cmd'.op = "NOP"
          /\ UNCHANGED <<delay, next_after_wait, row_open, open_row>>
      BY <1>5, <2>3 DEF IdleRefresh, Tick, CloseRowThen
    <3>2. Registers'    BY <2>3, <3>1
    <3>3. RowTracked'   BY <1>c, <1>r, <2>1, <3>1
    <3>4. RowAsNeeded'  BY <2>3, <3>1
    <3>5. ModeSet'      BY <1>c, <2>1, <3>1
    <3>6. ChipProtocol' BY <1>c, <2>1, <2>3, <3>1
    <3> QED BY <3>2, <3>3, <3>4, <3>5, <3>6
  <2> QED BY <2>2, <2>3
<1>6. CASE IdleAccept(r)
  <2>1. ChipClock
    BY <1>6 DEF IdleAccept, Tick
  <2>2. CASE page_hit(r)
    <3>1. row_open /\ r.row = open_row
          /\ state = "S_IDLE" /\ state' = (IF r.kind = "wr" THEN "S_WRITE" ELSE "S_READ")
          /\ cmd'.op = "NOP"
          /\ UNCHANGED <<delay, next_after_wait, row_open, open_row>>
      BY <1>6, <2>2 DEF IdleAccept, Tick, CloseRowThen, page_hit
    <3>2. Registers'    BY <2>2, <3>1
    <3>3. RowTracked'   BY <1>c, <1>r, <2>1, <3>1
    <3>4. RowAsNeeded'  BY <2>2, <3>1
    <3>5. ModeSet'      BY <1>c, <2>1, <3>1
    <3>6. ChipProtocol' BY <1>c, <2>1, <2>2, <3>1
    <3> QED BY <3>2, <3>3, <3>4, <3>5, <3>6
  <2>3. CASE row_open /\ ~page_hit(r)
    <3>0. state = "S_IDLE" /\ CloseRowThen("S_ACTIVE")
      BY <1>6, <2>3, Zenon DEF IdleAccept, Tick
    <3>1. state = "S_IDLE" /\ state' = "S_WAIT"
          /\ delay' = 1 /\ next_after_wait' = "S_ACTIVE"
          /\ cmd'.op = "PRECHARGE"
          /\ row_open' = FALSE /\ open_row' = open_row
      BY <3>0 DEF CloseRowThen
    <3>2. Registers'    BY <2>3, <3>1
    <3>3. RowTracked'   BY <1>c, <1>r, <2>1, <3>1
    <3>4. RowAsNeeded'  BY <2>3, <3>1
    <3>5. ModeSet'      BY <1>c, <2>1, <3>1
    <3>6. ChipProtocol' BY <1>c, <2>1, <2>3, <3>1
    <3> QED BY <3>2, <3>3, <3>4, <3>5, <3>6
  <2>4. CASE ~row_open
    <3>1. state = "S_IDLE" /\ state' = "S_ACTIVE"
          /\ cmd'.op = "NOP"
          /\ UNCHANGED <<delay, next_after_wait, row_open, open_row>>
      BY <1>6, <2>4 DEF IdleAccept, Tick, CloseRowThen, page_hit
    <3>2. Registers'    BY <2>4, <3>1
    <3>3. RowTracked'   BY <1>c, <1>r, <2>1, <3>1
    <3>4. RowAsNeeded'  BY <2>4, <3>1
    <3>5. ModeSet'      BY <1>c, <2>1, <3>1
    <3>6. ChipProtocol' BY <1>c, <2>1, <2>4, <3>1
    <3> QED BY <3>2, <3>3, <3>4, <3>5, <3>6
  <2> QED BY <2>2, <2>3, <2>4
<1>7. CASE IdleNone(r)
  <2>1. ChipClock
    BY <1>7 DEF IdleNone, Tick
  <2> QED BY <1>r, <1>7, <1>c, <2>1 DEF IdleNone, Tick
<1>8. CASE Activate(r)
  <2>1. ChipClock
    BY <1>8 DEF Activate, Tick
  <2> QED BY <1>r, <1>8, <1>c, <2>1 DEF Activate, Tick
<1>9. CASE Rcd
  <2>1. ChipClock
    BY <1>9 DEF Rcd, Tick
  <2>2. CASE delay = 0
    <3>1. state = "S_RCD"
          /\ state' = (IF is_write THEN "S_WRITE" ELSE "S_READ")
          /\ cmd'.op = "NOP"
          /\ UNCHANGED <<delay, next_after_wait, row_open, open_row>>
      BY <1>9, <2>2 DEF Rcd, Tick, Countdown
    <3>2. Registers'    BY <2>2, <3>1
    <3>3. RowTracked'   BY <1>c, <1>r, <2>1, <3>1
    <3>4. RowAsNeeded'  BY <2>2, <3>1
    <3>5. ModeSet'      BY <1>c, <2>1, <3>1
    <3>6. ChipProtocol' BY <1>c, <2>1, <2>2, <3>1
    <3> QED BY <3>2, <3>3, <3>4, <3>5, <3>6
  <2>3. CASE delay # 0
    <3>1. state = "S_RCD"
          /\ delay' = delay - 1
          /\ cmd'.op = "NOP"
          /\ UNCHANGED <<state, next_after_wait, row_open, open_row>>
      BY <1>9, <2>3 DEF Rcd, Tick, Countdown
    <3>2. Registers'    BY <2>3, <3>1
    <3>3. RowTracked'   BY <1>c, <1>r, <2>1, <3>1
    <3>4. RowAsNeeded'  BY <2>3, <3>1
    <3>5. ModeSet'      BY <1>c, <2>1, <3>1
    <3>6. ChipProtocol' BY <1>c, <2>1, <2>3, <3>1
    <3> QED BY <3>2, <3>3, <3>4, <3>5, <3>6
  <2> QED BY <2>2, <2>3
<1>10. CASE Read(r)
  <2>1. ChipClock
    BY <1>10 DEF Read, Tick
  <2> QED BY <1>r, <1>10, <1>c, <2>1 DEF Read, Tick
<1>11. CASE ReadWait
  <2>1. ChipClock
    BY <1>11 DEF ReadWait, Tick
  <2>2. CASE delay = 0
    <3>1. state = "S_READ_W" /\ state' = "S_RECOVER"
          /\ delay' = 0
          /\ cmd'.op = "NOP"
          /\ UNCHANGED <<next_after_wait, row_open, open_row>>
      BY <1>11, <2>2 DEF ReadWait, Tick
    <3>2. Registers'    BY <2>2, <3>1
    <3>3. RowTracked'   BY <1>c, <1>r, <2>1, <3>1
    <3>4. RowAsNeeded'  BY <2>2, <3>1
    <3>5. ModeSet'      BY <1>c, <2>1, <3>1
    <3>6. ChipProtocol' BY <1>c, <2>1, <2>2, <3>1
    <3> QED BY <3>2, <3>3, <3>4, <3>5, <3>6
  <2>3. CASE delay # 0
    <3>1. state = "S_READ_W"
          /\ delay' = delay - 1
          /\ cmd'.op = "NOP"
          /\ UNCHANGED <<state, next_after_wait, row_open, open_row>>
      BY <1>11, <2>3 DEF ReadWait, Tick
    <3>2. Registers'    BY <2>3, <3>1
    <3>3. RowTracked'   BY <1>c, <1>r, <2>1, <3>1
    <3>4. RowAsNeeded'  BY <2>3, <3>1
    <3>5. ModeSet'      BY <1>c, <2>1, <3>1
    <3>6. ChipProtocol' BY <1>c, <2>1, <2>3, <3>1
    <3> QED BY <3>2, <3>3, <3>4, <3>5, <3>6
  <2> QED BY <2>2, <2>3
<1>12. CASE Write(r)
  <2>1. ChipClock
    BY <1>12 DEF Write, Tick
  <2> QED BY <1>r, <1>12, <1>c, <2>1 DEF Write, Tick
<1>13. CASE Recover
  <2>1. ChipClock
    BY <1>13 DEF Recover, Tick
  <2>2. CASE delay = 0
    <3>1. state = "S_RECOVER"
          /\ state' = "S_IDLE"
          /\ cmd'.op = "NOP"
          /\ UNCHANGED <<delay, next_after_wait, row_open, open_row>>
      BY <1>13, <2>2 DEF Recover, Tick, Countdown
    <3>2. Registers'    BY <2>2, <3>1
    <3>3. RowTracked'   BY <1>c, <1>r, <2>1, <3>1
    <3>4. RowAsNeeded'  BY <2>2, <3>1
    <3>5. ModeSet'      BY <1>c, <2>1, <3>1
    <3>6. ChipProtocol' BY <1>c, <2>1, <2>2, <3>1
    <3> QED BY <3>2, <3>3, <3>4, <3>5, <3>6
  <2>3. CASE delay # 0
    <3>1. state = "S_RECOVER"
          /\ delay' = delay - 1
          /\ cmd'.op = "NOP"
          /\ UNCHANGED <<state, next_after_wait, row_open, open_row>>
      BY <1>13, <2>3 DEF Recover, Tick, Countdown
    <3>2. Registers'    BY <2>3, <3>1
    <3>3. RowTracked'   BY <1>c, <1>r, <2>1, <3>1
    <3>4. RowAsNeeded'  BY <2>3, <3>1
    <3>5. ModeSet'      BY <1>c, <2>1, <3>1
    <3>6. ChipProtocol' BY <1>c, <2>1, <2>3, <3>1
    <3> QED BY <3>2, <3>3, <3>4, <3>5, <3>6
  <2> QED BY <2>2, <2>3
<1>14. CASE Refresh
  <2>1. ChipClock
    BY <1>14 DEF Refresh
  <2> QED BY <1>r, <1>14, <1>c, <2>1 DEF Refresh
<1> QED
  BY <1>1, <1>2, <1>3, <1>4, <1>5, <1>6, <1>7, <1>8, <1>9, <1>10, <1>11, <1>12,
     <1>13, <1>14 DEF CtlClock
-----------------------------------------------------------------------------
(* The refresh deadline.  From each state so many clocks may pass at most  *)
(* until the chip has its refresh; the longest way starts with a request   *)
(* accepted in the last clock before a refresh falls due.                  *)
left(n) == sinceRefresh + n <= TREFI

WayToRefresh ==
  /\ state = "S_IDLE"     => left(4)
  /\ state = "S_ACTIVE"   => left(CAS_LATENCY + 10)
  /\ state = "S_RCD"      => left(delay + CAS_LATENCY + 8)
  /\ state = "S_READ"     => left(CAS_LATENCY + 7)
  /\ state = "S_READ_W"   => left(delay + 6)
  /\ state = "S_WRITE"    => left(6)
  /\ state = "S_RECOVER"  => left(delay + 5)
  /\ state = "S_REFRESH"  => left(1)
  /\ state = "S_INIT_MRS" => left(10)
  /\ state = "S_WAIT" =>
       /\ next_after_wait = "S_INIT_MRS" => left(delay + 11)
       /\ next_after_wait = "S_IDLE"     => left(delay + 5)
       /\ next_after_wait = "S_ACTIVE"   => left(delay + CAS_LATENCY + 11)
       /\ next_after_wait = "S_REFRESH"  => left(delay + 2)

(* From the second refresh of the power-up sequence on.                    *)
refreshed == running \/ place = "S_INIT_MRS"

(* The counter never lags behind the clocks it is to count, and a refresh  *)
(* under way is followed by its delay.                                     *)
InTime ==
  /\ refresh_cnt \in Nat /\ sinceRefresh \in Nat
  /\ cmd.op = "REFRESH" => /\ state = "S_WAIT" /\ delay <= 8
                           /\ next_after_wait \in {"S_INIT_R2", "S_INIT_MRS", "S_IDLE"}
  /\ running => sinceRefresh <= TREFI
  /\ refreshed /\ cmd.op # "REFRESH" =>
       (~refresh_due => sinceRefresh < refresh_cnt) /\ WayToRefresh

LEMMA ClockCounts ==
  ASSUME InTime, NEW s, Tick(s)
  PROVE  /\ refresh_cnt' \in Nat /\ sinceRefresh' \in Nat
         /\ cmd.op = "REFRESH" =>
              sinceRefresh' = 0 /\ (~refresh_due' => sinceRefresh' < refresh_cnt')
         /\ cmd.op # "REFRESH" /\ sinceRefresh <= TREFI =>
              sinceRefresh' = sinceRefresh + 1
         /\ refreshed /\ cmd.op # "REFRESH" /\ sinceRefresh <= TREFI =>
              (~refresh_due' => sinceRefresh' < refresh_cnt')
PROOF
<1> USE ControllerAssumptions
<1>1. /\ refresh_cnt \in Nat /\ sinceRefresh \in Nat
      /\ refreshed /\ cmd.op # "REFRESH" => (~refresh_due => sinceRefresh < refresh_cnt)
  BY DEF InTime
<1>2. sinceRefresh' = IF cmd.op = "REFRESH" THEN 0
                      ELSE IF sinceRefresh > TREFI THEN sinceRefresh ELSE sinceRefresh + 1
  BY DEF Tick, ChipClock
<1>3. refresh_cnt' = IF refresh_due THEN refresh_cnt ELSE refresh_cnt + 1
  BY DEF Tick
<1>4. refresh_due' <=> refresh_cnt' >= REFRESH_CYCLES
  BY DEF refresh_due
<1> HIDE DEF refreshed
<1> QED BY <1>1, <1>2, <1>3, <1>4 DEF refresh_due

LEMMA ClockKeepsInTime ==
  ASSUME Registers, InTime, NEW r, CtlClock(r)
  PROVE  InTime'
PROOF
<1> USE ControllerAssumptions, DeadlineAssumption
<1>0. /\ delay \in Nat
      /\ next_after_wait \in PowerUp \cup {"S_IDLE", "S_ACTIVE", "S_REFRESH"}
      /\ refreshed /\ cmd.op # "REFRESH" => WayToRefresh
      /\ ~refresh_due /\ refreshed /\ cmd.op # "REFRESH" =>
           sinceRefresh < refresh_cnt /\ sinceRefresh <= REFRESH_CYCLES - 2
  BY DEF Registers, InTime, refresh_due
<1>1. CASE Wait
  <2>1. CASE delay = 0
    <3>1. Tick("S_WAIT")
      BY <1>1 DEF Wait
    <3>2. /\ state = "S_WAIT"
          /\ state' = next_after_wait
          /\ cmd'.op = "NOP"
          /\ UNCHANGED <<delay, next_after_wait>>
      BY <1>1, <2>1 DEF Wait, Tick, Quiet, Nop, Countdown, goto
    <3> QED
      BY <1>0, <3>1, <3>2, <2>1, ClockCounts
         DEF InTime, WayToRefresh, left, refreshed, running, place, PowerUp
  <2>2. CASE delay # 0
    <3>1. Tick("S_WAIT")
      BY <1>1 DEF Wait
    <3>2. /\ state = "S_WAIT"
          /\ delay' = delay - 1
          /\ cmd'.op = "NOP"
          /\ UNCHANGED <<state, next_after_wait>>
      BY <1>1, <2>2 DEF Wait, Tick, Quiet, Nop, Countdown, goto
    <3> QED
      BY <1>0, <3>1, <3>2, <2>2, ClockCounts
         DEF InTime, WayToRefresh, left, refreshed, running, place, PowerUp
  <2> QED BY <2>1, <2>2
<1>2. CASE InitPre
  <2>1. Tick("S_INIT_PRE")
    BY <1>2 DEF InitPre
  <2>2. /\ state = "S_INIT_PRE"
        /\ state' = "S_WAIT"
        /\ delay' = 4 /\ next_after_wait' = "S_INIT_R1"
        /\ cmd'.op = "PRECHARGE"
    BY <1>2 DEF InitPre, Tick, waitThen
  <2> QED
    BY <1>0, <2>1, <2>2, ClockCounts
       DEF InTime, WayToRefresh, left, refreshed, running, place, PowerUp
<1>3. CASE InitMrs
  <2>1. Tick("S_INIT_MRS")
    BY <1>3 DEF InitMrs
  <2>2. /\ state = "S_INIT_MRS"
        /\ state' = "S_WAIT"
        /\ delay' = 4 /\ next_after_wait' = "S_IDLE"
        /\ cmd'.op = "MRS"
    BY <1>3 DEF InitMrs, Tick, waitThen
  <2> QED
    BY <1>0, <2>1, <2>2, ClockCounts
       DEF InTime, WayToRefresh, left, refreshed, running, place, PowerUp
<1>4. CASE InitRefresh("S_INIT_R1", "S_INIT_R2")
  <2>1. Tick("S_INIT_R1")
    BY <1>4 DEF InitRefresh
  <2>2. /\ state = "S_INIT_R1"
        /\ state' = "S_WAIT"
        /\ delay' = 8 /\ next_after_wait' = "S_INIT_R2"
        /\ cmd'.op = "REFRESH"
    BY <1>4 DEF InitRefresh, Tick, waitThen
  <2> QED
    BY <1>0, <2>1, <2>2, ClockCounts
       DEF InTime, WayToRefresh, left, refreshed, running, place, PowerUp
<1>5. CASE InitRefresh("S_INIT_R2", "S_INIT_MRS")
  <2>1. Tick("S_INIT_R2")
    BY <1>5 DEF InitRefresh
  <2>2. /\ state = "S_INIT_R2"
        /\ state' = "S_WAIT"
        /\ delay' = 8 /\ next_after_wait' = "S_INIT_MRS"
        /\ cmd'.op = "REFRESH"
    BY <1>5 DEF InitRefresh, Tick, waitThen
  <2> QED
    BY <1>0, <2>1, <2>2, ClockCounts
       DEF InTime, WayToRefresh, left, refreshed, running, place, PowerUp
<1>6. CASE IdleRefresh
  <2>1. CASE row_open
    <3>1. Tick("S_IDLE")
      BY <1>6 DEF IdleRefresh
    <3>2. /\ state = "S_IDLE"
          /\ state' = "S_WAIT"
          /\ delay' = 1 /\ next_after_wait' = "S_REFRESH"
          /\ cmd'.op = "PRECHARGE"
      BY <1>6, <2>1 DEF IdleRefresh, Tick, CloseRowThen, Quiet, Nop, goto, waitThen
    <3> QED
      BY <1>0, <3>1, <3>2, <2>1, ClockCounts
         DEF InTime, WayToRefresh, left, refreshed, running, place, PowerUp
  <2>2. CASE ~row_open
    <3>1. Tick("S_IDLE")
      BY <1>6 DEF IdleRefresh
    <3>2. /\ state = "S_IDLE"
          /\ state' = "S_REFRESH"
          /\ cmd'.op = "NOP"
          /\ UNCHANGED <<delay, next_after_wait>>
      BY <1>6, <2>2 DEF IdleRefresh, Tick, CloseRowThen, Quiet, Nop, goto, waitThen
    <3> QED
      BY <1>0, <3>1, <3>2, <2>2, ClockCounts
         DEF InTime, WayToRefresh, left, refreshed, running, place, PowerUp
  <2> QED BY <2>1, <2>2
<1>7. CASE IdleNone(r)
  <2>1. Tick("S_IDLE")
    BY <1>7 DEF IdleNone
  <2>2. /\ state = "S_IDLE"
        /\ state' = "S_IDLE"
        /\ cmd'.op = "NOP"
        /\ UNCHANGED <<delay, next_after_wait>>
        /\ ~refresh_due
    BY <1>7 DEF IdleNone, Tick, Quiet, Nop, goto
  <2> QED
    BY <1>0, <2>1, <2>2, ClockCounts
       DEF InTime, WayToRefresh, left, refreshed, running, place, PowerUp
<1>8. CASE Activate(r)
  <2>1. Tick("S_ACTIVE")
    BY <1>8 DEF Activate
  <2>2. /\ state = "S_ACTIVE"
        /\ state' = "S_RCD"
        /\ delay' = 1
        /\ next_after_wait' = next_after_wait
        /\ cmd'.op = "ACTIVE"
    BY <1>8 DEF Activate, Tick, Nop
  <2> QED
    BY <1>0, <2>1, <2>2, ClockCounts
       DEF InTime, WayToRefresh, left, refreshed, running, place, PowerUp
<1>9. CASE Rcd
  <2>1. CASE delay = 0
    <3>1. Tick("S_RCD")
      BY <1>9 DEF Rcd
    <3>2. /\ state = "S_RCD"
          /\ state' = (IF is_write THEN "S_WRITE" ELSE "S_READ")
          /\ cmd'.op = "NOP"
          /\ UNCHANGED <<delay, next_after_wait>>
      BY <1>9, <2>1 DEF Rcd, Tick, Quiet, Nop, Countdown, goto
    <3> QED
      BY <1>0, <3>1, <3>2, <2>1, ClockCounts
         DEF InTime, WayToRefresh, left, refreshed, running, place, PowerUp
  <2>2. CASE delay # 0
    <3>1. Tick("S_RCD")
      BY <1>9 DEF Rcd
    <3>2. /\ state = "S_RCD"
          /\ delay' = delay - 1
          /\ cmd'.op = "NOP"
          /\ UNCHANGED <<state, next_after_wait>>
      BY <1>9, <2>2 DEF Rcd, Tick, Quiet, Nop, Countdown, goto
    <3> QED
      BY <1>0, <3>1, <3>2, <2>2, ClockCounts
         DEF InTime, WayToRefresh, left, refreshed, running, place, PowerUp
  <2> QED BY <2>1, <2>2
<1>10. CASE Read(r)
  <2>1. Tick("S_READ")
    BY <1>10 DEF Read
  <2>2. /\ state = "S_READ"
        /\ state' = "S_READ_W"
        /\ delay' = CAS_LATENCY
        /\ next_after_wait' = next_after_wait
        /\ cmd'.op = "READ"
    BY <1>10 DEF Read, Tick, Nop
  <2> QED
    BY <1>0, <2>1, <2>2, ClockCounts
       DEF InTime, WayToRefresh, left, refreshed, running, place, PowerUp
<1>11. CASE ReadWait
  <2>1. CASE delay = 0
    <3>1. Tick("S_READ_W")
      BY <1>11 DEF ReadWait
    <3>2. /\ state = "S_READ_W"
          /\ state' = "S_RECOVER"
          /\ delay' = 0
          /\ cmd'.op = "NOP"
          /\ next_after_wait' = next_after_wait
      BY <1>11, <2>1 DEF ReadWait, Tick, Nop
    <3> QED
      BY <1>0, <3>1, <3>2, <2>1, ClockCounts
         DEF InTime, WayToRefresh, left, refreshed, running, place, PowerUp
  <2>2. CASE delay # 0
    <3>1. Tick("S_READ_W")
      BY <1>11 DEF ReadWait
    <3>2. /\ state = "S_READ_W"
          /\ delay' = delay - 1
          /\ cmd'.op = "NOP"
          /\ UNCHANGED <<state, next_after_wait>>
      BY <1>11, <2>2 DEF ReadWait, Tick, Nop
    <3> QED
      BY <1>0, <3>1, <3>2, <2>2, ClockCounts
         DEF InTime, WayToRefresh, left, refreshed, running, place, PowerUp
  <2> QED BY <2>1, <2>2
<1>12. CASE Write(r)
  <2>1. Tick("S_WRITE")
    BY <1>12 DEF Write
  <2>2. /\ state = "S_WRITE"
        /\ state' = "S_RECOVER"
        /\ delay' = 0
        /\ next_after_wait' = next_after_wait
        /\ cmd'.op = "WRITE"
    BY <1>12 DEF Write, Tick, Nop
  <2> QED
    BY <1>0, <2>1, <2>2, ClockCounts
       DEF InTime, WayToRefresh, left, refreshed, running, place, PowerUp
<1>13. CASE Recover
  <2>1. CASE delay = 0
    <3>1. Tick("S_RECOVER")
      BY <1>13 DEF Recover
    <3>2. /\ state = "S_RECOVER"
          /\ state' = "S_IDLE"
          /\ cmd'.op = "NOP"
          /\ UNCHANGED <<delay, next_after_wait>>
      BY <1>13, <2>1 DEF Recover, Tick, Quiet, Nop, Countdown, goto
    <3> QED
      BY <1>0, <3>1, <3>2, <2>1, ClockCounts
         DEF InTime, WayToRefresh, left, refreshed, running, place, PowerUp
  <2>2. CASE delay # 0
    <3>1. Tick("S_RECOVER")
      BY <1>13 DEF Recover
    <3>2. /\ state = "S_RECOVER"
          /\ delay' = delay - 1
          /\ cmd'.op = "NOP"
          /\ UNCHANGED <<state, next_after_wait>>
      BY <1>13, <2>2 DEF Recover, Tick, Quiet, Nop, Countdown, goto
    <3> QED
      BY <1>0, <3>1, <3>2, <2>2, ClockCounts
         DEF InTime, WayToRefresh, left, refreshed, running, place, PowerUp
  <2> QED BY <2>1, <2>2
<1>14. CASE Refresh
  <2>1. /\ state = "S_REFRESH" /\ state' = "S_WAIT"
        /\ delay' = 8 /\ next_after_wait' = "S_IDLE"
        /\ cmd'.op = "REFRESH" /\ refresh_cnt' = 0
    BY <1>14 DEF Refresh, waitThen
  <2>2. sinceRefresh' = IF cmd.op = "REFRESH" THEN 0
                        ELSE IF sinceRefresh > TREFI THEN sinceRefresh ELSE sinceRefresh + 1
    BY <1>14 DEF Refresh, ChipClock
  <2> QED
    BY <1>0, <2>1, <2>2 DEF InTime, WayToRefresh, left, refreshed, running, place, PowerUp
<1>15. CASE IdleAccept(r)
  <2>1. Tick("S_IDLE") /\ state = "S_IDLE" /\ ~refresh_due
    BY <1>15 DEF IdleAccept, Tick
  <2>2. \/ /\ state' = "S_WAIT" /\ delay' = 1 /\ next_after_wait' = "S_ACTIVE"
           /\ cmd'.op = "PRECHARGE"
        \/ /\ state' \in {"S_READ", "S_WRITE", "S_ACTIVE"} /\ cmd'.op = "NOP"
           /\ UNCHANGED <<delay, next_after_wait>>
    <3>1. \/ Quiet /\ goto(IF r.kind = "wr" THEN "S_WRITE" ELSE "S_READ")
          \/ CloseRowThen("S_ACTIVE")
          \/ Quiet /\ goto("S_ACTIVE")
      BY <1>15, Zenon DEF IdleAccept
    <3> QED BY <3>1 DEF Quiet, Nop, goto, CloseRowThen, waitThen
  <2> QED
    BY <1>0, <2>1, <2>2, ClockCounts
       DEF InTime, WayToRefresh, left, refreshed, running, place, PowerUp
<1> QED
  BY <1>1, <1>2, <1>3, <1>4, <1>5, <1>6, <1>7, <1>8, <1>9, <1>10, <1>11, <1>12, <1>13, <1>14, <1>15
     DEF CtlClock
-----------------------------------------------------------------------------
(* The ports and the arbiter: the controller is always shown the lines of  *)
(* some port.                                                              *)
Access    == [row : Rows, col : Cols, be : SUBSET Lanes]
LinesDriven == acc \in [Ports -> Access]

LEMMA ArbiterKeepsSelecting ==
  ASSUME Selecting, Arb!ArbClock(ready), Arb!PortClock(ready)
  PROVE  Selecting'
PROOF
<1>1. Arb!sel \in Ports /\ (Arb!sel_valid => Arb!eligible(Arb!sel))
  BY SelectedPort
<1>2. req' \in [Ports -> Arb!Kinds]
  BY DEF Arb!PortClock, Ports
<1>3. served' \in [Ports -> BOOLEAN]
  BY DEF Arb!ArbClock, Ports
<1>4. active' \in BOOLEAN /\ cur' \in Ports /\ rotate' \in Ports
  <2>1. active' \in BOOLEAN
    BY DEF Arb!ArbClock
  <2>2. cur' \in Ports
    <3>1. ~active /\ Arb!found => Arb!winner = Arb!sel
      BY DEF Arb!sel
    <3> QED BY <1>1, <3>1 DEF Arb!ArbClock, Selecting
  <2>3. rotate' \in Ports
    <3>1. Arb!after(Arb!sel) \in Ports
      BY <1>1, SystemAssumptions DEF Arb!after, Arb!Ports, Ports
    <3> QED BY <3>1 DEF Arb!ArbClock, Selecting
  <2> QED BY <2>1, <2>2, <2>3
<1>5. ASSUME active' PROVE Arb!eligible(cur)'
  <2>1. Arb!sel_valid /\ ~ready
    BY <1>5 DEF Arb!ArbClock
  <2>2. cur' = Arb!sel
    BY <2>1 DEF Arb!ArbClock, Arb!sel, Arb!sel_valid
  <2>3. Arb!sel \in Ports /\ req[Arb!sel] # "none" /\ ~served[Arb!sel]
    BY <1>1, <2>1 DEF Arb!eligible, Arb!asking
  <2>4. ~served'[Arb!sel]
    BY <2>1, <2>3 DEF Arb!ArbClock, Arb!req_ready, Ports
  <2>5. req'[Arb!sel] \in Arb!portMay(Arb!sel, ready)
    BY <2>3 DEF Arb!PortClock, Ports
  <2>6. Arb!portMay(Arb!sel, ready) = {req[Arb!sel]}
    BY <2>1, <2>3, Zenon DEF Arb!portMay, Arb!asking, Arb!req_ready
  <2> QED BY <2>2, <2>3, <2>4, <2>5, <2>6 DEF Arb!eligible, Arb!asking
<1> QED BY <1>2, <1>3, <1>4, <1>5 DEF Selecting

LEMMA AtRestIsAccess == atRest \in Access /\ atRest \in Lines
PROOF
<1>1. \E p \in Lines : TRUE
  <2>0. PICK a \in Rows : TRUE
    BY ControllerAssumptions
  <2>1. PICK b \in Cols : TRUE
    BY ControllerAssumptions
  <2>2. Lanes \in (SUBSET Lanes) \ {{}}
    BY ControllerAssumptions
  <2>3. [row |-> a, col |-> b, be |-> Lanes] \in Lines
    BY <2>0, <2>1, <2>2 DEF Lines
  <2> QED BY <2>3
<1>2. atRest \in Lines
  BY <1>1 DEF atRest
<1>3. Lines \subseteq Access
  BY DEF Lines, Access
<1> QED BY <1>2, <1>3

LEMMA PortsKeepLinesDriven ==
  ASSUME LinesDriven, Arb!PortClock(ready), AccClock
  PROVE  LinesDriven'
PROOF
<1>1. PICK p \in [rising -> Lines] :
        acc' = [i \in Ports |->
                  CASE req'[i] = "none" -> atRest
                    [] i \in rising /\ req'[i] = "rd" -> [p[i] EXCEPT !.be = Lanes]
                    [] i \in rising /\ req'[i] = "wr" -> p[i]
                    [] OTHER -> acc[i]]
  BY Zenon DEF AccClock
<1>2. ASSUME NEW i \in Ports
      PROVE  (CASE req'[i] = "none" -> atRest
                [] i \in rising /\ req'[i] = "rd" -> [p[i] EXCEPT !.be = Lanes]
                [] i \in rising /\ req'[i] = "wr" -> p[i]
                [] OTHER -> acc[i]) \in Access
  <2>1. atRest \in Access /\ acc[i] \in Access
    BY AtRestIsAccess DEF LinesDriven
  <2>2. ASSUME i \in rising PROVE p[i] \in Access /\ [p[i] EXCEPT !.be = Lanes] \in Access
    <3>1. p[i] \in Lines
      BY <2>2
    <3> QED BY <3>1 DEF Lines, Access
  <2>3. CASE req'[i] = "none"
    BY <2>1, <2>3, Zenon
  <2>4. CASE req'[i] # "none" /\ i \in rising /\ req'[i] = "rd"
    BY <2>2, <2>4, Zenon
  <2>5. CASE req'[i] # "none" /\ i \in rising /\ req'[i] # "rd" /\ req'[i] = "wr"
    BY <2>2, <2>5, Zenon
  <2>6. CASE req'[i] # "none" /\ ~(i \in rising /\ req'[i] = "rd")
               /\ ~(i \in rising /\ req'[i] = "wr")
    BY <2>1, <2>6, Zenon
  <2> QED BY <2>3, <2>4, <2>5, <2>6
<1> QED BY <1>1, <1>2, Zenon DEF LinesDriven

IInv == Disciplined /\ InTime /\ Selecting /\ LinesDriven

LEMMA InitIInv == SysInit => IInv
PROOF
<1> SUFFICES ASSUME SysInit PROVE IInv
  OBVIOUS
<1> USE ControllerAssumptions, SystemAssumptions
<1>1. cmd = [op |-> "NOP"] /\ chip.row = NoRow /\ chip.set = FALSE
  BY DEF SysInit, Init, Nop
<1>2. Disciplined
  <2>1. rowAfter(cmd) = NoRow
    BY <1>1, Zenon DEF rowAfter
  <2>2. open_row \in Rows
    BY DEF SysInit, Init
  <2>3. /\ state = "S_WAIT" /\ next_after_wait = "S_INIT_PRE"
        /\ delay = INIT_CYCLES /\ row_open = FALSE
    BY DEF SysInit, Init
  <2>4. Registers
    BY <2>2, <2>3 DEF Registers, PowerUp
  <2>5. RowTracked /\ RowAsNeeded
    BY <2>1, <2>3 DEF RowTracked, RowAsNeeded, PowerUp
  <2>6. ModeSet /\ ChipProtocol
    BY <1>1, <2>3 DEF ModeSet, ChipProtocol, running, place, PowerUp
  <2> QED BY <2>4, <2>5, <2>6 DEF Disciplined
<1>3. InTime
  BY <1>1 DEF SysInit, Init, InTime, refreshed, running, place, PowerUp
<1>4. Selecting
  <2>1. 0 \in Ports
    BY DEF Arb!Ports, Ports
  <2>2. /\ req = [i \in Ports |-> "none"] /\ served = [i \in Ports |-> FALSE]
        /\ active = FALSE /\ cur = 0 /\ rotate = 0
    BY DEF SysInit, Arb!Init, Ports
  <2> QED BY <2>1, <2>2 DEF Selecting, Arb!Kinds
<1>5. LinesDriven
  BY AtRestIsAccess DEF SysInit, LinesDriven
<1> QED BY <1>2, <1>3, <1>4, <1>5 DEF IInv

LEMMA ClockKeepsIInv == IInv /\ [SysClock]_vars => IInv'
PROOF
<1> SUFFICES ASSUME IInv, [SysClock]_vars PROVE IInv'
  OBVIOUS
<1>1. CASE SysClock
  <2>1. Arb!ArbClock(ready) /\ Arb!PortClock(ready) /\ AccClock /\ CtlClock(memRequest)
    BY <1>1 DEF SysClock
  <2>2. memRequest.row \in Rows
    <3>1. acc[Arb!sel] \in Access
      BY SelectedPort DEF IInv, LinesDriven
    <3> QED BY <3>1 DEF memRequest, Access
  <2>3. Disciplined' /\ InTime'
    BY <2>1, <2>2, ClockKeepsDisciplined, ClockKeepsInTime DEF IInv, Disciplined
  <2>4. Selecting' /\ LinesDriven'
    BY <2>1, ArbiterKeepsSelecting, PortsKeepLinesDriven DEF IInv
  <2> QED BY <2>3, <2>4 DEF IInv
<1>2. CASE UNCHANGED vars
  <2>1. UNCHANGED <<ctlVars, req, Arb!arbVars, acc>>
    BY <1>2 DEF vars
  <2>2. Disciplined' /\ InTime'
    BY <2>1 DEF IInv, ctlVars, Disciplined, Registers, RowTracked, rowAfter, RowAsNeeded,
                ModeSet, ChipProtocol, InTime, WayToRefresh, left, refreshed, running,
                place, refresh_due
  <2>3. Selecting' /\ LinesDriven'
    BY <2>1 DEF IInv, Arb!arbVars, Selecting, Arb!eligible, Arb!asking, LinesDriven
  <2> QED BY <2>2, <2>3 DEF IInv
<1> QED BY <1>1, <1>2

(* Arbiter, controller and chip agree at every clock: the port shown is one *)
(* that waits, the registers stand for the row the chip has open, and the   *)
(* refresh counter for the clocks that are left.                            *)
THEOREM SdramInvariant == SysSpec => []IInv
PROOF
<1> QED BY InitIInv, ClockKeepsIInv, PTL DEF SysSpec

(* The chip is never sent a command it may not be sent in the state it is  *)
(* in: whatever the requesters do, no column command reaches a closed row  *)
(* or a chip without its mode, and no row is opened, no refresh and no     *)
(* mode given with a row open.                                             *)
THEOREM SdramChipProtocol == SysSpec => []ChipProtocol
PROOF
<1>1. IInv => ChipProtocol
  BY DEF IInv, Disciplined
<1> QED BY <1>1, SdramInvariant, PTL

(* However busy the port is, the chip is refreshed in time, if the interval *)
(* leaves the margin of DeadlineAssumption.                                *)
THEOREM SdramRefreshDeadline == SysSpec => []RefreshDeadline
PROOF
<1>1. IInv => RefreshDeadline
  BY DEF IInv, Disciplined, ModeSet, InTime, RefreshDeadline
<1> QED BY <1>1, SdramInvariant, PTL
-----------------------------------------------------------------------------
(* The refinement of SharedMemory.  While the controller is busy with an   *)
(* access the arbiter holds it, and what the controller copied of it still *)
(* agrees with the lines of the port.                                      *)
Serving ==
  \/ state \in {"S_ACTIVE", "S_RCD", "S_READ", "S_READ_W", "S_WRITE"}
  \/ state = "S_WAIT" /\ next_after_wait = "S_ACTIVE"

AccessHeld ==
  /\ Serving \/ ready => active
  /\ ready => state = "S_RECOVER"
  /\ Serving => (is_write <=> req[cur] = "wr") /\ xfer_be = acc[cur].be
  /\ state \in {"S_RCD", "S_READ", "S_READ_W", "S_WRITE"} =>
       row_open /\ open_row = acc[cur].row
  /\ state \in {"S_READ", "S_READ_W"} => ~is_write
  /\ state = "S_WRITE" => is_write

ChipTypes ==
  /\ chip.array \in [Rows -> [Cols -> Words]] /\ chip.row \in Rows \cup {NoRow}
  /\ chip.pipe \in Seq(Words \cup {NoWord}) /\ Len(chip.pipe) = CAS_LATENCY
  /\ cmd.op \in {"READ", "WRITE"} => cmd.col \in Cols
  /\ cmd.op = "WRITE" => cmd.be \in SUBSET Lanes /\ cmd.data \in Words

(* The word a read is waiting for moves through the chip's pipeline in     *)
(* step with the controller's count.                                       *)
WordOnItsWay ==
  state = "S_READ_W" =>
    /\ delay \in 0 .. CAS_LATENCY
    /\ delay = CAS_LATENCY => cmd.op = "READ" /\ cmd.col = acc[cur].col
    /\ delay # CAS_LATENCY =>
         /\ cmd.op = "NOP"
         /\ chip.pipe[delay + 1] = chip.array[acc[cur].row][acc[cur].col]

RInv == IInv /\ AccessHeld /\ ChipTypes /\ WordOnItsWay

LEMMA LinesKept ==
  ASSUME AccClock, NEW i \in Ports, req[i] # "none", req'[i] = req[i]
  PROVE  acc'[i] = acc[i]
PROOF
<1>1. PICK p \in [rising -> Lines] :
        acc' = [j \in Ports |->
                  CASE req'[j] = "none" -> atRest
                    [] j \in rising /\ req'[j] = "rd" -> [p[j] EXCEPT !.be = Lanes]
                    [] j \in rising /\ req'[j] = "wr" -> p[j]
                    [] OTHER -> acc[j]]
  BY Zenon DEF AccClock
<1>2. i \notin rising /\ req'[i] # "none"
  BY DEF rising
<1> QED BY <1>1, <1>2, Zenon

(* The port whose access the arbiter shows keeps its request and its lines *)
(* until the controller is ready.                                          *)
LEMMA SelectionHeld ==
  ASSUME Selecting, LinesDriven, Arb!sel_valid, ~ready,
         Arb!ArbClock(ready), Arb!PortClock(ready), AccClock
  PROVE  LET s == Arb!sel IN
         /\ s \in Ports /\ req[s] # "none" /\ ~served[s]
         /\ active' /\ cur' = s
         /\ req'[s] = req[s] /\ acc'[s] = acc[s] /\ ~served'[s]
PROOF
<1> DEFINE s == Arb!sel
<1>1. s \in Ports /\ Arb!eligible(s)
  BY SelectedPort
<1>2. active' /\ cur' = s
  BY DEF Arb!ArbClock, Arb!sel, Arb!sel_valid
<1>3. req[s] # "none" /\ ~served[s]
  BY <1>1 DEF Arb!eligible, Arb!asking
<1>4. req'[s] = req[s]
  <2>1. req'[s] \in Arb!portMay(s, ready)
    BY <1>1 DEF Arb!PortClock, Ports
  <2>2. Arb!portMay(s, ready) = {req[s]}
    BY <1>3, Zenon DEF Arb!portMay, Arb!asking, Arb!req_ready
  <2> QED BY <2>1, <2>2
<1>5. acc'[s] = acc[s]
  BY <1>1, <1>3, <1>4, LinesKept
<1>6. ~served'[s]
  BY <1>1, <1>3 DEF Arb!ArbClock, Arb!req_ready, Ports
<1> HIDE DEF s
<1> QED BY <1>1, <1>2, <1>3, <1>4, <1>5, <1>6 DEF s

(* What the controller sees of the access it is busy with.                 *)
LEMMA Shown ==
  ASSUME Selecting, active
  PROVE  /\ Arb!sel = cur /\ Arb!sel_valid /\ cur \in Ports
         /\ memRequest.kind = req[cur] /\ req[cur] \in {"rd", "wr"}
         /\ memRequest.row = acc[cur].row /\ memRequest.col = acc[cur].col
         /\ memRequest.be = acc[cur].be /\ memRequest.data = wordOf(cur)
PROOF
<1>1. Arb!sel = cur /\ Arb!sel_valid /\ cur \in Ports
  BY DEF Arb!sel, Arb!sel_valid, Selecting
<1>2. req[cur] \in Arb!Kinds /\ req[cur] # "none" /\ ~served[cur]
  BY <1>1 DEF Selecting, Arb!eligible, Arb!asking
<1>3. Arb!presented = req[cur]
  BY <1>1, <1>2 DEF Arb!presented
<1> QED BY <1>1, <1>2, <1>3 DEF memRequest, Arb!Kinds

LEMMA HeldStep ==
  ASSUME IInv, AccessHeld, SysClock
  PROVE  AccessHeld'
PROOF
<1> DEFINE r == memRequest
<1> USE DEF Quiet, Nop, goto, waitThen, access, page
<1>0. /\ Arb!ArbClock(ready) /\ Arb!PortClock(ready) /\ AccClock /\ CtlClock(r)
      /\ Selecting /\ LinesDriven /\ Registers /\ RowAsNeeded
  BY DEF SysClock, IInv, Disciplined
(* Steps of a controller that is not, and does not get, busy.              *)
<1>q. ASSUME ~Serving', ~ready' PROVE AccessHeld'
  BY <1>q DEF AccessHeld, Serving
<1>s. ASSUME Serving
      PROVE  /\ ~ready /\ active /\ active' /\ cur' = cur
             /\ req'[cur] = req[cur] /\ acc'[cur] = acc[cur]
             /\ req[cur] \in {"rd", "wr"}
             /\ r.kind = req[cur] /\ r.row = acc[cur].row
  <2>1. ~ready /\ active
    BY <1>s DEF AccessHeld, Serving
  <2>2. Arb!sel = cur /\ Arb!sel_valid
    BY <1>0, <2>1, Shown
  <2> QED BY <1>0, <2>1, <2>2, Shown, SelectionHeld
<1>1. CASE Wait
  <2>1. /\ state = "S_WAIT" /\ ~ready' /\ UNCHANGED <<next_after_wait, is_write, xfer_be>>
        /\ state' = next_after_wait \/ state' = state
    BY <1>1 DEF Wait, Tick, Countdown
  <2>2. CASE next_after_wait = "S_ACTIVE"
    <3>1. Serving
      BY <2>1, <2>2 DEF Serving
    <3>2. state' \in {"S_WAIT", "S_ACTIVE"}
      BY <2>1, <2>2
    <3> QED BY <1>s, <2>1, <3>1, <3>2 DEF AccessHeld
  <2>3. CASE next_after_wait # "S_ACTIVE"
    <3>1. ~Serving'
      BY <1>0, <2>1, <2>3 DEF Serving, Registers, PowerUp
    <3> QED BY <1>q, <2>1, <3>1
  <2> QED BY <2>2, <2>3
<1>2. CASE InitPre \/ InitMrs \/ IdleRefresh \/ IdleNone(r) \/ Refresh
           \/ InitRefresh("S_INIT_R1", "S_INIT_R2")
           \/ InitRefresh("S_INIT_R2", "S_INIT_MRS")
  <2>1. ~Serving' /\ ~ready'
    BY <1>2 DEF InitPre, InitMrs, IdleRefresh, IdleNone, Refresh, InitRefresh, CloseRowThen,
                Tick, Serving
  <2> QED BY <1>q, <2>1
<1>3. CASE IdleAccept(r)
  <2>1. state = "S_IDLE" /\ ~ready /\ Arb!presented # "none"
    BY <1>3 DEF IdleAccept, Tick, AccessHeld, memRequest
  <2>2. Arb!sel_valid
    BY <2>1 DEF Arb!presented
  <2> DEFINE s == Arb!sel
  <2>3. /\ s \in Ports /\ active' /\ cur' = s /\ req'[s] = req[s] /\ acc'[s] = acc[s]
        /\ ~served[s]
    BY <1>0, <2>1, <2>2, SelectionHeld
  <2>4. /\ r.kind = req[s] /\ r.row = acc[s].row /\ r.be = acc[s].be
    BY <2>2, <2>3 DEF memRequest, Arb!presented
  <2> HIDE DEF s, r
  <2>5. (is_write' <=> r.kind = "wr") /\ xfer_be' = r.be
    BY <1>3 DEF IdleAccept
  <2>6. /\ ~ready'
        /\ \/ /\ row_open /\ r.row = open_row /\ UNCHANGED page
              /\ state' = IF r.kind = "wr" THEN "S_WRITE" ELSE "S_READ"
           \/ state' = "S_WAIT" \/ state' = "S_ACTIVE"
    <3>1. \/ /\ page_hit(r) /\ Quiet /\ UNCHANGED page
             /\ goto(IF r.kind = "wr" THEN "S_WRITE" ELSE "S_READ")
          \/ CloseRowThen("S_ACTIVE")
          \/ Quiet /\ goto("S_ACTIVE")
      BY <1>3, Zenon DEF IdleAccept
    <3> QED BY <3>1 DEF CloseRowThen, page_hit
  <2>7. req[s] # "none"
    BY <2>1, <2>2, <2>3 DEF Arb!presented, s
  <2> QED BY <2>3, <2>4, <2>5, <2>6 DEF AccessHeld
<1>4. CASE Activate(r)
  <2>1. /\ state = "S_ACTIVE" /\ state' = "S_RCD" /\ ~ready' /\ UNCHANGED access
        /\ row_open' = TRUE /\ open_row' = r.row
    BY <1>4 DEF Activate, Tick
  <2>2. Serving
    BY <2>1 DEF Serving
  <2> HIDE DEF r
  <2> QED BY <1>s, <2>1, <2>2 DEF AccessHeld
<1>5. CASE Rcd
  <2>1. /\ state = "S_RCD" /\ ~ready' /\ UNCHANGED <<access, page>>
        /\ state' = state \/ state' = IF is_write THEN "S_WRITE" ELSE "S_READ"
    BY <1>5 DEF Rcd, Tick, Countdown
  <2>2. Serving
    BY <2>1 DEF Serving
  <2> HIDE DEF r
  <2> QED BY <1>s, <2>1, <2>2 DEF AccessHeld
<1>6. CASE Read(r)
  <2>1. state = "S_READ" /\ ~ready' /\ UNCHANGED <<access, page>> /\ state' = "S_READ_W"
    BY <1>6 DEF Read, Tick
  <2>2. Serving
    BY <2>1 DEF Serving
  <2> HIDE DEF r
  <2> QED BY <1>s, <2>1, <2>2 DEF AccessHeld
<1>7. CASE ReadWait
  <2>1. /\ state = "S_READ_W" /\ UNCHANGED <<access, page>>
        /\ (ready' /\ state' = "S_RECOVER") \/ (~ready' /\ state' = state)
    BY <1>7 DEF ReadWait, Tick
  <2>2. Serving
    BY <2>1 DEF Serving
  <2> HIDE DEF r
  <2>3. CASE ready' /\ state' = "S_RECOVER"
    <3>1. ~Serving'
      BY <2>3 DEF Serving
    <3> QED BY <1>s, <2>2, <2>3, <3>1 DEF AccessHeld
  <2>4. CASE ~ready' /\ state' = state
    BY <1>s, <2>1, <2>2, <2>4 DEF AccessHeld
  <2> QED BY <2>1, <2>3, <2>4
<1>8. CASE Write(r)
  <2>1. state = "S_WRITE" /\ ready' /\ state' = "S_RECOVER"
    BY <1>8 DEF Write, Tick
  <2>2. Serving /\ ~Serving'
    BY <2>1 DEF Serving
  <2> HIDE DEF r
  <2> QED BY <1>s, <2>1, <2>2 DEF AccessHeld
<1>9. CASE Recover
  <2>1. ~ready' /\ ~Serving'
    BY <1>9 DEF Recover, Tick, Countdown, Serving
  <2> QED BY <1>q, <2>1
<1> QED
  BY <1>0, <1>1, <1>2, <1>3, <1>4, <1>5, <1>6, <1>7, <1>8, <1>9 DEF CtlClock

(* The array with the command that is on its way to the chip.              *)
LEMMA ArrayTyped == ChipTypes => arrayAfter(cmd) \in [Rows -> [Cols -> Words]]
PROOF
<1> SUFFICES ASSUME ChipTypes PROVE arrayAfter(cmd) \in [Rows -> [Cols -> Words]]
  OBVIOUS
<1>1. CASE cmd.op = "WRITE" /\ chip.row # NoRow
  <2> DEFINE old == chip.array[chip.row][cmd.col]
             new == merge(old, cmd.data, cmd.be)
  <2>1. chip.row \in Rows /\ cmd.col \in Cols /\ cmd.data \in Words
        /\ chip.array \in [Rows -> [Cols -> Words]]
    BY <1>1 DEF ChipTypes
  <2>2. old \in Words
    BY <2>1
  <2>3. new \in Words
    <3> HIDE DEF old
    <3> QED BY <2>1, <2>2 DEF merge, Words
  <2>4. arrayAfter(cmd) = [chip.array EXCEPT ![chip.row][cmd.col] = new]
    BY <1>1 DEF arrayAfter
  <2> HIDE DEF old, new
  <2> QED BY <2>1, <2>3, <2>4
<1>2. CASE ~(cmd.op = "WRITE" /\ chip.row # NoRow)
  BY <1>2 DEF arrayAfter, ChipTypes
<1> QED BY <1>1, <1>2

LEMMA ChipEdge ==
  ASSUME ChipTypes, Disciplined, ChipClock
  PROVE  /\ chip'.array = arrayAfter(cmd) /\ chip'.array \in [Rows -> [Cols -> Words]]
         /\ chip'.row = (IF row_open THEN open_row ELSE NoRow)
         /\ chip'.row \in Rows \cup {NoRow}
         /\ chip'.pipe \in Seq(Words \cup {NoWord}) /\ Len(chip'.pipe) = CAS_LATENCY
         /\ \A i \in 1 .. CAS_LATENCY - 1 : chip'.pipe[i] = chip.pipe[i + 1]
         /\ cmd.op = "READ" => chip'.pipe[CAS_LATENCY] = chip.array[chip.row][cmd.col]
PROOF
<1>1. /\ chip'.array = arrayAfter(cmd) /\ chip'.row = rowAfter(cmd)
      /\ chip'.pipe = pipeAfter(cmd)
  BY DEF ChipClock
<1>2. rowAfter(cmd) = (IF row_open THEN open_row ELSE NoRow) /\ open_row \in Rows
  BY DEF Disciplined, RowTracked, Registers
<1> DEFINE p == chip.pipe
           x == IF cmd.op = "READ" /\ chip.row # NoRow
                  THEN chip.array[chip.row][cmd.col] ELSE NoWord
<1>3. x \in Words \cup {NoWord}
  BY DEF ChipTypes
<1>4. p \in Seq(Words \cup {NoWord}) /\ Len(p) = CAS_LATENCY /\ CAS_LATENCY \in Nat
      /\ CAS_LATENCY > 0
  BY ControllerAssumptions DEF ChipTypes
<1>5. chip'.pipe = Append(Tail(p), x)
  BY <1>1 DEF pipeAfter
<1>6. cmd.op = "READ" => x = chip.array[chip.row][cmd.col]
  BY DEF Disciplined, ChipProtocol
<1> HIDE DEF p, x
<1>7. /\ Append(Tail(p), x) \in Seq(Words \cup {NoWord})
      /\ Len(Append(Tail(p), x)) = CAS_LATENCY
      /\ \A i \in 1 .. CAS_LATENCY - 1 : Append(Tail(p), x)[i] = p[i + 1]
      /\ Append(Tail(p), x)[CAS_LATENCY] = x
  <2>1. /\ Tail(p) \in Seq(Words \cup {NoWord}) /\ Len(Tail(p)) = CAS_LATENCY - 1
        /\ \A i \in 1 .. CAS_LATENCY - 1 : Tail(p)[i] = p[i + 1]
    BY <1>4
  <2> DEFINE q == Tail(p)
  <2> HIDE DEF q
  <2>2. q \in Seq(Words \cup {NoWord}) /\ Len(q) = CAS_LATENCY - 1
    BY <2>1 DEF q
  <2>3. /\ Append(q, x) \in Seq(Words \cup {NoWord}) /\ Len(Append(q, x)) = CAS_LATENCY
        /\ \A i \in 1 .. CAS_LATENCY - 1 : Append(q, x)[i] = q[i]
        /\ Append(q, x)[CAS_LATENCY] = x
    BY <1>3, <1>4, <2>2
  <2> QED BY <2>1, <2>3 DEF q
<1> QED BY <1>1, <1>2, <1>5, <1>6, <1>7, ArrayTyped DEF p

LEMMA ChipTypesStep ==
  ASSUME ChipTypes, Disciplined, NEW r, CtlClock(r),
         r.col \in Cols, r.data \in Words, state = "S_WRITE" => xfer_be \in SUBSET Lanes
  PROVE  ChipTypes'
PROOF
<1> USE DEF Quiet, Nop
<1>1. ChipClock
  BY DEF CtlClock, Wait, InitPre, InitMrs, InitRefresh, IdleRefresh, IdleAccept, IdleNone,
         Activate, Rcd, Read, ReadWait, Write, Recover, Refresh, Tick
<1>2. \/ cmd'.op \notin {"READ", "WRITE"}
      \/ Read(r) \/ Write(r)
  <2>1. CASE Wait \/ IdleRefresh \/ IdleNone(r) \/ Rcd \/ ReadWait \/ Recover
    BY <2>1 DEF Wait, IdleRefresh, CloseRowThen, IdleNone, Rcd, ReadWait, Recover
  <2>2. CASE IdleAccept(r)
    <3>1. Quiet \/ CloseRowThen("S_ACTIVE")
      BY <2>2, Zenon DEF IdleAccept
    <3> QED BY <3>1 DEF CloseRowThen
  <2>3. CASE InitPre \/ InitMrs \/ Activate(r) \/ Refresh
             \/ InitRefresh("S_INIT_R1", "S_INIT_R2")
             \/ InitRefresh("S_INIT_R2", "S_INIT_MRS")
    BY <2>3 DEF InitPre, InitMrs, Activate, Refresh, InitRefresh
  <2> QED BY <2>1, <2>2, <2>3 DEF CtlClock
<1>3. /\ cmd'.op \in {"READ", "WRITE"} => cmd'.col \in Cols
      /\ cmd'.op = "WRITE" => cmd'.be \in SUBSET Lanes /\ cmd'.data \in Words
  BY <1>2 DEF Read, Write, Tick
<1>4. /\ chip'.array \in [Rows -> [Cols -> Words]] /\ chip'.row \in Rows \cup {NoRow}
      /\ chip'.pipe \in Seq(Words \cup {NoWord}) /\ Len(chip'.pipe) = CAS_LATENCY
  BY <1>1, ChipEdge
<1> QED BY <1>3, <1>4 DEF ChipTypes

LEMMA WordStep ==
  ASSUME IInv, AccessHeld, AccessHeld', ChipTypes, WordOnItsWay, SysClock
  PROVE  WordOnItsWay'
PROOF
<1> DEFINE r == memRequest
<1> USE DEF Quiet, Nop, goto
<1>0. /\ Arb!ArbClock(ready) /\ Arb!PortClock(ready) /\ AccClock /\ CtlClock(r)
      /\ Selecting /\ LinesDriven /\ Disciplined /\ CAS_LATENCY \in Nat /\ CAS_LATENCY > 0
  BY ControllerAssumptions DEF SysClock, IInv
<1>1. SUFFICES ASSUME state' = "S_READ_W"
               PROVE  /\ delay' \in 0 .. CAS_LATENCY
                      /\ delay' = CAS_LATENCY =>
                           cmd'.op = "READ" /\ cmd'.col = acc'[cur'].col
                      /\ delay' # CAS_LATENCY =>
                           /\ cmd'.op = "NOP"
                           /\ chip'.pipe[delay' + 1]
                                = chip'.array[acc'[cur'].row][acc'[cur'].col]
  BY DEF WordOnItsWay
<1>2. Read(r) \/ (ReadWait /\ delay # 0)
  <2>1. ~ (InitPre \/ InitMrs \/ InitRefresh("S_INIT_R1", "S_INIT_R2")
           \/ InitRefresh("S_INIT_R2", "S_INIT_MRS") \/ IdleRefresh \/ IdleNone(r)
           \/ Activate(r) \/ Write(r) \/ Refresh)
    BY <1>1 DEF InitPre, InitMrs, InitRefresh, IdleRefresh, CloseRowThen, IdleNone, Activate,
                Write, Refresh, waitThen
  <2>2. ~ (Wait \/ Rcd \/ Recover)
    BY <1>0, <1>1 DEF Wait, Rcd, Recover, Tick, Countdown, Disciplined, Registers, PowerUp
  <2>3. ~ IdleAccept(r)
    <3>1. IdleAccept(r) => \/ goto(IF r.kind = "wr" THEN "S_WRITE" ELSE "S_READ")
                           \/ CloseRowThen("S_ACTIVE") \/ goto("S_ACTIVE")
      BY Zenon DEF IdleAccept
    <3> QED BY <1>1, <3>1 DEF CloseRowThen, waitThen
  <2>4. ReadWait => delay # 0
    BY <1>1 DEF ReadWait
  <2> QED BY <1>0, <2>1, <2>2, <2>3, <2>4 DEF CtlClock
<1>3. /\ active /\ ~ready /\ row_open /\ open_row = acc[cur].row /\ ChipClock
  BY <1>2 DEF AccessHeld, Serving, Read, ReadWait, Tick
<1>4. Arb!sel = cur /\ Arb!sel_valid /\ r.col = acc[cur].col /\ cur \in Ports
  BY <1>0, <1>3, Shown
<1>5. cur' = cur /\ acc'[cur] = acc[cur]
  BY <1>0, <1>3, <1>4, SelectionHeld
<1>6. CASE Read(r)
  <2>1. cmd' = [op |-> "READ", col |-> r.col] /\ delay' = CAS_LATENCY
    BY <1>6 DEF Read
  <2> HIDE DEF r
  <2> QED BY <1>0, <1>4, <1>5, <2>1
<1>7. CASE ReadWait /\ delay # 0
  <2>1. /\ state = "S_READ_W" /\ delay' = delay - 1 /\ cmd' = Nop
        /\ delay \in 1 .. CAS_LATENCY
    BY <1>0, <1>7 DEF ReadWait, Tick, WordOnItsWay
  <2>2. cmd.op \in {"READ", "NOP"}
    BY <2>1 DEF WordOnItsWay
  <2>3. chip'.array = chip.array
    BY <1>0, <1>3, <2>2, ChipEdge DEF arrayAfter
  <2>4. chip'.pipe[delay] = chip.array[acc[cur].row][acc[cur].col]
    <3>1. CASE delay = CAS_LATENCY
      <4>1. cmd.op = "READ" /\ cmd.col = acc[cur].col
        BY <2>1, <3>1 DEF WordOnItsWay
      <4>2. chip.row = acc[cur].row
        <5>1. rowAfter(cmd) = chip.row
          <6>1. cmd.op # "ACTIVE" /\ cmd.op # "PRECHARGE"
            BY <4>1
          <6> QED BY <6>1, Zenon DEF rowAfter
        <5> QED BY <1>0, <1>3, <5>1 DEF Disciplined, RowTracked
      <4>3. chip'.pipe[CAS_LATENCY] = chip.array[chip.row][cmd.col]
        BY <1>0, <1>3, <4>1, ChipEdge
      <4> QED BY <3>1, <4>1, <4>2, <4>3
    <3>2. CASE delay # CAS_LATENCY
      <4>1. chip.pipe[delay + 1] = chip.array[acc[cur].row][acc[cur].col]
        BY <2>1, <3>2 DEF WordOnItsWay
      <4>2. delay \in 1 .. CAS_LATENCY - 1
        BY <1>0, <2>1, <3>2
      <4>3. chip'.pipe[delay] = chip.pipe[delay + 1]
        BY <1>0, <1>3, <4>2, ChipEdge
      <4> QED BY <4>1, <4>3
    <3> QED BY <3>1, <3>2
  <2>5. delay' + 1 = delay /\ delay' \in 0 .. CAS_LATENCY /\ delay' # CAS_LATENCY
    BY <1>0, <2>1
  <2> QED BY <1>5, <2>1, <2>3, <2>4, <2>5
<1> QED BY <1>2, <1>6, <1>7

LEMMA InitRInv == SysInit => RInv
PROOF
<1> SUFFICES ASSUME SysInit PROVE RInv
  OBVIOUS
<1> USE ControllerAssumptions
<1>1. IInv
  BY InitIInv
<1>2. state = "S_WAIT" /\ next_after_wait = "S_INIT_PRE" /\ ready = FALSE /\ cmd = Nop
  BY DEF SysInit, Init
<1>3. AccessHeld /\ WordOnItsWay
  BY <1>2 DEF AccessHeld, Serving, WordOnItsWay
<1>4. ChipTypes
  <2> DEFINE w == [l \in Lanes |-> CHOOSE v \in Vals : TRUE]
             p == [i \in 1 .. CAS_LATENCY |-> NoWord]
  <2>1. w \in Words
    BY DEF Words
  <2>2. /\ chip.array = [r \in Rows |-> [c \in Cols |-> w]] /\ chip.row = NoRow
        /\ chip.pipe = p
    BY DEF SysInit, Init
  <2>3. p \in Seq(Words \cup {NoWord}) /\ Len(p) = CAS_LATENCY
    OBVIOUS
  <2> HIDE DEF w, p
  <2> QED BY <1>2, <2>1, <2>2, <2>3 DEF ChipTypes, Nop
<1> QED BY <1>1, <1>3, <1>4 DEF RInv

LEMMA ClockKeepsRInv == RInv /\ [SysClock]_vars => RInv'
PROOF
<1> SUFFICES ASSUME RInv, [SysClock]_vars PROVE RInv'
  OBVIOUS
<1>1. IInv'
  BY ClockKeepsIInv DEF RInv
<1>2. CASE SysClock
  <2> DEFINE r == memRequest
  <2>1. AccessHeld'
    BY <1>2, HeldStep DEF RInv
  <2>2. WordOnItsWay'
    BY <1>2, <2>1, WordStep DEF RInv
  <2>3. Arb!sel \in Ports /\ acc[Arb!sel] \in Access
    BY SelectedPort DEF RInv, IInv, LinesDriven
  <2>4. r.col \in Cols /\ r.data \in Words
    BY <2>3, SystemAssumptions DEF memRequest, Access, wordOf, Words, Arb!Ports, Ports
  <2>5. state = "S_WRITE" => xfer_be \in SUBSET Lanes
    <3>1. state = "S_WRITE" => active /\ xfer_be = acc[cur].be
      BY DEF RInv, AccessHeld, Serving
    <3>2. active => Arb!sel = cur
      BY DEF Arb!sel
    <3> QED BY <2>3, <3>1, <3>2 DEF Access
  <2>6. CtlClock(r) /\ Disciplined /\ ChipTypes
    BY <1>2 DEF SysClock, RInv, IInv
  <2> HIDE DEF r
  <2>7. ChipTypes'
    BY <2>4, <2>5, <2>6, ChipTypesStep
  <2> QED BY <1>1, <2>1, <2>2, <2>7 DEF RInv
<1>3. CASE UNCHANGED vars
  <2>1. UNCHANGED <<ctlVars, req, Arb!arbVars, acc>>
    BY <1>3 DEF vars
  <2>2. UNCHANGED <<state, next_after_wait, delay, is_write, xfer_be, row_open, open_row, cmd,
                    ready, chip, req, active, cur, acc>>
    BY <2>1 DEF ctlVars, Arb!arbVars
  <2> QED BY <1>1, <2>2 DEF RInv, AccessHeld, Serving, ChipTypes, WordOnItsWay
<1> QED BY <1>2, <1>3

(* The ports.                                                              *)
LEMMA PortsMoveStep ==
  ASSUME RInv, RInv', SysClock
  PROVE  Memory!PortsMove
PROOF
<1> DEFINE rq == [i \in Ports |-> visible(i)]
           dn == [i \in Ports |-> req[i] # "none"
                                  /\ (served[i] \/ Arb!req_ready(i, ready))]
<1>0. /\ Arb!PortClock(ready) /\ AccClock /\ Selecting /\ Selecting' /\ LinesDriven'
  BY DEF SysClock, RInv, IInv
<1>1. ASSUME NEW j \in Ports
      PROVE  visible(j)' \in Memory!Accesses \cup {Memory!NoRequest}
  <2>1. acc'[j] \in Access /\ req'[j] \in {"none", "rd", "wr"}
    BY <1>0 DEF LinesDriven, Selecting, Arb!Kinds
  <2>2. wordOf(j) \in Words
    BY SystemAssumptions DEF wordOf, Words, Arb!Ports, Ports
  <2>3. wordOf(j)' = wordOf(j)
    BY DEF wordOf
  <2> HIDE DEF Words
  <2> QED BY <2>1, <2>2, <2>3 DEF visible, Memory!Accesses, Memory!NoRequest, Access
<1>2. rq' = [i \in Ports |-> visible(i)']
  BY DEF Ports, Arb!Ports
<1>3. ASSUME NEW j \in Ports
      PROVE  \/ visible(j)' = visible(j)
             \/ visible(j) = Memory!NoRequest
             \/ dn[j] /\ visible(j)' = Memory!NoRequest
  <2>1. req'[j] \in Arb!portMay(j, ready)
    BY <1>0 DEF Arb!PortClock, Ports
  <2>2. CASE req[j] = "none"
    BY <2>2 DEF visible, Memory!NoRequest
  <2>3. CASE req[j] # "none" /\ req'[j] = req[j]
    <3>1. acc'[j] = acc[j]
      BY <1>0, <2>3, LinesKept
    <3> QED BY <2>3, <3>1 DEF visible, wordOf
  <2>4. CASE req[j] # "none" /\ req'[j] # req[j]
    <3>1. served[j] \/ Arb!req_ready(j, ready)
      <4>1. ~(served[j] \/ Arb!req_ready(j, ready)) => Arb!portMay(j, ready) = {req[j]}
        BY <2>4, Zenon DEF Arb!portMay, Arb!asking
      <4> QED BY <2>1, <2>4, <4>1
    <3>2. Arb!portMay(j, ready) = {req[j], "none"}
      BY <2>4, <3>1, Zenon DEF Arb!portMay, Arb!asking
    <3> QED BY <2>1, <2>4, <3>1, <3>2 DEF visible, Memory!NoRequest
  <2> QED BY <2>2, <2>3, <2>4
<1> HIDE DEF dn
<1>4. /\ rq' \in [Ports -> Memory!Accesses \cup {Memory!NoRequest}]
      /\ \A j \in Ports : \/ rq'[j] = rq[j]
                          \/ rq[j] = Memory!NoRequest
                          \/ dn[j] /\ rq'[j] = Memory!NoRequest
  BY <1>1, <1>2, <1>3
<1> QED BY <1>4 DEF Memory!PortsMove, dn, rq

LEMMA DoneNext ==
  ASSUME RInv, RInv', SysClock, NEW j \in Ports
  PROVE  (req'[j] # "none" /\ (served'[j] \/ Arb!req_ready(j, ready)'))
           <=> /\ visible(j)' # Memory!NoRequest
               /\ \/ req[j] # "none" /\ (served[j] \/ Arb!req_ready(j, ready))
                  \/ ready' /\ j = Arb!sel'
PROOF
<1>0. Arb!ArbClock(ready) /\ Selecting
  BY DEF SysClock, RInv, IInv
<1>1. served'[j] <=> Arb!req_ready(j, ready) \/ (served[j] /\ req[j] # "none")
  BY <1>0 DEF Arb!ArbClock, Arb!asking, Ports
<1>2. Arb!req_ready(j, ready) => req[j] # "none"
  BY <1>0, SelectedPort DEF Arb!req_ready, Arb!eligible, Arb!asking
<1>3. Arb!req_ready(j, ready)' <=> ready' /\ j = Arb!sel'
  <2>1. ready' => active'
    BY DEF RInv, AccessHeld
  <2>2. active' => Arb!sel_valid'
    BY DEF Arb!sel_valid
  <2> QED BY <2>1, <2>2 DEF Arb!req_ready
<1>4. visible(j)' # Memory!NoRequest <=> req'[j] # "none"
  <2>1. req'[j] # "none" => visible(j)' # Memory!NoRequest
    <3>1. req'[j] # "none" => visible(j)'.kind = req'[j]
      BY DEF visible
    <3> QED BY <3>1 DEF Memory!NoRequest
  <2> QED BY <2>1 DEF visible, Memory!NoRequest
<1> QED BY <1>1, <1>2, <1>3, <1>4

(* The clock edges at which the controller is ready are the ones at which  *)
(* it has the word of a read or gives the chip the word of a write.        *)
LEMMA ReadyNext ==
  ASSUME RInv, SysClock
  PROVE  /\ ChipClock
         /\ ready' <=> (ReadWait /\ delay = 0) \/ Write(memRequest)
         /\ ready' \in BOOLEAN
         /\ cmd'.op = "WRITE" => Write(memRequest)
PROOF
<1> DEFINE r == memRequest
<1> USE DEF Quiet, Nop, goto
<1>0. CtlClock(r) /\ Registers
  BY DEF SysClock, RInv, IInv, Disciplined
<1> HIDE DEF r
<1>1. CASE Wait \/ InitPre \/ InitMrs \/ Rcd \/ Recover \/ Refresh
           \/ InitRefresh("S_INIT_R1", "S_INIT_R2")
           \/ InitRefresh("S_INIT_R2", "S_INIT_MRS")
  <2>1. ChipClock /\ state \notin {"S_READ_W", "S_WRITE"} /\ ready' = FALSE
        /\ cmd'.op # "WRITE"
    BY <1>1 DEF Wait, InitPre, InitMrs, InitRefresh, Rcd, Recover, Refresh, Tick
  <2> QED BY <2>1 DEF ReadWait, Write, Tick, r
<1>2. CASE IdleRefresh \/ IdleNone(r) \/ Activate(r) \/ Read(r)
  <2>1. ChipClock /\ state \notin {"S_READ_W", "S_WRITE"} /\ ready' = FALSE
        /\ cmd'.op # "WRITE"
    BY <1>2 DEF IdleRefresh, IdleNone, Activate, Read, CloseRowThen, Tick
  <2> QED BY <2>1 DEF ReadWait, Write, Tick, r
<1>3. CASE IdleAccept(r)
  <2>1. Quiet \/ CloseRowThen("S_ACTIVE")
    BY <1>3, Zenon DEF IdleAccept
  <2>2. ChipClock /\ state = "S_IDLE" /\ ready' = FALSE /\ cmd'.op # "WRITE"
    BY <1>3, <2>1 DEF IdleAccept, CloseRowThen, Tick
  <2> QED BY <2>2 DEF ReadWait, Write, Tick, r
<1>4. CASE ReadWait
  <2>1. ChipClock /\ state = "S_READ_W" /\ cmd'.op # "WRITE"
        /\ ready' = (delay = 0)
    BY <1>4 DEF ReadWait, Tick
  <2> QED BY <1>4, <2>1 DEF Write, Tick, r
<1>5. CASE Write(r)
  BY <1>5 DEF Write, Tick, r
<1> QED BY <1>0, <1>1, <1>2, <1>3, <1>4, <1>5 DEF CtlClock

LEMMA ClockImplements ==
  ASSUME RInv, RInv', SysClock
  PROVE  Memory!Next
PROOF
<1> DEFINE arr == [a \in Rows \X Cols |-> arrayAfter(cmd)[a[1]][a[2]]]
           rq == [i \in Ports |-> visible(i)]
           dn == [i \in Ports |-> req[i] # "none"
                                  /\ (served[i] \/ Arb!req_ready(i, ready))]
           an == IF ready
                   THEN [kind |-> Arb!presented, port |-> Arb!sel,
                         data |-> IF Arb!presented = "rd" THEN rdata
                                                          ELSE wordOf(Arb!sel)]
                   ELSE [kind |-> "none"]
           m == arrayAfter(cmd)
           r == memRequest
<1>0. Memory!PortsMove
  BY PortsMoveStep
<1>1. /\ ChipClock
      /\ ready' <=> (ReadWait /\ delay = 0) \/ Write(r)
      /\ ready' \in BOOLEAN
      /\ cmd'.op = "WRITE" => Write(r)
  BY ReadyNext
<1>2. /\ chip'.array = m /\ m \in [Rows -> [Cols -> Words]]
      /\ chip'.row = (IF row_open THEN open_row ELSE NoRow)
      /\ \A i \in 1 .. CAS_LATENCY - 1 : chip'.pipe[i] = chip.pipe[i + 1]
  BY <1>1, ChipEdge DEF RInv, IInv
<1>3. ~Write(r) => m' = m
  BY <1>1, <1>2 DEF arrayAfter
<1>4. dn' = [j \in Ports |-> rq'[j] # Memory!NoRequest
                             /\ (dn[j] \/ (ready' /\ j = Arb!sel'))]
  <2>1. dn' = [j \in Ports |-> req'[j] # "none" /\ (served'[j] \/ Arb!req_ready(j, ready)')]
    BY DEF Ports, Arb!Ports
  <2>2. rq' = [j \in Ports |-> visible(j)']
    BY DEF Ports, Arb!Ports
  <2> QED BY <2>1, <2>2, DoneNext
<1>5. ASSUME ~ready' PROVE Memory!PerformNone
  <2>1. m' = m
    BY <1>1, <1>3, <1>5
  <2>2. arr' = arr
    BY <2>1
  <2>3. an' = Memory!NoAnswer
    BY <1>5 DEF Memory!NoAnswer
  <2>4. dn' = [j \in Ports |-> rq'[j] # Memory!NoRequest /\ dn[j]]
    BY <1>4, <1>5
  <2> HIDE DEF m
  <2> QED BY <2>2, <2>3, <2>4 DEF Memory!PerformNone
<1>6. ASSUME ready', NEW i \in Ports, i = cur PROVE Memory!Perform(i)
  <2> DEFINE a == visible(cur)
             loc == <<acc[cur].row, acc[cur].col>>
  <2>1. /\ state \in {"S_READ_W", "S_WRITE"} /\ active /\ ~ready
        /\ row_open /\ open_row = acc[cur].row /\ open_row \in Rows
        /\ is_write <=> req[cur] = "wr"
        /\ Write(r) <=> req[cur] = "wr"
    BY <1>1, <1>6
       DEF ReadWait, Write, Tick, RInv, AccessHeld, Serving, IInv, Disciplined, Registers
  <2>2. /\ Arb!sel = cur /\ Arb!sel_valid /\ cur \in Ports /\ req[cur] \in {"rd", "wr"}
        /\ r.col = acc[cur].col /\ r.data = wordOf(cur)
    BY <2>1, Shown DEF RInv, IInv
  <2>3. /\ active' /\ cur' = cur /\ req'[cur] = req[cur] /\ acc'[cur] = acc[cur]
        /\ ~served[cur] /\ Arb!sel' = cur /\ Arb!presented' = req[cur]
    <3>1. /\ active' /\ cur' = cur /\ req'[cur] = req[cur] /\ acc'[cur] = acc[cur]
          /\ ~served[cur] /\ ~served'[cur]
      BY <2>1, <2>2, SelectionHeld DEF SysClock, RInv, IInv
    <3>2. Arb!sel' = cur' /\ Arb!sel_valid'
      BY <3>1 DEF Arb!sel, Arb!sel_valid
    <3>3. Arb!presented' = req'[cur]
      BY <3>1, <3>2 DEF Arb!presented
    <3> QED BY <3>1, <3>2, <3>3
  <2>4. /\ a = [kind |-> req[cur], addr |-> loc, be |-> acc[cur].be, data |-> wordOf(cur)]
        /\ a # Memory!NoRequest /\ rq[cur] = a /\ ~dn[cur]
    <3>1. a = [kind |-> req[cur], addr |-> loc, be |-> acc[cur].be, data |-> wordOf(cur)]
      BY <2>2 DEF visible
    <3>2. a # Memory!NoRequest
      <4>1. a.kind # "none"
        BY <2>2, <3>1
      <4> QED BY <4>1 DEF Memory!NoRequest
    <3>3. ~dn[cur]
      BY <2>1, <2>2, <2>3 DEF Arb!req_ready
    <3> QED BY <2>2, <3>1, <3>2, <3>3
  <2>5. loc \in Rows \X Cols /\ acc[cur].row \in Rows /\ acc[cur].col \in Cols
        /\ acc[cur].be \in SUBSET Lanes
    BY <2>2 DEF RInv, IInv, LinesDriven, Access
  <2>6. dn' = [j \in Ports |-> rq'[j] # Memory!NoRequest /\ (dn[j] \/ j = cur)]
    BY <1>4, <1>6, <2>3
  <2>7. CASE req[cur] = "wr"
    <3>1. cmd' = [op |-> "WRITE", col |-> acc[cur].col, data |-> wordOf(cur),
                  be |-> acc[cur].be]
      BY <2>1, <2>2, <2>7 DEF Write, RInv, AccessHeld, Serving
    <3>2. chip'.row = acc[cur].row /\ chip'.row # NoRow
      BY <1>2, <2>1, ControllerAssumptions
    <3>3. m' = [m EXCEPT ![acc[cur].row][acc[cur].col]
                           = merge(m[acc[cur].row][acc[cur].col], wordOf(cur), acc[cur].be)]
      BY <1>2, <2>5, <3>1, <3>2 DEF arrayAfter, merge
    <3>4. arr' = [b \in Rows \X Cols |-> m'[b[1]][b[2]]]
      OBVIOUS
    <3>5. arr' = Memory!written(a)
      <4> DEFINE old == m[acc[cur].row][acc[cur].col]
                 w == merge(old, wordOf(cur), acc[cur].be)
      <4>1. old = arr[loc] /\ a.addr = loc /\ a.be = acc[cur].be /\ a.data = wordOf(cur)
        BY <2>4, <2>5
      <4>2. Memory!written(a)
              = [arr EXCEPT ![a.addr] = [l \in Lanes |-> IF l \in a.be THEN a.data[l]
                                                         ELSE arr[a.addr][l]]]
        BY DEF Memory!written
      <4>3. [l \in Lanes |-> IF l \in a.be THEN a.data[l] ELSE arr[a.addr][l]] = w
        BY <4>1 DEF merge
      <4>4. Memory!written(a) = [arr EXCEPT ![loc] = w]
        BY <4>1, <4>2, <4>3
      <4>5. ASSUME NEW b \in Rows \X Cols
            PROVE  m'[b[1]][b[2]] = (IF b = loc THEN w ELSE m[b[1]][b[2]])
        <5>1. b[1] \in Rows /\ b[2] \in Cols /\ b = <<b[1], b[2]>>
          OBVIOUS
        <5> HIDE DEF m, w, a
        <5> QED BY <1>2, <2>5, <3>3, <5>1 DEF w
      <4>6. arr = [b \in Rows \X Cols |-> m[b[1]][b[2]]]
        OBVIOUS
      <4> HIDE DEF m, w, a, loc
      <4>7. arr' = [b \in Rows \X Cols |-> IF b = loc THEN w ELSE m[b[1]][b[2]]]
        BY <3>4, <4>5
      <4>8. [arr EXCEPT ![loc] = w]
              = [b \in Rows \X Cols |-> IF b = loc THEN w ELSE m[b[1]][b[2]]]
        BY <4>6
      <4> QED BY <4>4, <4>7, <4>8
    <3>6. an' = [kind |-> "wr", port |-> cur, data |-> wordOf(cur)]
      BY <1>6, <2>3, <2>7 DEF wordOf
    <3>7. rq[cur].kind = "wr" /\ rq[cur].data = wordOf(cur) /\ rq[cur] # Memory!NoRequest
      BY <2>4, <2>7
    <3>8. arr' = Memory!written(rq[cur])
      BY <2>4, <3>5
    <3>9. arr' = IF rq[cur].kind = "wr" THEN Memory!written(rq[cur]) ELSE arr
      BY <3>7, <3>8
    <3>10. an' = [kind |-> rq[cur].kind, port |-> cur,
                  data |-> IF rq[cur].kind = "rd" THEN arr[rq[cur].addr] ELSE rq[cur].data]
      BY <3>6, <3>7
    <3> HIDE DEF m, a
    <3>11. ~dn[cur]
      BY <2>4
    <3> HIDE DEF arr, an, rq, dn
    <3> QED BY <1>6, <2>6, <3>7, <3>9, <3>10, <3>11, Zenon DEF Memory!Perform, arr, an, rq, dn
  <2>8. CASE req[cur] = "rd"
    <3>1. ReadWait /\ delay = 0 /\ m' = m
      BY <1>1, <1>3, <1>6, <2>1, <2>8
    <3>2. arr' = arr
      BY <3>1
    <3>3. rdata' = arr[loc]
      <4>1. rdata' = Head(chip.pipe) /\ state = "S_READ_W"
        BY <3>1 DEF ReadWait, dqNext, Tick
      <4>2. cmd.op = "NOP" /\ chip.pipe[1] = chip.array[acc[cur].row][acc[cur].col]
        BY <3>1, <4>1, ControllerAssumptions DEF RInv, WordOnItsWay
      <4>3. Head(chip.pipe) = chip.pipe[1]
        BY ControllerAssumptions DEF RInv, ChipTypes
      <4>4. m = chip.array
        BY <4>2 DEF arrayAfter
      <4>5. arr[loc] = m[acc[cur].row][acc[cur].col]
        BY <2>5
      <4> QED BY <4>1, <4>2, <4>3, <4>4, <4>5
    <3>4. an' = [kind |-> "rd", port |-> cur, data |-> rdata']
      BY <1>6, <2>3, <2>8
    <3>5. rq[cur].kind = "rd" /\ rq[cur].addr = loc /\ rq[cur] # Memory!NoRequest
      BY <2>4, <2>8
    <3>6. arr' = IF rq[cur].kind = "wr" THEN Memory!written(rq[cur]) ELSE arr
      BY <3>2, <3>5
    <3>7. an' = [kind |-> rq[cur].kind, port |-> cur,
                 data |-> IF rq[cur].kind = "rd" THEN arr[rq[cur].addr] ELSE rq[cur].data]
      <4>1. rdata' = arr[rq[cur].addr]
        BY <3>3, <3>5
      <4> HIDE DEF m, a, arr, an, rq, dn
      <4> QED BY <3>4, <3>5, <4>1
    <3>8. ~dn[cur]
      BY <2>4
    <3> HIDE DEF m, a, arr, an, rq, dn
    <3> QED BY <1>6, <2>6, <3>5, <3>6, <3>7, <3>8, Zenon DEF Memory!Perform, arr, an, rq, dn
  <2> QED BY <2>2, <2>7, <2>8
<1>7. ready' => cur \in Ports
  BY DEF RInv, IInv, Selecting
<1>8. Memory!PerformNone \/ \E i \in Ports : Memory!Perform(i)
  <2>1. CASE ready'
    <3>1. PICK i \in Ports : i = cur
      BY <1>7, <2>1
    <3>2. Memory!Perform(i)
      BY <1>6, <2>1, <3>1
    <3> HIDE DEF m, arr, rq, dn, an
    <3> QED BY <3>2, Zenon
  <2>2. CASE ~ready'
    BY <1>5, <2>2
  <2> QED BY <2>1, <2>2
<1> HIDE DEF m, arr, rq, dn, an
<1> QED BY <1>0, <1>8, Zenon DEF Memory!Next

LEMMA InitImplements == SysInit => Memory!Init
PROOF
<1> SUFFICES ASSUME SysInit PROVE Memory!Init
  OBVIOUS
<1>1. ready = FALSE /\ cmd = Nop /\ req = [i \in Ports |-> "none"]
  BY DEF SysInit, Init, Arb!Init, Ports
<1>2. arrayAfter(cmd) \in [Rows -> [Cols -> Words]]
  BY InitRInv, ArrayTyped DEF RInv
<1> DEFINE m == arrayAfter(cmd)
           arr == [a \in Rows \X Cols |-> m[a[1]][a[2]]]
<1>3. arr \in [Rows \X Cols -> Words]
  <2> HIDE DEF m
  <2>1. ASSUME NEW a \in Rows \X Cols PROVE m[a[1]][a[2]] \in Words
    <3>1. a[1] \in Rows /\ a[2] \in Cols
      OBVIOUS
    <3> QED BY <1>2, <3>1 DEF m
  <2> QED BY <2>1
<1>4. [i \in Ports |-> visible(i)] = [i \in Ports |-> Memory!NoRequest]
  BY <1>1 DEF visible, Memory!NoRequest
<1>5. [i \in Ports |-> req[i] # "none" /\ (served[i] \/ Arb!req_ready(i, ready))]
        = [i \in Ports |-> FALSE]
  BY <1>1, Zenon
<1> HIDE DEF m
<1> QED BY <1>1, <1>3, <1>4, <1>5 DEF Memory!Init, Memory!NoAnswer, m

LEMMA StutterImplements == UNCHANGED vars => UNCHANGED Memory!vars
PROOF
<1> SUFFICES ASSUME UNCHANGED vars PROVE UNCHANGED Memory!vars
  OBVIOUS
<1>1. UNCHANGED <<cmd, ready, chip, rdata, req, served, active, cur, rotate, acc>>
  BY DEF vars, ctlVars, Arb!arbVars
<1>2. arrayAfter(cmd)' = arrayAfter(cmd)
  BY <1>1 DEF arrayAfter
<1>3. Arb!sel' = Arb!sel /\ (Arb!sel_valid' <=> Arb!sel_valid)
  BY <1>1 DEF Arb!sel, Arb!sel_valid, Arb!winner, Arb!found, Arb!scanPos, Arb!distFrom,
              Arb!eligible, Arb!asking
<1>4. Arb!presented' = Arb!presented
  BY <1>1, <1>3 DEF Arb!presented
<1> QED BY <1>1, <1>2, <1>3, <1>4 DEF Memory!vars, visible, wordOf, Arb!req_ready

(* The refinement: memory_controller's SDRAM path, with its refreshes, its *)
(* open page and its arbiter, is the plain shared memory of SharedMemory:  *)
(* every request takes effect once, at the clock its ready is given, and a *)
(* read returns what the array holds at that clock.                        *)
THEOREM SdramImplementsSharedMemory == SysSpec => ImplementsSharedMemory
PROOF
<1>1. SysInit => Memory!Init
  BY InitImplements
<1>2. SysInit => RInv
  BY InitRInv
<1>3. RInv /\ [SysClock]_vars => RInv'
  BY ClockKeepsRInv
<1>4. RInv /\ RInv' /\ [SysClock]_vars => [Memory!Next]_(Memory!vars)
  BY ClockImplements, StutterImplements
<1> QED BY <1>1, <1>2, <1>3, <1>4, PTL DEF SysSpec, ImplementsSharedMemory, Memory!Spec
=============================================================================
