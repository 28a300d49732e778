-------------------------- MODULE SdramController --------------------------
(***************************************************************************)
(* src/modules/sdram_controller.sv against the SDRAM chip it drives.       *)
(*                                                                         *)
(* One action per state of the controller's FSM; each action is one clock  *)
(* edge and takes the request lines `r' as they stand before that edge, so *)
(* that SdramSystem can put the arbiter in front of the same actions.      *)
(* The chip samples the registered command half a clock later (DRAM_CLK is *)
(* inverted, lines 22-25): ChipClock is part of every edge.                *)
(*                                                                         *)
(* All accesses are in bank 0 (line 156), so a row number is the row.      *)
(***************************************************************************)
EXTENDS Integers, Sequences

CONSTANTS
  Rows, Cols,          \* the addresses, split as lines 146-157 split them
  Lanes,               \* the byte lanes of a word
  Vals,                \* the values a byte may take
  INIT_CYCLES, REFRESH_CYCLES, CAS_LATENCY,
  TREFI,               \* the part's refresh deadline, in clocks
  NoRow,               \* the chip's bank is precharged
  NoWord               \* nobody drives the data bus

ASSUME ControllerAssumptions ==
  /\ {INIT_CYCLES, REFRESH_CYCLES, CAS_LATENCY, TREFI} \subseteq Nat
  /\ CAS_LATENCY > 0
  /\ NoRow \notin Rows /\ Rows # {} /\ Cols # {} /\ Lanes # {} /\ Vals # {}

(* The margin the interval leaves under the deadline ("175 leaves margin", *)
(* lines 58-67): an access that misses its row, accepted in the last clock *)
(* before a refresh falls due, and the way from there to the refresh.      *)
ASSUME DeadlineAssumption ==
  REFRESH_CYCLES + CAS_LATENCY + 11 <= TREFI /\ 18 <= TREFI

Words    == [Lanes -> Vals]
Requests == [kind : {"none", "rd", "wr"}, row : Rows, col : Cols,
             be : SUBSET Lanes, data : Words]

VARIABLES
  state, next_after_wait, delay, is_write, xfer_be,
  refresh_cnt, row_open, open_row,
  cmd,                 \* the registered command with its address, mask, data
  rdata, ready,
  chip,                \* the chip: its array, its open row, its read pipeline
  sinceRefresh         \* history: clocks since the chip was last refreshed

ctlVars == <<state, next_after_wait, delay, is_write, xfer_be, refresh_cnt,
             row_open, open_row, cmd, rdata, ready, chip, sinceRefresh>>

Nop == [op |-> "NOP"]
-----------------------------------------------------------------------------
(* The chip (sim/sdram_model.sv is the repository's own model of it).      *)

merge(old, new, be) == [l \in Lanes |-> IF l \in be THEN new[l] ELSE old[l]]

(* What the array holds once command c has reached it.                     *)
arrayAfter(c) ==
  IF c.op = "WRITE" /\ chip.row # NoRow
    THEN [chip.array EXCEPT ![chip.row][c.col] = merge(@, c.data, c.be)]
    ELSE chip.array

rowAfter(c) == CASE c.op = "ACTIVE"    -> c.row
                 [] c.op = "PRECHARGE" -> NoRow
                 [] OTHER              -> chip.row

(* A read leaves the pipeline CAS_LATENCY chip clocks after it entered.    *)
pipeAfter(c) ==
  Append(Tail(chip.pipe),
         IF c.op = "READ" /\ chip.row # NoRow
           THEN chip.array[chip.row][c.col] ELSE NoWord)

dqNext == Head(chip.pipe)

ChipClock ==
  /\ chip' = [array |-> arrayAfter(cmd), row |-> rowAfter(cmd),
              pipe |-> pipeAfter(cmd), set |-> chip.set \/ cmd.op = "MRS"]
  /\ sinceRefresh' = IF cmd.op = "REFRESH" THEN 0
                     ELSE IF sinceRefresh > TREFI THEN sinceRefresh
                                                  ELSE sinceRefresh + 1
-----------------------------------------------------------------------------
Init ==
  /\ state = "S_WAIT" /\ next_after_wait = "S_INIT_PRE"
  /\ delay = INIT_CYCLES
  /\ cmd = Nop
  /\ rdata = [l \in Lanes |-> CHOOSE v \in Vals : TRUE] /\ ready = FALSE
  /\ xfer_be = Lanes /\ is_write = FALSE
  /\ refresh_cnt = 0
  /\ row_open = FALSE /\ open_row = CHOOSE r \in Rows : TRUE
  /\ chip = [array |-> [r \in Rows |-> [c \in Cols |-> rdata]], row |-> NoRow,
             pipe |-> [i \in 1 .. CAS_LATENCY |-> NoWord], set |-> FALSE]
  /\ sinceRefresh = 0

refresh_due     == refresh_cnt >= REFRESH_CYCLES

page_hitIgnoringRow(r) == row_open
page_hit(r)     == row_open /\ r.row = open_row

(* Lines 204-211, common to every state: the command and `ready' fall back *)
(* to nothing, the refresh counter runs up to its limit and holds.         *)

TickOnlyWhenIdle(from) ==
  /\ state = from
  /\ ChipClock
  /\ refresh_cnt' = IF refresh_due \/ from # "S_IDLE" THEN refresh_cnt
                                                      ELSE refresh_cnt + 1

Tick(from) ==
  /\ state = from
  /\ ChipClock
  /\ refresh_cnt' = IF refresh_due THEN refresh_cnt ELSE refresh_cnt + 1

Quiet == cmd' = Nop /\ ready' = FALSE /\ UNCHANGED rdata

waitThen(n, then) ==
  state' = "S_WAIT" /\ delay' = n /\ next_after_wait' = then

goto(s) == state' = s /\ UNCHANGED <<delay, next_after_wait>>

access == <<is_write, xfer_be>>
page   == <<row_open, open_row>>

(* Lines 215-218 and 337-340: count a delay down, then go on.              *)
Countdown(then) ==
  IF delay = 0 THEN goto(then)
  ELSE delay' = delay - 1 /\ UNCHANGED <<state, next_after_wait>>

Wait ==
  Tick("S_WAIT") /\ Quiet /\ Countdown(next_after_wait) /\ UNCHANGED <<access, page>>

(* Power-up, lines 221-249.                                                *)
InitPre ==
  /\ Tick("S_INIT_PRE") /\ UNCHANGED <<access, page, rdata>>
  /\ cmd' = [op |-> "PRECHARGE"] /\ ready' = FALSE
  /\ waitThen(4, "S_INIT_R1")

InitRefresh(from, then) ==
  /\ Tick(from) /\ UNCHANGED <<access, page, rdata>>
  /\ cmd' = [op |-> "REFRESH"] /\ ready' = FALSE
  /\ waitThen(8, then)

InitMrs ==
  /\ Tick("S_INIT_MRS") /\ UNCHANGED <<access, page, rdata>>
  /\ cmd' = [op |-> "MRS"] /\ ready' = FALSE
  /\ waitThen(4, "S_IDLE")

(* Closing the open row costs a PRECHARGE and tRP (lines 258-264, 274-280).*)
CloseRowThen(then) ==
  /\ cmd' = [op |-> "PRECHARGE"] /\ ready' = FALSE /\ UNCHANGED rdata
  /\ row_open' = FALSE /\ UNCHANGED open_row
  /\ waitThen(1, then)

IdleRefreshRowLeftOpen ==
  Tick("S_IDLE") /\ refresh_due /\ Quiet /\ goto("S_REFRESH") /\ UNCHANGED <<access, page>>

(* S_IDLE with a refresh due: it outranks any request.                     *)
IdleRefresh ==
  /\ Tick("S_IDLE") /\ refresh_due /\ UNCHANGED access
  /\ \/ row_open  /\ CloseRowThen("S_REFRESH")
     \/ ~row_open /\ Quiet /\ goto("S_REFRESH") /\ UNCHANGED page

(* S_IDLE with a request: latch its kind and lanes, then take the shortest *)
(* way to its row.                                                         *)
IdleAccept(r) ==
  /\ Tick("S_IDLE") /\ ~refresh_due /\ r.kind # "none"
  /\ is_write' = (r.kind = "wr") /\ xfer_be' = r.be
  /\ \/ /\ page_hit(r) /\ Quiet /\ UNCHANGED page
        /\ goto(IF r.kind = "wr" THEN "S_WRITE" ELSE "S_READ")
     \/ row_open /\ ~page_hit(r) /\ CloseRowThen("S_ACTIVE")
     \/ ~row_open /\ Quiet /\ goto("S_ACTIVE") /\ UNCHANGED page

IdleNone(r) ==
  /\ Tick("S_IDLE") /\ ~refresh_due /\ r.kind = "none"
  /\ Quiet /\ goto("S_IDLE") /\ UNCHANGED <<access, page>>

(* The row and column are taken from the address lines as they stand now,  *)
(* not from a copy made when the request was accepted.                     *)
Activate(r) ==
  /\ Tick("S_ACTIVE") /\ UNCHANGED <<access, rdata, next_after_wait>>
  /\ cmd' = [op |-> "ACTIVE", row |-> r.row] /\ ready' = FALSE
  /\ row_open' = TRUE /\ open_row' = r.row
  /\ state' = "S_RCD" /\ delay' = 1

Rcd ==
  /\ Tick("S_RCD") /\ Quiet /\ UNCHANGED <<access, page>>
  /\ Countdown(IF is_write THEN "S_WRITE" ELSE "S_READ")

Read(r) ==
  /\ Tick("S_READ") /\ UNCHANGED <<access, page, rdata, next_after_wait>>
  /\ cmd' = [op |-> "READ", col |-> r.col] /\ ready' = FALSE
  /\ state' = "S_READ_W" /\ delay' = CAS_LATENCY

ReadWait ==
  /\ Tick("S_READ_W") /\ cmd' = Nop /\ UNCHANGED <<access, page, next_after_wait>>
  /\ IF delay = 0
       THEN rdata' = dqNext /\ ready' = TRUE /\ state' = "S_RECOVER" /\ delay' = 0
       ELSE delay' = delay - 1 /\ ready' = FALSE /\ UNCHANGED <<rdata, state>>

Write(r) ==
  /\ Tick("S_WRITE") /\ UNCHANGED <<access, page, rdata, next_after_wait>>
  /\ cmd' = [op |-> "WRITE", col |-> r.col, data |-> r.data, be |-> xfer_be]
  /\ ready' = TRUE
  /\ state' = "S_RECOVER" /\ delay' = 0

Recover ==
  Tick("S_RECOVER") /\ Quiet /\ Countdown("S_IDLE") /\ UNCHANGED <<access, page>>

RefreshCounterKept ==
  /\ Tick("S_REFRESH") /\ UNCHANGED <<access, page, rdata>>
  /\ cmd' = [op |-> "REFRESH"] /\ ready' = FALSE
  /\ waitThen(8, "S_IDLE")

Refresh ==
  /\ state = "S_REFRESH" /\ ChipClock /\ UNCHANGED <<access, page, rdata>>
  /\ cmd' = [op |-> "REFRESH"] /\ ready' = FALSE
  /\ refresh_cnt' = 0
  /\ waitThen(8, "S_IDLE")

CtlClock(r) ==
  \/ Wait \/ InitPre \/ InitMrs
  \/ InitRefresh("S_INIT_R1", "S_INIT_R2")
  \/ InitRefresh("S_INIT_R2", "S_INIT_MRS")
  \/ IdleRefresh \/ IdleAccept(r) \/ IdleNone(r)
  \/ Activate(r) \/ Rcd \/ Read(r) \/ ReadWait \/ Write(r) \/ Recover
  \/ Refresh
-----------------------------------------------------------------------------
(* The chip's protocol, as sim/sdram_model.sv lines 109-147 polices it: no *)
(* column command without an open row or before the mode register is set,  *)
(* no ACTIVE on an open bank, no REFRESH with a row open.                  *)
ChipProtocol ==
  /\ cmd.op \in {"READ", "WRITE"} => chip.row # NoRow /\ chip.set
  /\ cmd.op \in {"ACTIVE", "REFRESH", "MRS"} => chip.row = NoRow

(* Refresh is a deadline (lines 50-53, 61-67): once the part is running it *)
(* is refreshed every TREFI clocks however busy the port is.               *)
RefreshDeadline == chip.set => sinceRefresh <= TREFI
=============================================================================
