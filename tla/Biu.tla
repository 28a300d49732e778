-------------------------------- MODULE Biu --------------------------------
(***************************************************************************)
(* src/modules/biu.sv with the prefetch_queue inside it: every bus cycle   *)
(* the CPU runs, T-state by T-state, one action per state and arbitration  *)
(* outcome, each one clock edge.                                           *)
(*                                                                         *)
(* The actions take the module's inputs as they stand before the edge: the *)
(* request lines q, hold_req, the redirect [on, addr], the number of bytes *)
(* popped, READY and the data lines.  CpuBus supplies them.                *)
(*                                                                         *)
(* A word is a pair <<low byte, high byte>>.  The queue holds, for each    *)
(* byte, the address it came from: which byte it is, not what it says.     *)
(* I/O and memory cycles differ only in a status line and are one here.    *)
(***************************************************************************)
EXTENDS Integers, Sequences

CONSTANTS
  SPACE,               \* size of the address space (2^20); addresses wrap
  Vals                 \* the values of a byte, zero among them

ASSUME BiuAssumptions ==
  /\ SPACE \in Nat \ {0} /\ SPACE % 2 = 0
  /\ 0 \in Vals

Addrs == 0 .. SPACE - 1
Words == Vals \X Vals
plus(a, n) == (a + n) % SPACE
even(a)    == a - (a % 2)

DEPTH == 6             \* prefetch_queue.sv:60

VARIABLES
  t,                   \* state: the T-state
  cur,                 \* cur_fetch, cur_wr, cur_addr, cur_bhe, cur_a0, cur_dout,
                       \* cur_fetch_odd
  fetch_ptr, split_second, split_active, split_lo,
  req_taken, rdata_r, done_r,
  xfer,                \* xfer_word, xfer_wdata
  fetch_discard,
  pq                   \* the prefetch queue, head first

split   == <<split_second, split_active>>
biuVars == <<t, cur, fetch_ptr, split, split_lo, req_taken, rdata_r, done_r,
             xfer, fetch_discard, pq>>

BiuInit ==
  /\ t = "IDLE"
  /\ cur = [fetch |-> FALSE, wr |-> FALSE, addr |-> 0, bhe |-> 1, a0 |-> 0,
            dout |-> <<0, 0>>, odd |-> FALSE]
  /\ split_second = FALSE /\ split_active = FALSE /\ split_lo = 0
  /\ req_taken = FALSE /\ rdata_r = <<0, 0>> /\ done_r = FALSE
  /\ xfer = [word |-> FALSE, wdata |-> <<0, 0>>]
  /\ fetch_discard = FALSE /\ pq = <<>>

bus_idle == t = "IDLE" /\ ~split_active
rd == t \in {"T2", "T3"} /\ ~cur.wr
wr == t \in {"T2", "T3"} /\ cur.wr

(* The two lanes a cycle enables: BHE is active low, A0 = 0 is the low one.*)
lowLane  == cur.a0 = 0
highLane == cur.bhe = 0
-----------------------------------------------------------------------------
(* The prefetch queue (prefetch_queue.sv:66-137).  A flush wins over a fill*)
(* or a pop; a pop takes no more than there is.                            *)
do_pop(pop)     == IF pop > Len(pq) THEN Len(pq) ELSE pop
space_available == Len(pq) <= 4

pq_write_enUnmarked(redirect, ready) ==
  t = "T3" /\ ready /\ cur.fetch /\ ~redirect.on

pq_write_en(redirect, ready) ==
  t = "T3" /\ ready /\ cur.fetch /\ ~redirect.on /\ ~fetch_discard

fetched == IF cur.odd THEN <<cur.addr + 1>> ELSE <<cur.addr, cur.addr + 1>>

QueueClock(redirect, pop, ready) ==
  pq' = IF redirect.on THEN <<>>
        ELSE SubSeq(pq, do_pop(pop) + 1, Len(pq))
               \o IF pq_write_en(redirect, ready) THEN fetched ELSE <<>>

(* The fetch pointer: reloaded by a redirect, moved on by what is kept.    *)
FetchClock(redirect, ready) ==
  /\ fetch_ptr' = CASE redirect.on -> redirect.addr
                    [] pq_write_en(redirect, ready) ->
                         plus(fetch_ptr, Len(fetched))
                    [] OTHER -> fetch_ptr
  /\ fetch_discard' = CASE redirect.on /\ cur.fetch /\ t \notin {"IDLE", "T4"} -> TRUE
                        [] t = "T4" -> FALSE
                        [] OTHER -> fetch_discard
-----------------------------------------------------------------------------
(* Arbitration, lines 163-168.                                             *)
start_split(q, hold) == split_active

start_data(q, hold) == ~start_split(q, hold) /\ q.on /\ ~req_taken /\ ~hold

start_fetch(q, hold, redirect) ==
  /\ ~start_split(q, hold) /\ ~(q.on /\ ~req_taken)
  /\ space_available /\ ~redirect.on /\ ~hold

TakenClockSticky(q, hold) ==
  req_taken' = (req_taken \/ (t = "IDLE" /\ start_data(q, hold)))

TakenClock(q, hold) ==
  req_taken' = ((t = "IDLE" /\ start_data(q, hold)) \/ (q.on /\ req_taken))

(* Lines 257-267: the second half of an odd word, low lane, next address.  *)
StartSplit(q, hold) ==
  /\ t = "IDLE" /\ start_split(q, hold)
  /\ cur' = [cur EXCEPT !.fetch = FALSE, !.odd = FALSE, !.addr = plus(@, 1),
                        !.bhe = 1, !.a0 = 0, !.dout = <<xfer.wdata[2], 0>>]
  /\ split_second' = TRUE /\ split_active' = FALSE
  /\ t' = "T1" /\ UNCHANGED xfer

(* Lines 268-297: a byte goes out on the lane its address selects, a word  *)
(* at an odd address low byte first on the high lane.                      *)
StartDataUnsplit(q, hold) ==
  LET odd == q.addr % 2 = 1 IN
  /\ t = "IDLE" /\ start_data(q, hold)
  /\ cur' = [fetch |-> FALSE, odd |-> FALSE, wr |-> q.wr, addr |-> q.addr,
             bhe |-> IF q.word \/ odd THEN 0 ELSE 1,
             a0 |-> IF odd THEN 1 ELSE 0,
             dout |-> IF odd THEN <<0, q.data[1]>> ELSE q.data]
  /\ split_second' = FALSE /\ split_active' = FALSE
  /\ xfer' = [word |-> q.word, wdata |-> q.data]
  /\ t' = "T1"

StartDataBothLanes(q, hold) ==
  LET odd == q.addr % 2 = 1 IN
  /\ t = "IDLE" /\ start_data(q, hold)
  /\ cur' = [fetch |-> FALSE, odd |-> FALSE, wr |-> q.wr, addr |-> q.addr,
             bhe |-> 0, a0 |-> IF odd THEN 1 ELSE 0,
             dout |-> IF odd THEN <<0, q.data[1]>> ELSE q.data]
  /\ split_second' = FALSE /\ split_active' = (q.word /\ odd)
  /\ xfer' = [word |-> q.word, wdata |-> q.data]
  /\ t' = "T1"

StartData(q, hold) ==
  LET odd == q.addr % 2 = 1 IN
  /\ t = "IDLE" /\ start_data(q, hold)
  /\ cur' = [fetch |-> FALSE, odd |-> FALSE, wr |-> q.wr, addr |-> q.addr,
             bhe |-> IF q.word \/ odd THEN 0 ELSE 1,
             a0 |-> IF odd THEN 1 ELSE 0,
             dout |-> CASE odd             -> <<0, q.data[1]>>
                        [] ~odd /\ q.word  -> q.data
                        [] ~odd /\ ~q.word -> <<q.data[1], 0>>]
  /\ split_second' = FALSE /\ split_active' = (q.word /\ odd)
  /\ xfer' = [word |-> q.word, wdata |-> q.data]
  /\ t' = "T1"

(* Lines 298-309: always the aligned word that holds fetch_ptr.            *)
StartFetch(q, hold, redirect) ==
  /\ t = "IDLE" /\ start_fetch(q, hold, redirect)
  /\ cur' = [fetch |-> TRUE, wr |-> FALSE, addr |-> even(fetch_ptr), bhe |-> 0,
             a0 |-> 0, dout |-> cur.dout, odd |-> fetch_ptr % 2 = 1]
  /\ split_second' = FALSE /\ UNCHANGED <<split_active, xfer>>
  /\ t' = "T1"

StayIdle(q, hold, redirect) ==
  /\ t = "IDLE"
  /\ ~start_split(q, hold) /\ ~start_data(q, hold) /\ ~start_fetch(q, hold, redirect)
  /\ UNCHANGED <<t, cur, split, xfer>>

Advance(from, to) == t = from /\ t' = to /\ UNCHANGED <<cur, split, xfer>>

(* Bytes as the bus gives them, put together (lines 210-215).              *)
assembled(din) ==
  CASE split_second                 -> <<split_lo, din[1]>>
    [] ~split_second /\ ~xfer.word  -> <<IF cur.a0 = 1 THEN din[2] ELSE din[1], 0>>
    [] ~split_second /\ xfer.word   -> din

DataClock(ready, din) ==
  IF t = "T3" /\ ready /\ ~cur.fetch /\ ~cur.wr
    THEN IF split_active THEN split_lo' = din[2] /\ UNCHANGED rdata_r
                         ELSE rdata_r' = assembled(din) /\ UNCHANGED split_lo
    ELSE UNCHANGED <<split_lo, rdata_r>>

DoneClock == done_r' = (t = "T4" /\ ~cur.fetch /\ ~split_active)

BiuClock(q, hold, redirect, pop, ready, din) ==
  /\ \/ StartSplit(q, hold) \/ StartData(q, hold) \/ StartFetch(q, hold, redirect)
     \/ StayIdle(q, hold, redirect)
     \/ Advance("T1", "T2") \/ Advance("T2", "T3")
     \/ ~ready /\ Advance("T3", "T3")
     \/ ready /\ Advance("T3", "T4")
     \/ Advance("T4", "IDLE")
  /\ QueueClock(redirect, pop, ready) /\ FetchClock(redirect, ready)
  /\ TakenClock(q, hold) /\ DataClock(ready, din) /\ DoneClock
=============================================================================
