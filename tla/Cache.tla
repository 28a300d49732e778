------------------------------- MODULE Cache -------------------------------
(***************************************************************************)
(* src/modules/cache.sv between the CPU's bus unit and the shared memory.  *)
(*                                                                         *)
(* One step is one clock edge, taken by everybody: the bus unit (BusClock, *)
(* biu.sv's T-states as the cache sees them), the cache, the memory behind *)
(* the arbiter (SharedMemory, which SdramSystem is checked to implement)   *)
(* and another master writing low memory (ExtClock).                       *)
(*                                                                         *)
(* PREFETCH is 0 in the design (line 89, memory_controller.sv:178), so the *)
(* next-line prefetch is left out.  The way replaced in a full set is any  *)
(* way here; in the code a pseudo-LRU tree picks it.                       *)
(***************************************************************************)
EXTENDS Integers, Sequences, FiniteSets

CONSTANTS
  Tags, Sets,          \* an address is a tag, a set and an offset
  LINE_WORDS, WAYS,
  WBUF_DEPTH,
  Lanes, Vals,         \* byte lanes and the values a byte may take
  ExtTags              \* the low memory another master writes

ASSUME CacheAssumptions ==
  /\ {LINE_WORDS, WAYS, WBUF_DEPTH} \subseteq Nat \ {0}
  /\ Tags # {} /\ Sets # {} /\ Vals # {}
  /\ ExtTags \subseteq Tags

Offs  == 0 .. LINE_WORDS - 1
Ways  == 1 .. WAYS
Addrs == [tag : Tags, set : Sets, off : Offs]
Words == [Lanes -> Vals]

anAddr == CHOOSE a \in Addrs : TRUE
aWord  == CHOOSE w \in Words : TRUE

(* The registers of a fill outside S_FILL, where nothing reads them, and the*)
(* bus between cycles, where no strobe is up: both are given one value.    *)
NoFill == [tag |-> anAddr.tag, set |-> anAddr.set, way |-> 1, off |-> 0, cnt |-> 0,
           poison |-> FALSE]
Passive(t) == [t |-> t, kind |-> "rd", addr |-> anAddr, be |-> Lanes, data |-> aWord]

VARIABLES
  bus,                 \* the CPU's bus cycle: T-state, kind, address, data
  ext,                 \* the other master's request, as SharedMemory has it
  array, done, answer, \* the memory
  tags, valid, dat,    \* the cache: arrays and valid flops
  r,                   \* the registered lookup
  arr_wr_d,
  state, f, gap,       \* f: the fill's registers f_set .. f_poison
  wb,                  \* the write buffer, oldest first
  hit_ack, hold,
  seen                 \* history, see ReadsAreFresh

cacheVars == <<tags, valid, dat, r, arr_wr_d, state, f, gap, wb, hit_ack, hold>>
memVars   == <<array, done, answer>>
vars      == <<bus, ext, memVars, cacheVars, seen>>
-----------------------------------------------------------------------------
(* The combinational signals.                                              *)

merge(old, new, be) == [l \in Lanes |-> IF l \in be THEN new[l] ELSE old[l]]
lineOf(a)           == <<a.tag, a.set>>

c_rd  == bus.t \in {"T2", "T3"} /\ bus.kind = "rd"
c_wr  == bus.t \in {"T2", "T3"} /\ bus.kind = "wr"

m_ready == answer.kind # "none" /\ answer.port = "cache"
m_rdata == answer.data

snoop_flush == ext.kind = "wr"

lu_ok       == ~arr_wr_d

way_hit(w) == valid[r.addr.set][w] /\ r.tags[w] = r.addr.tag
hit_anyNotFirst == \E w \in Ways \ {1} : way_hit(w)
hit_any    == \E w \in Ways : way_hit(w)
hit_way    == CHOOSE w \in Ways : way_hit(w)
hit_data   == r.data[hit_way]

(* An invalid way first, otherwise whichever way the tree points at.       *)
victims ==
  LET free == {w \in Ways : ~valid[r.addr.set][w]} IN
  IF free # {} THEN {w \in free : \A v \in free : w <= v} ELSE Ways

wb_full  == Len(wb) = WBUF_DEPTH
wb_empty == wb = <<>>

wb_hazardSameWord == \E q \in 1 .. Len(wb) : wb[q].addr = bus.addr
wb_hazard == \E q \in 1 .. Len(wb) : lineOf(wb[q].addr) = lineOf(bus.addr)

hit_now  == state = "S_IDLE" /\ lu_ok /\ c_rd /\ hit_any
miss_now == state = "S_IDLE" /\ lu_ok /\ c_rd /\ ~hit_any /\ ~wb_hazard
wr_now   == state = "S_IDLE" /\ lu_ok /\ c_wr
wb_push  == wr_now /\ ~wb_full
wb_pop   == state = "S_WRITE" /\ m_ready

fill_word == state = "S_FILL" /\ m_ready
fill_ack  == fill_word /\ f.cnt = 0
fill_last == fill_word /\ f.cnt = LINE_WORDS - 1

c_rdata == IF fill_ack THEN m_rdata ELSE hold
c_readyUntrustedLookup == hit_ack \/ fill_ack \/ (state = "S_IDLE" /\ c_wr)
c_ready == hit_ack \/ fill_ack \/ wb_push

(* The request lines to the arbiter, m_rd/m_wr and what goes with them.    *)
m_requestNoGap ==
  CASE state = "S_FILL" ->
         [kind |-> "rd", addr |-> [tag |-> f.tag, set |-> f.set, off |-> f.off],
          be |-> Lanes, data |-> aWord]
    [] state = "S_WRITE" ->
         [kind |-> "wr", addr |-> Head(wb).addr, be |-> Head(wb).be,
          data |-> Head(wb).data]
    [] OTHER -> [kind |-> "none"]

m_request == IF gap THEN [kind |-> "none"] ELSE
  CASE state = "S_FILL" ->
         [kind |-> "rd", addr |-> [tag |-> f.tag, set |-> f.set, off |-> f.off],
          be |-> Lanes, data |-> aWord]
    [] state = "S_WRITE" ->
         [kind |-> "wr", addr |-> Head(wb).addr, be |-> Head(wb).be,
          data |-> Head(wb).data]
    [] OTHER -> [kind |-> "none"]

Memory == INSTANCE SharedMemory WITH
  Ports   <- {"cache", "ext"},
  request <- [p \in {"cache", "ext"} |-> IF p = "cache" THEN m_request ELSE ext]
-----------------------------------------------------------------------------
Init ==
  /\ bus = Passive("idle")
  /\ ext = Memory!NoRequest
  /\ array = [a \in Addrs |-> aWord]
  /\ done = [p \in {"cache", "ext"} |-> FALSE] /\ answer = Memory!NoAnswer
  /\ tags = [s \in Sets |-> [w \in Ways |-> anAddr.tag]]
  /\ valid = [s \in Sets |-> [w \in Ways |-> FALSE]]
  /\ dat = [w \in Ways |-> [s \in Sets |-> [o \in Offs |-> aWord]]]
  /\ r = [addr |-> anAddr, tags |-> tags[anAddr.set], data |-> [w \in Ways |-> aWord]]
  /\ arr_wr_d = FALSE /\ gap = FALSE
  /\ state = "S_IDLE" /\ wb = <<>>
  /\ f = NoFill
  /\ hit_ack = FALSE /\ hold = aWord
  /\ seen = {}

(* biu.sv as the cache sees it: the address in T1, the strobe in T2 and T3,*)
(* READY sampled in T3 only.                                               *)
BusStart ==
  /\ bus.t = "idle"
  /\ \E a \in Addrs :
       \/ bus' = [t |-> "T1", kind |-> "rd", addr |-> a, be |-> Lanes, data |-> aWord]
       \/ \E be \in (SUBSET Lanes) \ {{}}, d \in [Lanes -> Vals] :
            /\ \A l \in Lanes \ be : d[l] = aWord[l]
            /\ bus' = [t |-> "T1", kind |-> "wr", addr |-> a, be |-> be, data |-> d]

(* jtag_loader's cpu_hold resets the CPU in whatever it is doing; the cache*)
(* goes on.  A hold is many JTAG clocks long and the CPU then starts in    *)
(* ROM, so its next RAM access finds no fill of the old one running: the   *)
(* guard of BusRelease.  (cache.sv itself would answer it with that fill.) *)
BusReset   == bus' = Passive("reset")
BusRelease == bus.t = "reset" /\ state # "S_FILL" /\ bus' = [bus EXCEPT !.t = "idle"]

BusClock ==
  \/ bus.t = "idle" /\ UNCHANGED bus
  \/ BusStart
  \/ bus.t = "T1" /\ bus' = [bus EXCEPT !.t = "T2"]
  \/ bus.t = "T2" /\ bus' = [bus EXCEPT !.t = "T3"]
  \/ bus.t = "T3" /\ ~c_ready /\ UNCHANGED bus
  \/ bus.t = "T3" /\ c_ready /\ bus' = Passive("T4")
  \/ bus.t = "T4" /\ bus' = [bus EXCEPT !.t = "idle"]
  \/ BusReset \/ BusRelease

(* Another master below 1 MB: holds its write until it is answered.        *)
ExtClock ==
  \/ /\ ext.kind = "none"
     /\ \/ UNCHANGED ext
        \/ \E a \in {b \in Addrs : b.tag \in ExtTags}, d \in Words :
             ext' = [kind |-> "wr", addr |-> a, be |-> Lanes, data |-> d]
  \/ ext.kind = "wr" /\ ext' = IF answer.kind # "none" /\ answer.port = "ext"
                                 THEN Memory!NoRequest ELSE ext

(* The lookup is launched every cycle from the address lines (171-189).    *)
LookupClock ==
  r' = [addr |-> bus.addr, tags |-> tags[bus.addr.set],
        data |-> [w \in Ways |-> dat[w][bus.addr.set][bus.addr.off]]]

(* The data arrays' one write port (442-484): a filled word, or a store    *)
(* that hits, in the cycle it is queued.                                   *)
DataClock ==
  /\ arr_wr_d' = (fill_word \/ (wb_push /\ hit_any))
  /\ dat' = IF fill_word
              THEN [dat EXCEPT ![f.way][f.set][f.off] = m_rdata]
            ELSE IF wb_push /\ hit_any
              THEN [dat EXCEPT ![hit_way][r.addr.set][r.addr.off] =
                                 merge(@, bus.data, bus.be)]
            ELSE dat

(* Tags and valid flops (479-481, 494-513): cleared by a snoop, cleared as *)
(* a fill starts, set as it ends unless a snoop came by meanwhile.         *)
invalidated == [s \in Sets |-> [w \in Ways |-> FALSE]]
installs == fill_last /\ ~f.poison /\ ~snoop_flush

ValidClock(victim) ==
  valid' = CASE snoop_flush -> invalidated
             [] miss_now /\ ~snoop_flush -> [valid EXCEPT ![r.addr.set][victim] = FALSE]
             [] installs    -> [valid EXCEPT ![f.set][f.way] = TRUE]
             [] OTHER       -> valid

TagClock == tags' = IF installs THEN [tags EXCEPT ![f.set][f.way] = f.tag] ELSE tags

QueueClock ==
  LET rest == IF wb_pop THEN Tail(wb) ELSE wb IN
  wb' = IF wb_push
          THEN Append(rest, [addr |-> bus.addr, data |-> bus.data, be |-> bus.be])
          ELSE rest

AckClockGapSticky ==
  /\ hit_ack' = hit_now
  /\ hold' = CASE hit_now -> hit_data [] fill_ack -> m_rdata [] OTHER -> hold
  /\ gap' = (gap \/ m_ready)

AckClock ==
  /\ hit_ack' = hit_now
  /\ hold' = CASE hit_now -> hit_data [] fill_ack -> m_rdata [] OTHER -> hold
  /\ gap' = m_ready
-----------------------------------------------------------------------------
(* The state machine, lines 554-637.                                       *)

(* Critical word first: the fill starts at the word asked for.             *)
StartFill(victim) ==
  /\ miss_now
  /\ f' = [tag |-> r.addr.tag, set |-> r.addr.set, way |-> victim,
           off |-> r.addr.off, cnt |-> 0, poison |-> snoop_flush]
  /\ state' = "S_FILL"

(* The queue drains when the port would be idle, or when it stands in the  *)
(* way of a fill.                                                          *)
drains == ~wb_empty /\ (wb_hazard \/ ~c_rd \/ ~lu_ok)

StartDrain ==
  state = "S_IDLE" /\ ~miss_now /\ drains /\ state' = "S_WRITE" /\ UNCHANGED f

StayIdle ==
  state = "S_IDLE" /\ ~miss_now /\ ~drains /\ UNCHANGED <<state, f>>

FillWaitNoPoison == state = "S_FILL" /\ ~m_ready /\ UNCHANGED <<state, f>>

FillWait ==
  /\ state = "S_FILL" /\ ~m_ready
  /\ f' = [f EXCEPT !.poison = @ \/ snoop_flush] /\ UNCHANGED state

FillWord ==
  /\ fill_word
  /\ f' = IF fill_last THEN NoFill
           ELSE [f EXCEPT !.off = (@ + 1) % LINE_WORDS, !.cnt = @ + 1,
                          !.poison = @ \/ snoop_flush]
  /\ state' = IF fill_last THEN "S_IDLE" ELSE "S_FILL"

Drain ==
  /\ state = "S_WRITE" /\ UNCHANGED f
  /\ state' = IF m_ready THEN "S_IDLE" ELSE "S_WRITE"

CacheClock ==
  \E victim \in victims :
    /\ \/ StartFill(victim) \/ StartDrain \/ StayIdle
       \/ FillWait \/ FillWord \/ Drain
    /\ ValidClock(victim)
    /\ LookupClock /\ DataClock /\ TagClock /\ QueueClock /\ AckClock
-----------------------------------------------------------------------------
(* The memory as the CPU's program sees it: what the array will hold once  *)
(* the queue has drained.                                                  *)
queued(a, l) == {q \in 1 .. Len(wb) : wb[q].addr = a /\ l \in wb[q].be}
latest(S)    == CHOOSE q \in S : \A p \in S : p <= q

view == [a \in Addrs |-> [l \in Lanes |->
           IF queued(a, l) = {} THEN array[a][l] ELSE wb[latest(queued(a, l))].data[l]]]

History ==
  seen' = IF bus'.t \in {"T2", "T3"} /\ bus'.kind = "rd"
            THEN (IF bus.t = "T1" THEN {} ELSE seen) \cup {view'[bus'.addr]}
            ELSE {}

Edge(MemoryStep) ==
  CacheClock /\ BusClock /\ ExtClock /\ MemoryStep /\ History

Next == \/ Edge(Memory!PerformNone)
        \/ Edge(Memory!Perform("cache"))
        \/ Edge(Memory!Perform("ext"))

Spec == Init /\ [][Next]_vars

(* The memory answers every request in the end (SdramSystem's              *)
(* EveryRequestAnswered) and the clock does not stop.                      *)
FairSpec ==
  Spec /\ WF_vars(Next) /\ WF_vars(Edge(Memory!Perform("cache")))
-----------------------------------------------------------------------------
(* "No valid way already holds that tag" (lines 205-207): the one-hot      *)
(* selects of the lookup depend on it.                                     *)
OneWayPerTag ==
  \A s \in Sets, w, v \in Ways :
    valid[s][w] /\ valid[s][v] /\ tags[s][w] = tags[s][v] => w = v

(* A valid line is exactly what the program has stored: the memory with    *)
(* the queued writes on top of it (lines 317-342, 446-450), whatever the   *)
(* other masters do (lines 37-55).                                         *)
Coherent ==
  \A s \in Sets, w \in Ways, o \in Offs :
    valid[s][w] => dat[w][s][o] = view[[tag |-> tags[s][w], set |-> s, off |-> o]]

(* What a read brings the CPU in T3 is a value the word had, for the       *)
(* program, at some time since the read was shown in T2.                   *)
ReadsAreFresh ==
  bus.t = "T3" /\ bus.kind = "rd" /\ c_ready => c_rdata \in seen

(* The program's memory changes only where and when somebody stores, so    *)
(* that drains, fills and evictions move nothing and no queued write is    *)
(* lost, late or reordered, nor pushed into a queue that is full; and a    *)
(* store the CPU sees finished has landed.                                 *)
StoresLand ==
  [][ /\ Len(wb') <= WBUF_DEPTH
      /\ \A a \in Addrs, l \in Lanes : view'[a][l] # view[a][l] =>
           \/ wb_push /\ a = bus.addr /\ l \in bus.be
           \/ ext.kind = "wr" /\ a = ext.addr
      /\ bus.kind = "wr" /\ bus'.t = "T4" =>
           \A l \in bus.be : view'[bus.addr][l] = bus.data[l] ]_vars

(* The arbiter's contract (sdram_arbiter.sv:31-37, cache.sv:403-405): a    *)
(* request stands unchanged until it is answered, then is dropped for a    *)
(* clock before the next one.                                              *)
KeepsPortContract == [][Memory!PortsMove]_vars

(* Nothing the cache does makes an access wait for ever.                   *)
AccessesFinish == (bus.t = "T3") ~> (bus.t # "T3")
=============================================================================
