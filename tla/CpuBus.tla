------------------------------ MODULE CpuBus -------------------------------
(***************************************************************************)
(* cpu_top.sv's bus: the execution unit and the DMA unit sharing the BIU.  *)
(* One step is one clock edge, taken by all of them and by the memory.     *)
(*                                                                         *)
(* The execution unit is what the BIU sees of execUnit.sv: it consumes the *)
(* instruction stream, redirects it, and holds a data request until it is  *)
(* done.  The DMA unit is its transfer engine (dma.sv:202-245); which      *)
(* channel runs, from where to where, is left open here.                   *)
(***************************************************************************)
EXTENDS Biu

CONSTANTS
  Redirects,           \* where the execution unit may send the fetch pointer
  Pops,                \* how many bytes it may take at once
  DataAddrs,           \* what data requests and DMA transfers touch
  NESTED_ENTER,        \* TRUE: the program may use ENTER with two levels or more
  DMA                  \* "off"; "sync": DRQ comes and goes; "unsync": the
                       \* channel runs without one

ASSUME CpuBusAssumptions ==
  /\ Redirects \subseteq Addrs /\ DataAddrs \subseteq Addrs /\ Pops \subseteq Nat
  /\ NESTED_ENTER \in BOOLEAN /\ DMA \in {"off", "sync", "unsync"}

VARIABLES
  eu,                  \* the EU's request lines
  ip,                  \* the address of the next byte the EU will consume
  dma,                 \* the engine: state, source, destination, width, data_r
  dma_owns, dma_owns_d,
  mem                  \* what the bus reaches, by byte

vars == <<biuVars, eu, ip, dma, dma_owns, dma_owns_d, mem>>

NoRequest == [on |-> FALSE, wr |-> FALSE, word |-> FALSE, addr |-> 0, data |-> <<0, 0>>]
reads(a, word)     == [NoRequest EXCEPT !.on = TRUE, !.word = word, !.addr = a]
writes(a, word, d) == [on |-> TRUE, wr |-> TRUE, word |-> word, addr |-> a, data |-> d]
-----------------------------------------------------------------------------
(* Arbitration between the two (cpu_top.sv:145-190).                       *)
bus_hold == dma.st \in {"S_FETCH", "S_GAP", "S_DEPOSIT"}
bus_req  == dma.st \in {"S_FETCH", "S_DEPOSIT"}

arb_gapNever == FALSE
arb_gap      == dma_owns # dma_owns_d

biu_hold_req == bus_hold /\ ~(dma_owns /\ bus_req)

dmaRequest == CASE dma.st = "S_FETCH"   -> reads(dma.src, dma.word)
                [] dma.st = "S_DEPOSIT" -> writes(dma.dst, dma.word, dma.data)
                [] OTHER                -> NoRequest

biu_req == IF arb_gap THEN NoRequest ELSE IF dma_owns THEN dmaRequest ELSE eu

euDone  == done_r /\ ~dma_owns
dmaDone == done_r /\ dma_owns

dma_ownsNext == IF dma_owns THEN bus_hold ELSE bus_hold /\ bus_idle

ArbClock == dma_owns' = dma_ownsNext /\ dma_owns_d' = dma_owns
-----------------------------------------------------------------------------
(* The memory: a word is read whole, written by the enabled lanes.         *)
din == <<mem[even(cur.addr)], mem[even(cur.addr) + 1]>>

MemClock(ready) ==
  mem' = IF wr /\ t = "T3" /\ ready
           THEN [a \in Addrs |->
                   CASE a = even(cur.addr) /\ lowLane      -> cur.dout[1]
                     [] a = even(cur.addr) + 1 /\ highLane -> cur.dout[2]
                     [] OTHER                              -> mem[a]]
           ELSE mem

(* The EU holds a request until it is done (biu.sv:72), then goes through  *)
(* a state that requests nothing -- except ENTER, whose copy of a display  *)
(* word goes straight from reading to pushing it (execUnit.sv:2507-2514).  *)
EuClock ==
  \/ ~eu.on /\ UNCHANGED eu
  \/ /\ ~eu.on
     /\ \E a \in DataAddrs, w \in BOOLEAN :
          \/ eu' = reads(a, w)
          \/ \E d \in IF w THEN Words ELSE Vals \X {0} : eu' = writes(a, w, d)
  \/ eu.on /\ ~euDone /\ UNCHANGED eu
  \/ eu.on /\ euDone /\ eu' = NoRequest
  \/ /\ NESTED_ENTER /\ eu.on /\ euDone /\ eu.word /\ ~eu.wr
     /\ \E a \in DataAddrs : eu' = writes(a, TRUE, rdata_r)

(* The DMA engine, lines 202-245.  Between transfers nothing reads its     *)
(* registers, which are given one value there.                             *)
NoTransfer == [st |-> "S_IDLE", src |-> 0, dst |-> 0, word |-> FALSE, data |-> <<0, 0>>]

DmaIdle ==
  /\ dma.st = "S_IDLE"
  /\ \/ DMA # "unsync" /\ UNCHANGED dma
     \/ /\ DMA # "off"
        /\ \E s, d \in DataAddrs, w \in BOOLEAN :
             dma' = [st |-> "S_FETCH", src |-> s, dst |-> d, word |-> w, data |-> <<0, 0>>]

DmaClock ==
  \/ DmaIdle
  \/ /\ dma.st = "S_FETCH"
     /\ dma' = IF dmaDone THEN [dma EXCEPT !.st = "S_GAP", !.data = rdata_r] ELSE dma
  \/ dma.st = "S_GAP" /\ dma' = [dma EXCEPT !.st = "S_DEPOSIT"]
  \/ /\ dma.st = "S_DEPOSIT"
     /\ dma' = IF dmaDone THEN [dma EXCEPT !.st = "S_UPDATE"] ELSE dma
  \/ dma.st = "S_UPDATE" /\ dma' = NoTransfer

IpClock(redirect, pop) ==
  ip' = IF redirect.on THEN redirect.addr ELSE plus(ip, do_pop(pop))
-----------------------------------------------------------------------------
Init ==
  /\ BiuInit
  /\ fetch_ptr = 0 /\ ip = 0
  /\ eu = NoRequest
  /\ dma = NoTransfer
  /\ dma_owns = FALSE /\ dma_owns_d = FALSE
  /\ mem = [a \in Addrs |-> 0]

redirects == {[on |-> FALSE, addr |-> 0]} \cup [on : {TRUE}, addr : Redirects]

Clock(ready) ==
  \E redirect \in redirects, pop \in Pops :
    /\ BiuClock(biu_req, biu_hold_req, redirect, pop, ready, din)
    /\ ArbClock /\ MemClock(ready) /\ EuClock /\ DmaClock
    /\ IpClock(redirect, pop)

Next == Clock(TRUE) \/ Clock(FALSE)

Spec == Init /\ [][Next]_vars

(* The clock runs and READY does come: memory_controller.sv:374-384 and    *)
(* io_decode answer every cycle.                                           *)
FairSpec == Spec /\ WF_vars(Next) /\ SF_vars(Clock(TRUE))
-----------------------------------------------------------------------------
(* Whatever the redirects and wherever they land in a bus cycle, the queue *)
(* holds the bytes that follow ip, in order, none stale, none missing, and *)
(* the fetch pointer is where they stop (biu.sv:135-139, 317-325); the     *)
(* queue never gets a byte more than it has room for.                      *)
InstructionStream ==
  /\ Len(pq) <= DEPTH
  /\ \A i \in 1 .. Len(pq) : pq[i] = plus(ip, i - 1)
  /\ fetch_ptr = plus(ip, Len(pq))

(* The bytes a request names, in address order.                            *)
bytes(q) == IF q.word THEN <<q.addr, plus(q.addr, 1)>> ELSE <<q.addr>>
holds(q, value) == \A i \in 1 .. Len(bytes(q)) : mem[bytes(q)[i]] = value[i]

(* When a master is told its access is done it is: a read's data are what  *)
(* memory holds, a write's are in memory, both halves of an odd word       *)
(* included (biu.sv:24-28), and the master told is the one that asked.     *)
DoneIsTrue ==
  done_r => /\ biu_req.on
            /\ holds(biu_req, IF biu_req.wr THEN biu_req.data ELSE rdata_r)

(* Memory changes only at bytes named by the access in progress.           *)
WritesOnlyWhatIsAsked ==
  [][\A a \in Addrs : mem'[a] # mem[a] =>
       biu_req.wr /\ \E i \in 1 .. Len(bytes(biu_req)) : bytes(biu_req)[i] = a]_vars

(* A request of the EU is answered (biu.sv:72-79).                         *)
EuAnswered == eu.on ~> ~eu.on

(* The DMA's turn comes, however busy the EU and the prefetch are          *)
(* (biu.sv:86-91).                                                         *)
DmaServed == (dma.st = "S_FETCH") ~> (dma.st = "S_IDLE")
=============================================================================
