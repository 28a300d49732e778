------------------------ MODULE InterruptController ------------------------
(***************************************************************************)
(* src/modules/interrupt_controller.sv, the 80186's interrupt controller   *)
(* in master mode: latched and level requests, nested priorities, EOI.     *)
(*                                                                         *)
(* IcClock is one clock, given what its inputs are in it: the pulses of    *)
(* timers and DMA channels, the core's acknowledge and a register write.   *)
(* Sources are numbered as in the code: the timers together are source 0,  *)
(* then the DMA channels, then the pins.  A lower number is more urgent.   *)
(***************************************************************************)
EXTENDS Integers, FiniteSets, FiniteSetsExt

CONSTANTS
  TIMERS,              \* number of timers behind source 0 (3)
  DMAS,                \* number of DMA channels (2)
  INTS,                \* number of interrupt pins (4)
  PRIS                 \* lowest priority (7)

ASSUME IcAssumptions ==
  TIMERS \in Nat \ {0} /\ DMAS \in Nat /\ INTS \in Nat /\ PRIS \in Nat

S_TIMER   == 0
NSRC      == 1 + DMAS + INTS
Sources   == 0 .. NSRC - 1
DmaSrcs   == 1 .. DMAS
PinSrcs   == DMAS + 1 .. NSRC - 1
Timers    == 0 .. TIMERS - 1

VARIABLES
  mask_r, isr_r,       \* sets of sources
  t_lat,               \* t0_lat, t1_lat, t2_lat: the timers latched
  irr_latched,         \* the DMA channels latched
  pri_r, prio_mask_r,
  pins                 \* int0 to int3: the pins that are asserted

icRegs == <<mask_r, isr_r, t_lat, irr_latched, pri_r, prio_mask_r>>
-----------------------------------------------------------------------------
request == (IF t_lat # {} THEN {S_TIMER} ELSE {}) \cup irr_latched \cup pins

isr_pri == IF isr_r = {} THEN PRIS + 1 ELSE Min({pri_r[s] : s \in isr_r})

eligibleAtOrAbove ==
  {s \in request \ (mask_r \cup isr_r) : pri_r[s] <= isr_pri /\ pri_r[s] <= prio_mask_r}

eligible ==
  {s \in request \ (mask_r \cup isr_r) : pri_r[s] < isr_pri /\ pri_r[s] <= prio_mask_r}

(* Both scans: the smallest priority number, of equals the smallest index. *)
mostUrgent(S) ==
  CHOOSE s \in S : \A o \in S : pri_r[s] < pri_r[o] \/ (pri_r[s] = pri_r[o] /\ s <= o)

intr   == eligible # {}
winnerByIndex == Min(eligible)
winner == mostUrgent(eligible)

eoi_target == mostUrgent(isr_r)

(* vector_type: which handler runs.  The timers have one each.             *)
Vectors == {v \in Sources \X Timers : v[1] # S_TIMER => v[2] = 0}
vector_type == <<winner, IF winner = S_TIMER THEN Min(t_lat) ELSE 0>>

(* The register writes; a control register has a priority and a mask bit.  *)
NoWrite == [reg |-> "none"]
Eoi     == [reg |-> "eoi"]
Writes  == [reg : {"none", "eoi"}]
             \cup [reg : {"mask", "isr"}, set : SUBSET Sources]
             \cup [reg : {"irr"}, set : SUBSET DmaSrcs]
             \cup [reg : {"priority_mask"}, pri : 0 .. PRIS]
             \cup [reg : {"control"}, src : Sources, pri : 0 .. PRIS, masked : BOOLEAN]

LatchClock(tPulses, dPulses, iack, w) ==
  LET acked == IF iack THEN vector_type ELSE <<-1, -1>> IN
  /\ t_lat' = (t_lat \cup tPulses)
                \ (IF acked[1] = S_TIMER THEN {acked[2]} ELSE {})
  /\ irr_latched' = IF w.reg = "irr" THEN w.set
                    ELSE (irr_latched \cup dPulses) \ {acked[1]}

ServiceClockOneBit(iack, w) ==
  isr_r' = CASE w.reg = "isr" -> w.set
             [] w.reg = "eoi" /\ isr_r # {} -> isr_r \ {eoi_target}
             [] OTHER -> IF iack THEN {winner} ELSE isr_r

(* An EOI, in the controller's register or through io_decode's 8259 shim.  *)
ServiceClock(iack, w) ==
  LET marked == IF iack THEN isr_r \cup {winner} ELSE isr_r IN
  isr_r' = CASE w.reg = "isr" -> w.set
             [] w.reg = "eoi" /\ isr_r # {} -> marked \ {eoi_target}
             [] OTHER -> marked

IcClock(tPulses, dPulses, iack, w) ==
  /\ LatchClock(tPulses, dPulses, iack, w)
  /\ ServiceClock(iack, w)
  /\ mask_r' = CASE w.reg = "mask" -> w.set
                 [] w.reg = "control" ->
                      IF w.masked THEN mask_r \cup {w.src} ELSE mask_r \ {w.src}
                 [] OTHER -> mask_r
  /\ pri_r' = IF w.reg = "control" THEN [pri_r EXCEPT ![w.src] = w.pri] ELSE pri_r
  /\ prio_mask_r' = IF w.reg = "priority_mask" THEN w.pri ELSE prio_mask_r

IcInit ==
  /\ mask_r = Sources /\ isr_r = {} /\ t_lat = {} /\ irr_latched = {}
  /\ pri_r = [s \in Sources |-> PRIS] /\ prio_mask_r = PRIS
=============================================================================
