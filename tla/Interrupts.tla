----------------------------- MODULE Interrupts -----------------------------
(***************************************************************************)
(* The interrupt controller, the core that takes its vectors and the       *)
(* program with its handlers, wired as in src/modules/cpu_top.sv.          *)
(*                                                                         *)
(* The core takes the vector at an instruction boundary (execUnit.sv,      *)
(* S_FETCH_OP, or S_HALT) and says so one clock later (S_INT_PREP), when   *)
(* the controller marks what it then finds most urgent.                    *)
(*                                                                         *)
(* Software is as the controller needs it: a handler ends its service with *)
(* one EOI, a pin is held until its handler serves the device, priorities  *)
(* and the in-service register are written only with nothing in service.   *)
(***************************************************************************)
EXTENDS InterruptController, Sequences

CONSTANTS DEPTH        \* bound: handlers on the stack at once

ASSUME DepthAssumption == DEPTH \in Nat

VARIABLES
  core,                \* "run"; "prep" and "apply" on the way into a handler
  vec,                 \* int_type_r
  IF_flag,
  handlers,            \* the handlers entered and not left, innermost first
  nest,                \* history: what was marked in service, latest first
  owed                 \* history: timers and channels that pulsed and whose
                       \* handler has not been entered since

vars == <<icRegs, pins, core, vec, IF_flag, handlers, nest, owed>>

NoVector == <<-1, -1>>
Causes   == {v \in Vectors : v[1] \notin PinSrcs}

top == handlers[1]
pulsed(tP, dP) == {S_TIMER} \X tP \cup {<<d, 0>> : d \in dP}

(* One clock of everything.  Pulses come in any of them; a device raises   *)
(* its pin in any of them.                                                 *)
Clock(iack, w) ==
  \E tP \in SUBSET Timers, dP \in SUBSET DmaSrcs :
    /\ Cardinality(tP) + Cardinality(dP) <= 1
    /\ IcClock(tP, dP, iack, w)
    /\ owed' = ((owed \cup pulsed(tP, dP))
                  \ (IF w.reg = "irr" THEN {<<d, 0>> : d \in DmaSrcs \ w.set} ELSE {}))
                  \ (IF core = "apply" THEN {vec} ELSE {})

pinsRaised == \E P \in SUBSET PinSrcs : pins' = pins \cup P
pinsServed(s) == \E P \in SUBSET (PinSrcs \ {s}) : pins' = (pins \ {s}) \cup P

(* Instructions that touch none of this.                                   *)
Execute ==
  /\ core = "run" /\ Clock(FALSE, NoWrite) /\ pinsRaised
  /\ UNCHANGED <<core, vec, IF_flag, handlers, nest>>

(* CLI and STI, in the program or in a handler.                            *)
setFlag(on) ==
  /\ core = "run" /\ Clock(FALSE, NoWrite) /\ pinsRaised
  /\ IF_flag' = on
  /\ UNCHANGED <<core, vec, handlers, nest>>

Cli == IF_flag /\ setFlag(FALSE)
Sti == ~IF_flag /\ setFlag(TRUE)

(* An OUT to one of the controller's registers: software masks one source  *)
(* at a time, sets priorities, discards requests.                          *)
quiet == handlers = <<>>

mayWrite(w) ==
  \/ w.reg = "mask" /\ Cardinality((w.set \ mask_r) \cup (mask_r \ w.set)) = 1
  \/ w.reg = "priority_mask" /\ w.pri # prio_mask_r
  \/ quiet /\ w.reg = "control" /\ w.pri # pri_r[w.src]
  \/ quiet /\ w.reg \in {"irr", "isr"} /\ w.set = {}

WriteRegister ==
  /\ core = "run"
  /\ \E w \in {x \in Writes : mayWrite(x)} : Clock(FALSE, w)
  /\ pinsRaised
  /\ UNCHANGED <<core, vec, IF_flag, handlers, nest>>

(* A handler: serves its device, ends the service, returns.                *)
ServeDevice ==
  /\ core = "run" /\ ~quiet /\ top.vec[1] \in pins
  /\ Clock(FALSE, NoWrite) /\ pinsServed(top.vec[1])
  /\ handlers' = [handlers EXCEPT ![1].served = TRUE]
  /\ UNCHANGED <<core, vec, IF_flag, nest>>

EndService ==
  /\ core = "run" /\ ~quiet /\ top.served /\ ~top.ended
  /\ Clock(FALSE, Eoi) /\ pinsRaised
  /\ handlers' = [handlers EXCEPT ![1].ended = TRUE]
  /\ nest' = IF nest = <<>> THEN nest ELSE Tail(nest)
  /\ UNCHANGED <<core, vec, IF_flag>>

Return ==
  /\ core = "run" /\ ~quiet /\ top.ended
  /\ Clock(FALSE, NoWrite) /\ pinsRaised
  /\ IF_flag' = TRUE /\ handlers' = Tail(handlers)
  /\ UNCHANGED <<core, vec, nest>>

(* An instruction boundary with a request: the vector is taken.            *)
Accept ==
  /\ core = "run" /\ intr /\ IF_flag /\ Len(handlers) < DEPTH
  /\ Clock(FALSE, NoWrite) /\ pinsRaised
  /\ vec' = vector_type /\ core' = "prep"
  /\ UNCHANGED <<IF_flag, handlers, nest>>

(* S_INT_PREP: intr_ack, and ic_iack if the controller still asks.         *)
Acknowledge ==
  /\ core = "prep" /\ core' = "apply"
  /\ Clock(intr, NoWrite) /\ pinsRaised
  /\ nest' = IF intr THEN <<winner>> \o nest ELSE nest
  /\ UNCHANGED <<vec, IF_flag, handlers>>

EnterHandler ==
  /\ core = "apply" /\ core' = "run"
  /\ Clock(FALSE, NoWrite) /\ pinsRaised
  /\ IF_flag' = FALSE /\ vec' = NoVector
  /\ handlers' = <<[vec |-> vec, served |-> vec[1] \notin PinSrcs, ended |-> FALSE]>>
                   \o handlers
  /\ UNCHANGED nest
-----------------------------------------------------------------------------
Init ==
  /\ IcInit /\ pins = {}
  /\ core = "run" /\ vec = NoVector /\ IF_flag = FALSE
  /\ handlers = <<>> /\ nest = <<>> /\ owed = {}

Next == Execute \/ Cli \/ Sti \/ WriteRegister \/ ServeDevice \/ EndService \/ Return
          \/ Accept \/ Acknowledge \/ EnterHandler

Spec == Init /\ [][Next]_vars

(* The core goes on into a handler; handlers do their work; the program    *)
(* does not keep interrupts off for ever, and when it has them on again    *)
(* and again one of those clocks is an instruction boundary.               *)
FairSpec == /\ Spec
            /\ WF_vars(Acknowledge \/ EnterHandler)
            /\ WF_vars(ServeDevice \/ EndService \/ Return)
            /\ WF_vars(quiet /\ Sti) /\ SF_vars(Accept)
-----------------------------------------------------------------------------
(* Services nest: what is in service was marked in strictly rising         *)
(* urgency, and an EOI has ended the latest of them (lines 47-50).  Every  *)
(* handler that still owes an EOI has its own in-service bit to end,       *)
(* whatever the acknowledge was given for, and none is left over: nothing  *)
(* is blocked for ever (interrupt_controller.sv, lines 69-74).             *)
open == {i \in 1 .. Len(handlers) : ~handlers[i].ended}

ServicesAccounted ==
  /\ isr_r = {nest[i] : i \in 1 .. Len(nest)} /\ Cardinality(isr_r) = Len(nest)
  /\ \A i, j \in 1 .. Len(nest) : i < j => pri_r[nest[i]] < pri_r[nest[j]]
  /\ Cardinality(isr_r) = Cardinality(open) + (IF core = "apply" THEN 1 ELSE 0)

(* A handler that has not ended its service is interrupted only by a more  *)
(* urgent source.                                                          *)
UrgencyRespected ==
  \A i, j \in open : i < j => pri_r[handlers[i].vec[1]] < pri_r[handlers[j].vec[1]]

(* A pin that stays asserted, unmasked and more urgent than all the others *)
(* does not wait for ever, whatever else pulses, nests or is in service.   *)
demanding(s) ==
  /\ s \in pins \ mask_r /\ pri_r[s] <= prio_mask_r
  /\ \A o \in Sources \ {s} : pri_r[s] < pri_r[o]

TopPinServed == \A s \in PinSrcs : []<>(~demanding(s) \/ vec[1] = s
                                         \/ \E i \in 1 .. Len(handlers) : handlers[i].vec[1] = s)

(* Lines 41-43: "internal sources (timers, DMA) latch, so a pulse is never *)
(* lost": until its handler is on its way, the latch has it.               *)
PulseNeverLost ==
  \A v \in owed : \/ v = vec
                  \/ v[1] = S_TIMER /\ v[2] \in t_lat
                  \/ v[1] \in irr_latched
=============================================================================
