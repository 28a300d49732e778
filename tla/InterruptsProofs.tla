-------------------------- MODULE InterruptsProofs --------------------------
(***************************************************************************)
(* Proofs about Interrupts, for every number of sources, priorities and    *)
(* nested handlers.                                                        *)
(***************************************************************************)
EXTENDS Interrupts, FiniteSetTheorems, FunctionTheorems, TLAPS, WellFoundedInduction

Handlers == [vec : Vectors, served : BOOLEAN, ended : BOOLEAN]

Types ==
  /\ mask_r \in SUBSET Sources /\ isr_r \in SUBSET Sources
  /\ t_lat \in SUBSET Timers /\ irr_latched \in SUBSET DmaSrcs
  /\ pri_r \in [Sources -> 0 .. PRIS] /\ prio_mask_r \in 0 .. PRIS
  /\ pins \in SUBSET PinSrcs
  /\ core \in {"run", "prep", "apply"}
  /\ core # "run" => vec \in Vectors
  /\ handlers \in Seq(Handlers) /\ nest \in Seq(Sources)

(* The in-service register holds what was marked and not ended, and each   *)
(* was more urgent than all that was in service when it was marked.        *)
Nested ==
  /\ isr_r = {nest[i] : i \in 1 .. Len(nest)}
  /\ \A i, j \in 1 .. Len(nest) : i < j => pri_r[nest[i]] < pri_r[nest[j]]

(* What the core took a vector for is still asked for when it says so; and *)
(* what is then marked is as urgent as the vector, and it alone.           *)
Asked == core = "prep" => vec[1] \in eligible
Marked ==
  core = "apply" =>
    /\ nest # <<>> /\ pri_r[nest[1]] <= pri_r[vec[1]]
    /\ Len(nest) > 1 => pri_r[vec[1]] < pri_r[nest[2]]

(* The handlers that owe an EOI and the sources marked go in step: m gives *)
(* each handler the service its EOI will end, which is as urgent as the    *)
(* handler's own source and is above all that is marked below it.          *)
entering == IF core = "apply" THEN 1 ELSE 0

InStep(O, hs, ns, e, pri, m) ==
  /\ m \in [O -> e + 1 .. Len(ns)]
  /\ \A k \in e + 1 .. Len(ns) : \E i \in O : m[i] = k
  /\ \A i, j \in O : i < j => m[i] < m[j]
  /\ \A i \in O : /\ pri[ns[m[i]]] <= pri[hs[i].vec[1]]
                  /\ m[i] < Len(ns) => pri[hs[i].vec[1]] < pri[ns[m[i] + 1]]

Matched == \E m \in [open -> entering + 1 .. Len(nest)] :
             InStep(open, handlers, nest, entering, pri_r, m)

InterruptsInv == Types /\ Nested /\ Asked /\ Marked /\ Matched

(***************************************************************************)
(* The most urgent of a set of sources.                                    *)
(***************************************************************************)

LEMMA LeastOf ==
  ASSUME NEW T \in SUBSET Nat, T # {}
  PROVE  \E n \in T : \A x \in T : n <= x
PROOF
<1> DEFINE Less == {ss \in Nat \X Nat : ss[1] < ss[2]}
<1>1. IsWellFoundedOn(Less, Nat)
  BY NatLessThanWellFounded, Zenon DEF OpToRel
<1>2. PICK n \in T : \A x \in T : <<x, n>> \notin Less
  <2> HIDE DEF Less
  <2> QED BY <1>1, WFMin, Zenon
<1>3. ASSUME NEW x \in T PROVE n <= x
  <2>1. x \in Nat /\ n \in Nat /\ <<x, n>> \notin Less
    BY <1>2
  <2> QED BY <2>1
<1> QED BY <1>3

LEMMA MostUrgent ==
  ASSUME pri_r \in [Sources -> 0 .. PRIS], NEW S \in SUBSET Sources, S # {}
  PROVE  mostUrgent(S) \in S /\ \A o \in S : pri_r[mostUrgent(S)] <= pri_r[o]
PROOF
<1>1. Sources \subseteq Nat /\ PRIS \in Nat
  BY IcAssumptions DEF Sources
<1> DEFINE Pris == {pri_r[s] : s \in S}
<1>2. Pris \subseteq Nat /\ Pris # {}
  <2>1. \A s \in S : pri_r[s] \in Nat
    BY <1>1
  <2>2. PICK s \in S : TRUE
    OBVIOUS
  <2>3. pri_r[s] \in Pris
    BY <2>2
  <2> QED BY <2>1, <2>3
<1>3. PICK p \in Pris : \A x \in Pris : p <= x
  <2> HIDE DEF Pris
  <2> QED BY <1>2, LeastOf
<1> DEFINE Top == {s \in S : pri_r[s] = p}
<1>4. Top \subseteq Nat /\ Top # {}
  BY <1>1, <1>3
<1>5. PICK s \in Top : \A x \in Top : s <= x
  <2> HIDE DEF Top
  <2> QED BY <1>4, LeastOf
<1>6. s \in S /\ pri_r[s] = p
  BY <1>5
<1>7. ASSUME NEW o \in S
      PROVE  pri_r[s] < pri_r[o] \/ (pri_r[s] = pri_r[o] /\ s <= o)
  <2>1. pri_r[o] \in Nat /\ p \in Nat /\ p <= pri_r[o]
    BY <1>2, <1>3
  <2>2. pri_r[o] = p => s <= o
    BY <1>5
  <2> QED BY <1>6, <2>1, <2>2
<1>8. /\ mostUrgent(S) \in S
      /\ \A o \in S : \/ pri_r[mostUrgent(S)] < pri_r[o]
                      \/ pri_r[mostUrgent(S)] = pri_r[o] /\ mostUrgent(S) <= o
  BY <1>6, <1>7, Zenon DEF mostUrgent
<1>9. \A o \in S : pri_r[o] \in Nat
  BY <1>1
<1> QED BY <1>8, <1>9

(* The in-service bit an EOI ends is the latest that was marked.           *)
LEMMA EoiTarget ==
  ASSUME Types, Nested, nest # <<>>
  PROVE  isr_r # {} /\ eoi_target = nest[1]
PROOF
<1>1. 1 \in 1 .. Len(nest) /\ nest[1] \in isr_r
  BY DEF Types, Nested
<1>2. eoi_target \in isr_r /\ \A o \in isr_r : pri_r[eoi_target] <= pri_r[o]
  BY <1>1, MostUrgent DEF Types, eoi_target
<1>3. PICK k \in 1 .. Len(nest) : eoi_target = nest[k]
  BY <1>2 DEF Nested
<1>4. pri_r[nest[k]] <= pri_r[nest[1]]
  BY <1>1, <1>2, <1>3
<1>5. k # 1 => pri_r[nest[1]] < pri_r[nest[k]]
  BY <1>1 DEF Nested, Types
<1>6. pri_r[nest[1]] \in Nat /\ pri_r[nest[k]] \in Nat
  BY <1>1, IcAssumptions DEF Types
<1> QED BY <1>1, <1>3, <1>4, <1>5, <1>6

(* What the controller asks for is more urgent than all that is in service.*)
LEMMA EligibleAbove ==
  ASSUME Types, Nested, NEW s \in eligible
  PROVE  /\ s \in Sources /\ s \notin isr_r /\ pri_r[s] \in 0 .. PRIS
         /\ \A i \in 1 .. Len(nest) : pri_r[s] < pri_r[nest[i]]
PROOF
<1>1. request \subseteq Sources
  BY IcAssumptions DEF Types, request, Sources, S_TIMER, NSRC, DmaSrcs, PinSrcs
<1>2. s \in Sources /\ s \notin isr_r /\ pri_r[s] < isr_pri
  BY <1>1 DEF eligible
<1>3. pri_r[s] \in 0 .. PRIS
  BY <1>2 DEF Types
<1>4. ASSUME NEW i \in 1 .. Len(nest) PROVE pri_r[s] < pri_r[nest[i]]
  <2> DEFINE P == {pri_r[o] : o \in isr_r}
  <2>1. nest[i] \in isr_r /\ pri_r[nest[i]] \in P
    BY <1>4 DEF Nested
  <2>2. P \subseteq Nat /\ P # {} /\ isr_r # {}
    BY <2>1, IcAssumptions DEF Types
  <2>3. isr_pri \in P /\ \A x \in P : isr_pri <= x
    <3>1. \E n \in P : \A x \in P : n <= x
      <4> HIDE DEF P
      <4> QED BY <2>2, LeastOf
    <3>2. isr_pri = Min(P)
      BY <2>2 DEF isr_pri
    <3> HIDE DEF P
    <3> QED BY <3>1, <3>2, Zenon DEF Min
  <2>4. isr_pri <= pri_r[nest[i]] /\ isr_pri \in Nat /\ pri_r[nest[i]] \in Nat
    <3> HIDE DEF P
    <3> QED BY <2>1, <2>2, <2>3
  <2> QED BY <1>2, <1>3, <2>4, IcAssumptions
<1> QED BY <1>2, <1>3, <1>4

LEMMA WinnerEligible ==
  ASSUME Types, intr
  PROVE  /\ winner \in eligible /\ \A s \in eligible : pri_r[winner] <= pri_r[s]
         /\ vector_type \in Vectors /\ vector_type[1] = winner
PROOF
<1>1. request \subseteq Sources
  BY IcAssumptions DEF Types, request, Sources, S_TIMER, NSRC, DmaSrcs, PinSrcs
<1>2. eligible \subseteq Sources /\ eligible # {} /\ eligible \subseteq request
  BY <1>1 DEF eligible, intr
<1>3. winner \in eligible /\ \A s \in eligible : pri_r[winner] <= pri_r[s]
  BY <1>2, MostUrgent DEF winner, Types
<1>4. ASSUME winner = S_TIMER PROVE Min(t_lat) \in Timers
  <2>1. t_lat # {}
    BY <1>2, <1>3, <1>4, IcAssumptions DEF Types, request, S_TIMER, DmaSrcs, PinSrcs
  <2>2. t_lat \subseteq Nat /\ t_lat \subseteq Timers
    BY IcAssumptions DEF Types, Timers
  <2>3. \E n \in t_lat : \A x \in t_lat : n <= x
    BY <2>1, <2>2, LeastOf
  <2>4. Min(t_lat) \in t_lat
    BY <2>3, Zenon DEF Min
  <2> QED BY <2>2, <2>4
<1>5. 0 \in Timers
  BY IcAssumptions DEF Timers
<1> QED BY <1>2, <1>3, <1>4, <1>5 DEF vector_type, Vectors

(***************************************************************************)
(* One clock of the controller.                                            *)
(***************************************************************************)

IcTypes ==
  /\ mask_r \in SUBSET Sources /\ isr_r \in SUBSET Sources
  /\ t_lat \in SUBSET Timers /\ irr_latched \in SUBSET DmaSrcs
  /\ pri_r \in [Sources -> 0 .. PRIS] /\ prio_mask_r \in 0 .. PRIS

LEMMA ClockLatches ==
  ASSUME Types, NEW iack, NEW w, Clock(iack, w), w.reg # "irr"
  PROVE  /\ t_lat' \in SUBSET Timers /\ irr_latched' \in SUBSET DmaSrcs
         /\ ~iack => t_lat \subseteq t_lat' /\ irr_latched \subseteq irr_latched'
PROOF
<1>1. PICK tP \in SUBSET Timers, dP \in SUBSET DmaSrcs : LatchClock(tP, dP, iack, w)
  BY DEF Clock, IcClock
<1> DEFINE acked == IF iack THEN vector_type ELSE <<-1, -1>>
<1>2. /\ t_lat' = (t_lat \cup tP) \ (IF acked[1] = S_TIMER THEN {acked[2]} ELSE {})
      /\ irr_latched' = (irr_latched \cup dP) \ {acked[1]}
  BY <1>1 DEF LatchClock
<1>3. ~iack => acked[1] = -1
  OBVIOUS
<1> HIDE DEF acked
<1>4. t_lat' \in SUBSET Timers /\ irr_latched' \in SUBSET DmaSrcs
  BY <1>2 DEF Types
<1>5. -1 \notin DmaSrcs /\ -1 # S_TIMER
  BY DEF DmaSrcs, S_TIMER
<1>6. ~iack => t_lat \subseteq t_lat' /\ irr_latched \subseteq irr_latched'
  BY <1>2, <1>3, <1>5 DEF Types
<1> QED BY <1>4, <1>6

LEMMA ClockStays ==
  ASSUME Types, NEW iack, NEW w, Clock(iack, w), w.reg \in {"none", "eoi"}
  PROVE  /\ mask_r' = mask_r /\ pri_r' = pri_r /\ prio_mask_r' = prio_mask_r
PROOF
<1>1. w.reg # "mask" /\ w.reg # "control" /\ w.reg # "priority_mask"
  OBVIOUS
<1>2. mask_r' = mask_r
  BY <1>1, Zenon DEF Clock, IcClock
<1>3. pri_r' = pri_r /\ prio_mask_r' = prio_mask_r
  BY <1>1, Zenon DEF Clock, IcClock
<1> QED BY <1>2, <1>3

(* A clock in which software writes nothing.                               *)
LEMMA ClockQuiet ==
  ASSUME Types, Clock(FALSE, NoWrite)
  PROVE  /\ mask_r' = mask_r /\ pri_r' = pri_r /\ prio_mask_r' = prio_mask_r
         /\ isr_r' = isr_r
         /\ t_lat' \in SUBSET Timers /\ irr_latched' \in SUBSET DmaSrcs
         /\ t_lat \subseteq t_lat' /\ irr_latched \subseteq irr_latched'
PROOF
<1>1. NoWrite.reg = "none"
  BY DEF NoWrite
<1>2. isr_r' = isr_r
  <2>1. NoWrite.reg # "isr" /\ NoWrite.reg # "eoi"
    BY <1>1
  <2> QED BY <2>1, Zenon DEF Clock, IcClock, ServiceClock
<1> QED BY <1>1, <1>2, ClockLatches, ClockStays

(* The acknowledge marks what is then most urgent.                         *)
LEMMA ClockMarks ==
  ASSUME Types, intr, Clock(intr, NoWrite)
  PROVE  /\ mask_r' = mask_r /\ pri_r' = pri_r /\ prio_mask_r' = prio_mask_r
         /\ isr_r' = isr_r \cup {winner}
         /\ t_lat' \in SUBSET Timers /\ irr_latched' \in SUBSET DmaSrcs
PROOF
<1>1. NoWrite.reg = "none"
  BY DEF NoWrite
<1>2. isr_r' = isr_r \cup {winner}
  <2>1. NoWrite.reg # "isr" /\ NoWrite.reg # "eoi"
    BY <1>1
  <2> QED BY <2>1, Zenon DEF Clock, IcClock, ServiceClock
<1> QED BY <1>1, <1>2, ClockLatches, ClockStays

LEMMA ClockEnds ==
  ASSUME Types, Clock(FALSE, Eoi), isr_r # {}
  PROVE  /\ mask_r' = mask_r /\ pri_r' = pri_r /\ prio_mask_r' = prio_mask_r
         /\ isr_r' = isr_r \ {eoi_target}
         /\ t_lat' \in SUBSET Timers /\ irr_latched' \in SUBSET DmaSrcs
PROOF
<1>1. Eoi.reg = "eoi"
  BY DEF Eoi
<1>2. isr_r' = isr_r \ {eoi_target}
  <2>1. Eoi.reg # "isr"
    BY <1>1
  <2> QED BY <1>1, <2>1, Zenon DEF Clock, IcClock, ServiceClock
<1> QED BY <1>1, <1>2, ClockLatches, ClockStays

(* A register write with handlers on the stack leaves the priorities and   *)
(* the in-service bits as they are; without, it may clear the bits.        *)
LEMMA ClockWrites ==
  ASSUME Types, NEW w \in Writes, mayWrite(w), Clock(FALSE, w)
  PROVE  /\ IcTypes'
         /\ isr_r' = isr_r \/ isr_r' = {}
         /\ ~quiet => pri_r' = pri_r /\ isr_r' = isr_r
PROOF
<1>1. \/ w.reg = "mask" /\ w.set \in SUBSET Sources
      \/ w.reg = "priority_mask" /\ w.pri \in 0 .. PRIS
      \/ w.reg = "control" /\ quiet /\ w.src \in Sources /\ w.pri \in 0 .. PRIS
      \/ w.reg = "irr" /\ quiet /\ w.set = {}
      \/ w.reg = "isr" /\ quiet /\ w.set = {}
  BY DEF mayWrite, Writes
<1>2. PICK tP \in SUBSET Timers, dP \in SUBSET DmaSrcs : IcClock(tP, dP, FALSE, w)
  BY DEF Clock
<1>3. t_lat' \in SUBSET Timers /\ irr_latched' \in SUBSET DmaSrcs
  BY <1>1, <1>2 DEF IcClock, LatchClock, Types
<1>4. isr_r' = IF w.reg = "isr" THEN {} ELSE isr_r
  <2>1. w.reg # "eoi"
    BY <1>1
  <2>2. CASE w.reg = "isr"
    BY <1>1, <1>2, <2>1, <2>2, Zenon DEF IcClock, ServiceClock
  <2>3. CASE w.reg # "isr"
    BY <1>2, <2>1, <2>3, Zenon DEF IcClock, ServiceClock
  <2> QED BY <2>2, <2>3
<1>5. mask_r' \in SUBSET Sources
  <2>1. CASE w.reg = "mask"
    <3>1. mask_r' = w.set
      BY <1>2, <2>1, Zenon DEF IcClock
    <3> QED BY <1>1, <2>1, <3>1
  <2>2. CASE w.reg = "control"
    <3>1. mask_r' = IF w.masked THEN mask_r \cup {w.src} ELSE mask_r \ {w.src}
      BY <1>2, <2>2, Zenon DEF IcClock
    <3> QED BY <1>1, <2>2, <3>1 DEF Types
  <2>3. CASE w.reg # "mask" /\ w.reg # "control"
    <3>1. mask_r' = mask_r
      BY <1>2, <2>3, Zenon DEF IcClock
    <3> QED BY <3>1 DEF Types
  <2> QED BY <2>1, <2>2, <2>3
<1>6. pri_r' = IF w.reg = "control" THEN [pri_r EXCEPT ![w.src] = w.pri] ELSE pri_r
  BY <1>2, Zenon DEF IcClock
<1>7. prio_mask_r' = IF w.reg = "priority_mask" THEN w.pri ELSE prio_mask_r
  BY <1>2, Zenon DEF IcClock
<1>8. pri_r' \in [Sources -> 0 .. PRIS] /\ prio_mask_r' \in 0 .. PRIS
  BY <1>1, <1>6, <1>7 DEF Types
<1> QED BY <1>1, <1>3, <1>4, <1>5, <1>6, <1>8 DEF IcTypes, Types

LEMMA PinsTyped ==
  ASSUME Types, pinsRaised
  PROVE  pins' \in SUBSET PinSrcs /\ pins \subseteq pins'
BY DEF pinsRaised, Types

(***************************************************************************)
(* The handlers and the services they owe an EOI to, under the four steps  *)
(* that move either.  H is the stack of handlers, N the services.          *)
(***************************************************************************)

owing(H) == {i \in 1 .. Len(H) : ~H[i].ended}

Priorities == [Sources -> 0 .. PRIS]

LEMMA PrisNat ==
  ASSUME NEW pri \in Priorities, NEW s \in Sources
  PROVE  pri[s] \in Nat
BY IcAssumptions DEF Priorities

LEMMA HandlerSource ==
  ASSUME NEW v \in Vectors
  PROVE  v[1] \in Sources
BY DEF Vectors

(* Something is marked while the core is on its way into a handler.        *)
LEMMA MarkedInStep ==
  ASSUME NEW H \in Seq(Handlers), NEW N \in Seq(Sources), NEW s \in Sources,
         NEW pri \in Priorities, NEW m, InStep(owing(H), H, N, 0, pri, m)
  PROVE  \E n \in [owing(H) -> 2 .. Len(<<s>> \o N)] :
           InStep(owing(H), H, <<s>> \o N, 1, pri, n)
PROOF
<1> DEFINE M == <<s>> \o N
           n == [i \in owing(H) |-> m[i] + 1]
           L == Len(N)
<1>1. L \in Nat /\ Len(M) = L + 1 /\ M \in Seq(Sources)
      /\ \A k \in 1 .. L : M[k + 1] = N[k]
  OBVIOUS
<1>2. m \in [owing(H) -> 1 .. L]
  BY DEF InStep
<1> HIDE DEF M
<1>3. n \in [owing(H) -> 2 .. Len(M)]
  BY <1>1, <1>2
<1>4. \A k \in 2 .. Len(M) : \E i \in owing(H) : n[i] = k
  <2> SUFFICES ASSUME NEW k \in 2 .. Len(M) PROVE \E i \in owing(H) : n[i] = k
    OBVIOUS
  <2>1. k - 1 \in 1 .. L
    BY <1>1
  <2>2. PICK i \in owing(H) : m[i] = k - 1
    BY <2>1 DEF InStep
  <2> QED BY <2>1, <2>2
<1>5. \A i, j \in owing(H) : i < j => n[i] < n[j]
  <2>1. \A i, j \in owing(H) : i < j => m[i] < m[j]
    BY DEF InStep
  <2> QED BY <1>1, <1>2, <2>1
<1>6. ASSUME NEW i \in owing(H)
      PROVE  /\ pri[M[n[i]]] <= pri[H[i].vec[1]]
             /\ n[i] < Len(M) => pri[H[i].vec[1]] < pri[M[n[i] + 1]]
  <2>1. m[i] \in 1 .. L /\ n[i] = m[i] + 1 /\ M[n[i]] = N[m[i]]
    BY <1>1, <1>2
  <2>2. /\ pri[N[m[i]]] <= pri[H[i].vec[1]]
        /\ m[i] < L => pri[H[i].vec[1]] < pri[N[m[i] + 1]]
    BY DEF InStep
  <2>3. m[i] < L => M[n[i] + 1] = N[m[i] + 1]
    <3>1. m[i] < L => m[i] + 1 \in 1 .. L
      BY <1>1, <2>1
    <3> QED BY <1>1, <2>1, <3>1
  <2>4. n[i] < Len(M) <=> m[i] < L
    BY <1>1, <2>1
  <2> QED BY <2>1, <2>2, <2>3, <2>4
<1>7. InStep(owing(H), H, M, 1, pri, n)
  <2> HIDE DEF n
  <2> QED BY <1>3, <1>4, <1>5, <1>6 DEF InStep
<1> QED BY <1>3, <1>7 DEF M

(* A handler is entered for what was marked last.                          *)
LEMMA EnteredInStep ==
  ASSUME NEW H \in Seq(Handlers), NEW N \in Seq(Sources), NEW h \in Handlers, ~h.ended,
         N # <<>>, NEW pri \in Priorities, pri[N[1]] <= pri[h.vec[1]],
         Len(N) > 1 => pri[h.vec[1]] < pri[N[2]],
         NEW m, InStep(owing(H), H, N, 1, pri, m)
  PROVE  \E n \in [owing(<<h>> \o H) -> 1 .. Len(N)] :
           InStep(owing(<<h>> \o H), <<h>> \o H, N, 0, pri, n)
PROOF
<1> DEFINE G == <<h>> \o H
           n == [i \in owing(G) |-> IF i = 1 THEN 1 ELSE m[i - 1]]
           L == Len(N)
<1>1. /\ L \in Nat /\ L >= 1 /\ Len(H) \in Nat /\ Len(G) = Len(H) + 1 /\ G[1] = h
      /\ \A k \in 1 .. Len(H) : G[k + 1] = H[k]
  OBVIOUS
<1> HIDE DEF G
<1>2. m \in [owing(H) -> 2 .. L]
  BY DEF InStep
<1>3. /\ 1 \in owing(G) /\ owing(G) \subseteq 1 .. Len(H) + 1
      /\ \A i \in owing(G) : i # 1 => i - 1 \in owing(H) /\ G[i] = H[i - 1]
      /\ \A i \in owing(H) : i + 1 \in owing(G)
  <2>1. 1 \in owing(G) /\ owing(G) \subseteq 1 .. Len(H) + 1
    BY <1>1 DEF owing
  <2>2. ASSUME NEW i \in owing(G), i # 1 PROVE i - 1 \in owing(H) /\ G[i] = H[i - 1]
    <3>1. i - 1 \in 1 .. Len(H) /\ ~G[i].ended /\ i = (i - 1) + 1
      BY <1>1, <2>1, <2>2 DEF owing
    <3>2. G[(i - 1) + 1] = H[i - 1]
      BY <1>1, <3>1
    <3> QED BY <3>1, <3>2 DEF owing
  <2>3. ASSUME NEW i \in owing(H) PROVE i + 1 \in owing(G)
    BY <1>1 DEF owing
  <2> QED BY <2>1, <2>2, <2>3
<1>4. n \in [owing(G) -> 1 .. L]
  BY <1>1, <1>2, <1>3
<1>5. \A k \in 1 .. L : \E i \in owing(G) : n[i] = k
  <2> SUFFICES ASSUME NEW k \in 1 .. L PROVE \E i \in owing(G) : n[i] = k
    OBVIOUS
  <2>1. CASE k = 1
    BY <1>3, <2>1
  <2>2. CASE k # 1
    <3>1. PICK i \in owing(H) : m[i] = k
      BY <2>2 DEF InStep
    <3>2. i + 1 \in owing(G) /\ i \in 1 .. Len(H)
      BY <1>3 DEF owing
    <3>3. n[i + 1] = m[i]
      BY <1>1, <3>2
    <3> QED BY <3>1, <3>2, <3>3
  <2> QED BY <2>1, <2>2
<1>6. \A i, j \in owing(G) : i < j => n[i] < n[j]
  <2> SUFFICES ASSUME NEW i \in owing(G), NEW j \in owing(G), i < j PROVE n[i] < n[j]
    OBVIOUS
  <2>1. i \in 1 .. Len(H) + 1 /\ j \in 1 .. Len(H) + 1 /\ j # 1
    BY <1>1, <1>3
  <2>2. j - 1 \in owing(H) /\ n[j] = m[j - 1] /\ m[j - 1] \in 2 .. L
    BY <1>2, <1>3, <2>1
  <2>3. CASE i = 1
    BY <1>1, <2>2, <2>3
  <2>4. CASE i # 1
    <3>1. i - 1 \in owing(H) /\ n[i] = m[i - 1] /\ i - 1 < j - 1
      BY <1>1, <1>3, <2>1, <2>4
    <3> QED BY <2>2, <3>1 DEF InStep
  <2> QED BY <2>3, <2>4
<1>7. ASSUME NEW i \in owing(G)
      PROVE  /\ pri[N[n[i]]] <= pri[G[i].vec[1]]
             /\ n[i] < L => pri[G[i].vec[1]] < pri[N[n[i] + 1]]
  <2>1. CASE i = 1
    BY <1>1, <2>1
  <2>2. CASE i # 1
    <3>1. i - 1 \in owing(H) /\ n[i] = m[i - 1] /\ G[i] = H[i - 1]
      BY <1>3, <2>2
    <3> QED BY <3>1 DEF InStep
  <2> QED BY <2>1, <2>2
<1>8. InStep(owing(G), G, N, 0, pri, n)
  <2>1. n \in [owing(G) -> 0 + 1 .. Len(N)]
    BY <1>4
  <2> HIDE DEF n
  <2> QED BY <2>1, <1>5, <1>6, <1>7 DEF InStep
<1> QED BY <1>4, <1>8 DEF G

(* The innermost handler ends the latest service.                          *)
LEMMA EndedInStep ==
  ASSUME NEW H \in Seq(Handlers), NEW N \in Seq(Sources), H # <<>>, ~H[1].ended,
         NEW pri \in Priorities, NEW m, InStep(owing(H), H, N, 0, pri, m)
  PROVE  LET G == [H EXCEPT ![1].ended = TRUE] IN
         /\ N # <<>>
         /\ \E n \in [owing(G) -> 1 .. Len(Tail(N))] :
              InStep(owing(G), G, Tail(N), 0, pri, n)
PROOF
<1> DEFINE G == [H EXCEPT ![1].ended = TRUE]
           n == [i \in owing(G) |-> m[i] - 1]
           L == Len(N)
           M == Tail(N)
<1>1. Len(H) \in Nat /\ 1 \in owing(H) /\ L \in Nat
  BY DEF owing
<1>2. m \in [owing(H) -> 1 .. L]
  BY DEF InStep
<1>3. L >= 1 /\ N # <<>>
  BY <1>1, <1>2
<1>4. Len(M) = L - 1 /\ \A k \in 1 .. L - 1 : M[k] = N[k + 1]
  BY <1>3
<1>5. /\ Len(G) = Len(H) /\ G[1].ended
      /\ \A i \in 1 .. Len(H) : i # 1 => G[i] = H[i]
  BY <1>1 DEF Handlers
<1> HIDE DEF G, M
<1>6. owing(G) = owing(H) \ {1}
  BY <1>1, <1>5 DEF owing
<1>7. m[1] = 1
  <2>1. PICK i \in owing(H) : m[i] = 1
    BY <1>3 DEF InStep
  <2>2. i \in Nat /\ i >= 1
    BY DEF owing
  <2>3. i # 1 => m[1] < m[i]
    BY <1>1, <2>2 DEF InStep
  <2> QED BY <1>1, <1>2, <2>1, <2>3
<1>8. \A i \in owing(G) : m[i] \in 2 .. L /\ n[i] = m[i] - 1 /\ i \in owing(H) /\ G[i] = H[i]
  <2> SUFFICES ASSUME NEW i \in owing(G)
               PROVE  m[i] \in 2 .. L /\ n[i] = m[i] - 1 /\ i \in owing(H) /\ G[i] = H[i]
    OBVIOUS
  <2>1. i \in owing(H) /\ i # 1 /\ i \in Nat /\ i > 1 /\ i \in 1 .. Len(H)
    BY <1>1, <1>6 DEF owing
  <2>2. m[1] < m[i]
    BY <1>1, <2>1 DEF InStep
  <2> QED BY <1>1, <1>2, <1>5, <1>7, <2>1, <2>2
<1>9. n \in [owing(G) -> 1 .. Len(M)]
  BY <1>1, <1>4, <1>8
<1>10. \A k \in 1 .. Len(M) : \E i \in owing(G) : n[i] = k
  <2> SUFFICES ASSUME NEW k \in 1 .. Len(M) PROVE \E i \in owing(G) : n[i] = k
    OBVIOUS
  <2>1. k + 1 \in 1 .. L /\ k + 1 # 1
    BY <1>1, <1>4
  <2>2. PICK i \in owing(H) : m[i] = k + 1
    BY <2>1 DEF InStep
  <2>3. i \in owing(G)
    BY <1>6, <1>7, <2>1, <2>2
  <2> QED BY <1>8, <2>1, <2>2, <2>3
<1>11. \A i, j \in owing(G) : i < j => n[i] < n[j]
  <2>1. \A i, j \in owing(H) : i < j => m[i] < m[j]
    BY DEF InStep
  <2> HIDE DEF n
  <2> QED BY <1>8, <2>1, <1>1
<1>12. ASSUME NEW i \in owing(G)
       PROVE  /\ pri[M[n[i]]] <= pri[G[i].vec[1]]
              /\ n[i] < Len(M) => pri[G[i].vec[1]] < pri[M[n[i] + 1]]
  <2>1. /\ m[i] \in 2 .. L /\ n[i] = m[i] - 1 /\ i \in owing(H) /\ G[i] = H[i]
    BY <1>8
  <2>2. /\ pri[N[m[i]]] <= pri[H[i].vec[1]]
        /\ m[i] < L => pri[H[i].vec[1]] < pri[N[m[i] + 1]]
    BY <2>1 DEF InStep
  <2>3. M[n[i]] = N[m[i]] /\ (m[i] < L => M[n[i] + 1] = N[m[i] + 1])
    <3>1. n[i] \in 1 .. L - 1 /\ n[i] + 1 = m[i] /\ (m[i] < L => m[i] \in 1 .. L - 1)
      BY <1>1, <2>1
    <3> HIDE DEF n
    <3> QED BY <1>4, <2>1, <3>1
  <2>4. n[i] < Len(M) <=> m[i] < L
    BY <1>1, <1>4, <2>1
  <2> QED BY <2>1, <2>2, <2>3, <2>4
<1>13. InStep(owing(G), G, M, 0, pri, n)
  <2>1. n \in [owing(G) -> 0 + 1 .. Len(M)]
    BY <1>9
  <2> HIDE DEF n
  <2> QED BY <2>1, <1>10, <1>11, <1>12 DEF InStep
<1> QED BY <1>3, <1>9, <1>13 DEF G, M

(* A handler that has ended its service returns.                           *)
LEMMA ReturnedInStep ==
  ASSUME NEW H \in Seq(Handlers), NEW N \in Seq(Sources), H # <<>>, H[1].ended,
         NEW pri \in Priorities, NEW m, InStep(owing(H), H, N, 0, pri, m)
  PROVE  \E n \in [owing(Tail(H)) -> 1 .. Len(N)] :
           InStep(owing(Tail(H)), Tail(H), N, 0, pri, n)
PROOF
<1> DEFINE G == Tail(H)
           n == [i \in owing(G) |-> m[i + 1]]
           L == Len(N)
<1>1. /\ Len(H) \in Nat /\ Len(H) >= 1 /\ L \in Nat /\ Len(G) = Len(H) - 1
      /\ \A i \in 1 .. Len(H) - 1 : G[i] = H[i + 1]
  OBVIOUS
<1> HIDE DEF G
<1>2. m \in [owing(H) -> 1 .. L]
  BY DEF InStep
<1>3. /\ \A i \in owing(G) : i \in Nat /\ i + 1 \in owing(H) /\ G[i] = H[i + 1]
      /\ \A i \in owing(H) : i - 1 \in owing(G) /\ i \in Nat
  BY <1>1 DEF owing
<1>4. n \in [owing(G) -> 1 .. L]
  BY <1>2, <1>3
<1>5. \A k \in 1 .. L : \E i \in owing(G) : n[i] = k
  <2> SUFFICES ASSUME NEW k \in 1 .. L PROVE \E i \in owing(G) : n[i] = k
    OBVIOUS
  <2>1. PICK i \in owing(H) : m[i] = k
    BY DEF InStep
  <2>2. i - 1 \in owing(G) /\ n[i - 1] = m[(i - 1) + 1] /\ (i - 1) + 1 = i
    BY <1>3
  <2> QED BY <2>1, <2>2
<1>6. \A i, j \in owing(G) : i < j => n[i] < n[j]
  <2>1. \A i, j \in owing(H) : i < j => m[i] < m[j]
    BY DEF InStep
  <2>2. \A i \in owing(G) : n[i] = m[i + 1]
    OBVIOUS
  <2> HIDE DEF n
  <2> QED BY <1>3, <2>1, <2>2
<1>7. ASSUME NEW i \in owing(G)
      PROVE  /\ pri[N[n[i]]] <= pri[G[i].vec[1]]
             /\ n[i] < L => pri[G[i].vec[1]] < pri[N[n[i] + 1]]
  <2>1. i + 1 \in owing(H) /\ n[i] = m[i + 1] /\ G[i] = H[i + 1]
    BY <1>3
  <2> QED BY <2>1 DEF InStep
<1>8. InStep(owing(G), G, N, 0, pri, n)
  <2>1. n \in [owing(G) -> 0 + 1 .. Len(N)]
    BY <1>4
  <2> HIDE DEF n
  <2> QED BY <2>1, <1>5, <1>6, <1>7 DEF InStep
<1> QED BY <1>4, <1>8 DEF G

(***************************************************************************)
(* The steps.                                                              *)
(***************************************************************************)

(* A step that enters, ends and leaves no handler keeps all in step.       *)
LEMMA SameHandlers ==
  ASSUME Types, Matched, pri_r' = pri_r, nest' = nest, core = "run", core' = "run",
         Len(handlers') = Len(handlers),
         \A i \in 1 .. Len(handlers) : /\ handlers'[i].vec = handlers[i].vec
                                       /\ handlers'[i].ended = handlers[i].ended
  PROVE  Matched'
PROOF
<1>1. open' = open /\ entering' = 0 /\ entering = 0
  BY DEF open, entering
<1>2. PICK m \in [open -> entering + 1 .. Len(nest)] :
        InStep(open, handlers, nest, entering, pri_r, m)
  BY DEF Matched
<1>3. InStep(open', handlers', nest', entering', pri_r', m)
  <2>1. open \subseteq 1 .. Len(handlers)
    BY DEF open
  <2> QED BY <1>1, <1>2, <2>1 DEF InStep
<1>4. m \in [open' -> entering' + 1 .. Len(nest')]
  BY <1>1, <1>2
<1> QED BY <1>3, <1>4 DEF Matched

LEMMA NothingOwed ==
  ASSUME Types, Matched, core = "run", handlers = <<>>
  PROVE  nest = <<>>
PROOF
<1>1. open = {} /\ entering = 0
  BY DEF open, entering
<1>2. PICK m \in [open -> entering + 1 .. Len(nest)] :
        InStep(open, handlers, nest, entering, pri_r, m)
  BY DEF Matched
<1>3. \A k \in 1 .. Len(nest) : \E i \in open : m[i] = k
  BY <1>1, <1>2 DEF InStep
<1>4. Len(nest) \in Nat /\ (Len(nest) >= 1 => 1 \in 1 .. Len(nest))
  BY DEF Types
<1> QED BY <1>1, <1>3, <1>4 DEF Types

(* A step that writes nothing and leaves the handlers' services alone.     *)
Idle ==
  /\ core = "run" /\ core' = "run" /\ Clock(FALSE, NoWrite)
  /\ pins' \in SUBSET PinSrcs /\ nest' = nest

IdleSteps ==
  \/ Execute \/ Cli \/ Sti \/ ServeDevice

LEMMA IdleStep ==
  ASSUME InterruptsInv, IdleSteps
  PROVE  InterruptsInv'
PROOF
<1> USE DEF InterruptsInv
<1>1. Idle
  <2>1. CASE Execute \/ Cli \/ Sti
    BY <2>1, PinsTyped DEF Execute, Cli, Sti, setFlag, Idle
  <2>2. CASE ServeDevice
    BY <2>2 DEF ServeDevice, pinsServed, Idle, Types
  <2> QED BY <2>1, <2>2 DEF IdleSteps
<1>2. /\ mask_r' = mask_r /\ pri_r' = pri_r /\ prio_mask_r' = prio_mask_r
      /\ isr_r' = isr_r
      /\ t_lat' \in SUBSET Timers /\ irr_latched' \in SUBSET DmaSrcs
  BY <1>1, ClockQuiet DEF Idle
<1>3. /\ handlers' \in Seq(Handlers) /\ Len(handlers') = Len(handlers)
      /\ \A i \in 1 .. Len(handlers) : /\ handlers'[i].vec = handlers[i].vec
                                       /\ handlers'[i].ended = handlers[i].ended
  <2>1. CASE Execute \/ Cli \/ Sti
    BY <2>1 DEF Execute, Cli, Sti, setFlag, Types
  <2>2. CASE ServeDevice
    <3>1. handlers \in Seq(Handlers) /\ 1 \in 1 .. Len(handlers)
          /\ handlers' = [handlers EXCEPT ![1].served = TRUE]
      BY <2>2 DEF ServeDevice, quiet, Types
    <3>2. Len(handlers') = Len(handlers)
          /\ \A i \in 1 .. Len(handlers) : handlers'[i] = IF i = 1
               THEN [handlers[1] EXCEPT !.served = TRUE] ELSE handlers[i]
      BY <3>1
    <3>3. \A i \in 1 .. Len(handlers) : handlers[i] \in Handlers
      BY <3>1
    <3>4. \A h \in Handlers : /\ [h EXCEPT !.served = TRUE] \in Handlers
                              /\ [h EXCEPT !.served = TRUE].vec = h.vec
                              /\ [h EXCEPT !.served = TRUE].ended = h.ended
      BY DEF Handlers
    <3>5. handlers' \in Seq(Handlers)
      BY <3>1, <3>3, <3>4
    <3> QED BY <3>1, <3>2, <3>3, <3>4, <3>5
  <2> QED BY <2>1, <2>2 DEF IdleSteps
<1>4. Types'
  BY <1>1, <1>2, <1>3 DEF Idle, Types
<1>5. Nested'
  BY <1>1, <1>2 DEF Idle, Nested
<1>6. Asked' /\ Marked'
  BY <1>1 DEF Idle, Asked, Marked
<1>7. Matched'
  BY <1>1, <1>2, <1>3, SameHandlers DEF Idle
<1> QED BY <1>4, <1>5, <1>6, <1>7

LEMMA WriteStep ==
  ASSUME InterruptsInv, WriteRegister
  PROVE  InterruptsInv'
PROOF
<1> USE DEF InterruptsInv
<1>1. core = "run" /\ UNCHANGED <<core, vec, IF_flag, handlers, nest>> /\ pinsRaised
  BY DEF WriteRegister
<1>2. PICK w \in Writes : mayWrite(w) /\ Clock(FALSE, w)
  BY DEF WriteRegister
<1>3. /\ IcTypes' /\ (isr_r' = isr_r \/ isr_r' = {})
      /\ ~quiet => pri_r' = pri_r /\ isr_r' = isr_r
  BY <1>2, ClockWrites
<1>4. Types'
  BY <1>1, <1>3, PinsTyped DEF Types, IcTypes
<1>5. Asked' /\ Marked'
  BY <1>1 DEF Asked, Marked
<1>6. CASE quiet
  <2>1. nest = <<>> /\ nest' = <<>> /\ handlers' = <<>>
    BY <1>1, <1>6, NothingOwed DEF quiet
  <2>2. Nested'
    <3>1. isr_r = {}
      BY <2>1 DEF Nested
    <3> QED BY <1>3, <2>1, <3>1 DEF Nested
  <2>3. Matched'
    <3> DEFINE none == [i \in {} |-> 1]
    <3>1. open' = {} /\ entering' = 0 /\ Len(nest') = 0
      BY <1>1, <2>1 DEF open, entering
    <3>2. none \in [{} -> 1 .. 0]
      OBVIOUS
    <3>3. InStep({}, handlers', nest', 0, pri_r', none)
      BY <3>1, <3>2 DEF InStep
    <3> QED BY <3>1, <3>2, <3>3 DEF Matched
  <2> QED BY <1>4, <1>5, <2>2, <2>3
<1>7. CASE ~quiet
  <2>1. pri_r' = pri_r /\ isr_r' = isr_r
    BY <1>3, <1>7
  <2>2. Nested'
    BY <1>1, <2>1 DEF Nested
  <2>3. Matched'
    BY <1>1, <2>1, SameHandlers
  <2> QED BY <1>4, <1>5, <2>2, <2>3
<1> QED BY <1>6, <1>7

LEMMA EndStep ==
  ASSUME InterruptsInv, EndService
  PROVE  InterruptsInv'
PROOF
<1> USE DEF InterruptsInv
<1>1. /\ core = "run" /\ core' = "run" /\ handlers # <<>> /\ ~handlers[1].ended
      /\ Clock(FALSE, Eoi) /\ pinsRaised
      /\ handlers' = [handlers EXCEPT ![1].ended = TRUE]
      /\ nest' = IF nest = <<>> THEN nest ELSE Tail(nest)
  BY DEF EndService, quiet, top
<1>2. PICK m \in [open -> entering + 1 .. Len(nest)] :
        InStep(open, handlers, nest, entering, pri_r, m)
  BY DEF Matched
<1>3. open = owing(handlers) /\ open' = owing(handlers') /\ entering = 0 /\ entering' = 0
  BY <1>1 DEF open, owing, entering
<1>4. handlers \in Seq(Handlers) /\ nest \in Seq(Sources) /\ pri_r \in Priorities
  BY DEF Types, Priorities
<1>5. /\ nest # <<>>
      /\ \E n \in [owing(handlers') -> 1 .. Len(Tail(nest))] :
           InStep(owing(handlers'), handlers', Tail(nest), 0, pri_r, n)
  BY <1>1, <1>2, <1>3, <1>4, EndedInStep
<1>6. isr_r # {} /\ eoi_target = nest[1]
  BY <1>5, EoiTarget
<1>7. /\ mask_r' = mask_r /\ pri_r' = pri_r /\ prio_mask_r' = prio_mask_r
      /\ isr_r' = isr_r \ {nest[1]} /\ nest' = Tail(nest)
      /\ t_lat' \in SUBSET Timers /\ irr_latched' \in SUBSET DmaSrcs
  BY <1>1, <1>5, <1>6, ClockEnds
<1>8. Types'
  <2>1. handlers' \in Seq(Handlers)
    <3>1. 1 \in 1 .. Len(handlers) /\ \A i \in 1 .. Len(handlers) : handlers[i] \in Handlers
      BY <1>1, <1>4
    <3>2. [handlers[1] EXCEPT !.ended = TRUE] \in Handlers
      BY <3>1 DEF Handlers
    <3> QED BY <1>1, <1>4, <3>1, <3>2
  <2>2. nest' \in Seq(Sources)
    BY <1>4, <1>5, <1>7
  <2> QED BY <1>1, <1>7, <2>1, <2>2, PinsTyped DEF Types
<1>9. Nested'
  <2>1. Len(nest') = Len(nest) - 1 /\ Len(nest) \in Nat
        /\ \A k \in 1 .. Len(nest) - 1 : nest'[k] = nest[k + 1]
    BY <1>4, <1>5, <1>7
  <2>2. \A i, j \in 1 .. Len(nest) : i < j => pri_r[nest[i]] < pri_r[nest[j]]
    BY DEF Nested
  <2>3. \A i, j \in 1 .. Len(nest') : i < j => pri_r'[nest'[i]] < pri_r'[nest'[j]]
    BY <1>7, <2>1, <2>2
  <2>4. \A k \in 1 .. Len(nest) : k # 1 => nest[k] # nest[1]
    <3> SUFFICES ASSUME NEW k \in 1 .. Len(nest), k # 1 PROVE nest[k] # nest[1]
      OBVIOUS
    <3>1. pri_r[nest[1]] < pri_r[nest[k]] /\ pri_r[nest[1]] \in Nat
      BY <1>4, <2>1, <2>2, PrisNat
    <3> QED BY <3>1
  <2>5. isr_r' = {nest'[i] : i \in 1 .. Len(nest')}
    <3>1. ASSUME NEW s \in isr_r' PROVE \E i \in 1 .. Len(nest') : s = nest'[i]
      <4>1. PICK k \in 1 .. Len(nest) : s = nest[k]
        BY <1>7 DEF Nested
      <4>2. k # 1
        BY <1>7, <4>1
      <4>3. k - 1 \in 1 .. Len(nest') /\ (k - 1) + 1 = k
        BY <2>1, <4>2
      <4> QED BY <2>1, <4>1, <4>3
    <3>2. ASSUME NEW i \in 1 .. Len(nest') PROVE nest'[i] \in isr_r'
      <4>1. i + 1 \in 1 .. Len(nest) /\ i + 1 # 1 /\ nest'[i] = nest[i + 1]
        BY <2>1
      <4>2. nest[i + 1] \in isr_r
        BY <4>1 DEF Nested
      <4> QED BY <1>7, <2>4, <4>1, <4>2
    <3> QED BY <3>1, <3>2
  <2> QED BY <2>3, <2>5 DEF Nested
<1>10. Asked' /\ Marked'
  BY <1>1 DEF Asked, Marked
<1>11. Matched'
  BY <1>3, <1>5, <1>7 DEF Matched
<1> QED BY <1>8, <1>9, <1>10, <1>11

LEMMA ReturnStep ==
  ASSUME InterruptsInv, Return
  PROVE  InterruptsInv'
PROOF
<1> USE DEF InterruptsInv
<1>1. /\ core = "run" /\ core' = "run" /\ handlers # <<>> /\ handlers[1].ended
      /\ Clock(FALSE, NoWrite) /\ pinsRaised
      /\ handlers' = Tail(handlers) /\ nest' = nest
  BY DEF Return, quiet, top
<1>2. PICK m \in [open -> entering + 1 .. Len(nest)] :
        InStep(open, handlers, nest, entering, pri_r, m)
  BY DEF Matched
<1>3. open = owing(handlers) /\ open' = owing(handlers') /\ entering = 0 /\ entering' = 0
  BY <1>1 DEF open, owing, entering
<1>4. handlers \in Seq(Handlers) /\ nest \in Seq(Sources) /\ pri_r \in Priorities
  BY DEF Types, Priorities
<1>5. \E n \in [owing(handlers') -> 1 .. Len(nest)] :
           InStep(owing(handlers'), handlers', nest, 0, pri_r, n)
  BY <1>1, <1>2, <1>3, <1>4, ReturnedInStep
<1>6. /\ mask_r' = mask_r /\ pri_r' = pri_r /\ prio_mask_r' = prio_mask_r
      /\ isr_r' = isr_r
      /\ t_lat' \in SUBSET Timers /\ irr_latched' \in SUBSET DmaSrcs
  BY <1>1, ClockQuiet
<1>7. Types'
  <2>1. handlers' \in Seq(Handlers)
    BY <1>1, <1>4
  <2> QED BY <1>1, <1>6, <2>1, PinsTyped DEF Types
<1>8. Nested' /\ Asked' /\ Marked'
  BY <1>1, <1>6 DEF Nested, Asked, Marked
<1>9. Matched'
  BY <1>1, <1>3, <1>5, <1>6 DEF Matched
<1> QED BY <1>7, <1>8, <1>9

LEMMA AcceptStep ==
  ASSUME InterruptsInv, Accept
  PROVE  InterruptsInv'
PROOF
<1> USE DEF InterruptsInv
<1>1. /\ core = "run" /\ intr /\ Clock(FALSE, NoWrite) /\ pinsRaised
      /\ vec' = vector_type /\ core' = "prep" /\ handlers' = handlers /\ nest' = nest
  BY DEF Accept
<1>2. /\ mask_r' = mask_r /\ pri_r' = pri_r /\ prio_mask_r' = prio_mask_r
      /\ isr_r' = isr_r
      /\ t_lat' \in SUBSET Timers /\ irr_latched' \in SUBSET DmaSrcs
      /\ t_lat \subseteq t_lat' /\ irr_latched \subseteq irr_latched'
  BY <1>1, ClockQuiet
<1>3. pins' \in SUBSET PinSrcs /\ pins \subseteq pins'
  BY <1>1, PinsTyped
<1>4. winner \in eligible /\ vec' \in Vectors /\ vec'[1] = winner
  BY <1>1, WinnerEligible
<1>5. Types'
  BY <1>1, <1>2, <1>3, <1>4 DEF Types
<1>6. Asked'
  <2>1. request \subseteq request'
    BY <1>2, <1>3 DEF request
  <2>2. isr_pri' = isr_pri
    BY <1>2 DEF isr_pri
  <2>3. winner \in eligible'
    BY <1>2, <1>4, <2>1, <2>2 DEF eligible
  <2> QED BY <1>4, <2>3 DEF Asked
<1>7. Nested' /\ Marked'
  BY <1>1, <1>2 DEF Nested, Marked
<1>8. Matched'
  <2>1. open' = open /\ entering' = entering
    BY <1>1 DEF open, entering
  <2> QED BY <1>1, <1>2, <2>1 DEF Matched
<1> QED BY <1>5, <1>6, <1>7, <1>8

LEMMA AcknowledgeStep ==
  ASSUME InterruptsInv, Acknowledge
  PROVE  InterruptsInv'
PROOF
<1> USE DEF InterruptsInv
<1>1. /\ core = "prep" /\ core' = "apply" /\ Clock(intr, NoWrite) /\ pinsRaised
      /\ nest' = (IF intr THEN <<winner>> \o nest ELSE nest)
      /\ vec' = vec /\ handlers' = handlers
  BY DEF Acknowledge
<1>2. vec[1] \in eligible /\ intr
  BY <1>1 DEF Asked, intr
<1>3. winner \in eligible /\ pri_r[winner] <= pri_r[vec[1]]
  BY <1>2, WinnerEligible
<1>4. /\ mask_r' = mask_r /\ pri_r' = pri_r /\ prio_mask_r' = prio_mask_r
      /\ isr_r' = isr_r \cup {winner} /\ nest' = <<winner>> \o nest
      /\ t_lat' \in SUBSET Timers /\ irr_latched' \in SUBSET DmaSrcs
  BY <1>1, <1>2, ClockMarks
<1>5. /\ winner \in Sources /\ \A i \in 1 .. Len(nest) : pri_r[winner] < pri_r[nest[i]]
  BY <1>3, EligibleAbove
<1>6. nest \in Seq(Sources) /\ handlers \in Seq(Handlers) /\ pri_r \in Priorities
  BY DEF Types, Priorities
<1>7. /\ Len(nest) \in Nat /\ Len(nest') = Len(nest) + 1 /\ nest'[1] = winner
      /\ nest' \in Seq(Sources) /\ \A k \in 1 .. Len(nest) : nest'[k + 1] = nest[k]
  BY <1>4, <1>5, <1>6
<1>8. Types'
  BY <1>1, <1>4, <1>5, <1>7, PinsTyped DEF Types
<1>9. Nested'
  <2>1. \A i, j \in 1 .. Len(nest) : i < j => pri_r[nest[i]] < pri_r[nest[j]]
    BY DEF Nested
  <2>2. ASSUME NEW i \in 1 .. Len(nest'), NEW j \in 1 .. Len(nest'), i < j
        PROVE  pri_r'[nest'[i]] < pri_r'[nest'[j]]
    <3>1. j - 1 \in 1 .. Len(nest) /\ nest'[j] = nest[j - 1]
      <4>1. j - 1 \in 1 .. Len(nest) /\ (j - 1) + 1 = j
        BY <1>7, <2>2
      <4> QED BY <1>7, <4>1
    <3>2. CASE i = 1
      BY <1>4, <1>5, <1>7, <3>1, <3>2
    <3>3. CASE i # 1
      <4>1. i - 1 \in 1 .. Len(nest) /\ (i - 1) + 1 = i /\ i - 1 < j - 1
        BY <1>7, <2>2, <3>3
      <4>2. nest'[i] = nest[i - 1]
        BY <1>7, <4>1
      <4> QED BY <1>4, <2>1, <3>1, <4>1, <4>2
    <3> QED BY <3>2, <3>3
  <2>3. isr_r' = {nest'[i] : i \in 1 .. Len(nest')}
    <3>1. ASSUME NEW s \in isr_r' PROVE \E i \in 1 .. Len(nest') : s = nest'[i]
      <4>1. CASE s = winner
        BY <1>7, <4>1
      <4>2. CASE s # winner
        <5>1. PICK k \in 1 .. Len(nest) : s = nest[k]
          BY <1>4, <4>2 DEF Nested
        <5>2. k + 1 \in 1 .. Len(nest')
          BY <1>7
        <5> QED BY <1>7, <5>1, <5>2
      <4> QED BY <4>1, <4>2
    <3>2. ASSUME NEW i \in 1 .. Len(nest') PROVE nest'[i] \in isr_r'
      <4>1. CASE i = 1
        BY <1>4, <1>7, <4>1
      <4>2. CASE i # 1
        <5>1. i - 1 \in 1 .. Len(nest) /\ (i - 1) + 1 = i
          BY <1>7, <4>2
        <5>2. nest[i - 1] \in isr_r /\ nest'[i] = nest[i - 1]
          BY <1>7, <5>1 DEF Nested
        <5> QED BY <1>4, <5>2
      <4> QED BY <4>1, <4>2
    <3> QED BY <3>1, <3>2
  <2> QED BY <2>2, <2>3 DEF Nested
<1>10. Asked'
  BY <1>1 DEF Asked
<1>11. Marked'
  <2>1. pri_r[nest'[1]] <= pri_r[vec[1]] /\ nest' # <<>>
    BY <1>3, <1>7
  <2>2. Len(nest') > 1 => pri_r[vec[1]] < pri_r[nest'[2]]
    <3>1. Len(nest') > 1 => 1 \in 1 .. Len(nest) /\ nest'[1 + 1] = nest[1]
      BY <1>7
    <3>2. \A i \in 1 .. Len(nest) : pri_r[vec[1]] < pri_r[nest[i]]
      BY <1>2, EligibleAbove
    <3> QED BY <3>1, <3>2
  <2> QED BY <1>1, <1>4, <2>1, <2>2 DEF Marked
<1>12. Matched'
  <2>1. open = owing(handlers) /\ open' = owing(handlers) /\ entering = 0 /\ entering' = 1
    BY <1>1 DEF open, owing, entering
  <2>2. PICK m \in [open -> entering + 1 .. Len(nest)] :
          InStep(open, handlers, nest, entering, pri_r, m)
    BY DEF Matched
  <2>3. \E n \in [owing(handlers) -> 2 .. Len(nest')] :
          InStep(owing(handlers), handlers, nest', 1, pri_r, n)
    BY <1>4, <1>5, <1>6, <2>1, <2>2, MarkedInStep
  <2> QED BY <1>1, <1>4, <2>1, <2>3 DEF Matched
<1> QED BY <1>8, <1>9, <1>10, <1>11, <1>12

LEMMA EnterStep ==
  ASSUME InterruptsInv, EnterHandler
  PROVE  InterruptsInv'
PROOF
<1> USE DEF InterruptsInv
<1> DEFINE h == [vec |-> vec, served |-> vec[1] \notin PinSrcs, ended |-> FALSE]
<1>1. /\ core = "apply" /\ core' = "run" /\ Clock(FALSE, NoWrite) /\ pinsRaised
      /\ handlers' = <<h>> \o handlers /\ nest' = nest
  BY DEF EnterHandler
<1>2. /\ mask_r' = mask_r /\ pri_r' = pri_r /\ prio_mask_r' = prio_mask_r
      /\ isr_r' = isr_r
      /\ t_lat' \in SUBSET Timers /\ irr_latched' \in SUBSET DmaSrcs
  BY <1>1, ClockQuiet
<1>3. h \in Handlers /\ ~h.ended /\ h.vec = vec
  BY <1>1 DEF Types, Handlers
<1>4. nest \in Seq(Sources) /\ handlers \in Seq(Handlers) /\ pri_r \in Priorities
  BY DEF Types, Priorities
<1> HIDE DEF h
<1>5. Types'
  <2>1. handlers' \in Seq(Handlers)
    BY <1>1, <1>3, <1>4
  <2> QED BY <1>1, <1>2, <2>1, PinsTyped DEF Types
<1>6. Nested' /\ Asked' /\ Marked'
  BY <1>1, <1>2 DEF Nested, Asked, Marked
<1>7. Matched'
  <2>1. open = owing(handlers) /\ open' = owing(handlers') /\ entering = 1 /\ entering' = 0
    BY <1>1 DEF open, owing, entering
  <2>2. PICK m \in [open -> entering + 1 .. Len(nest)] :
          InStep(open, handlers, nest, entering, pri_r, m)
    BY DEF Matched
  <2>3. /\ nest # <<>> /\ pri_r[nest[1]] <= pri_r[h.vec[1]]
        /\ Len(nest) > 1 => pri_r[h.vec[1]] < pri_r[nest[2]]
    BY <1>1, <1>3 DEF Marked
  <2>4. \E n \in [owing(handlers') -> 1 .. Len(nest)] :
          InStep(owing(handlers'), handlers', nest, 0, pri_r, n)
    BY <1>1, <1>3, <1>4, <2>1, <2>2, <2>3, EnteredInStep
  <2> QED BY <1>1, <1>2, <2>1, <2>4 DEF Matched
<1> QED BY <1>5, <1>6, <1>7

LEMMA InterruptsInit == Init => InterruptsInv
PROOF
<1> SUFFICES ASSUME Init PROVE InterruptsInv
  OBVIOUS
<1> USE DEF Init, IcInit
<1>1. Types
  BY IcAssumptions DEF Types
<1>2. Nested /\ Asked /\ Marked
  BY DEF Nested, Asked, Marked
<1>3. Matched
  <2> DEFINE none == [i \in {} |-> 1]
  <2>1. open = {} /\ entering = 0 /\ Len(nest) = 0
    BY DEF open, entering
  <2>2. none \in [{} -> 1 .. 0]
    OBVIOUS
  <2>3. InStep({}, handlers, nest, 0, pri_r, none)
    BY <2>1, <2>2 DEF InStep
  <2> QED BY <2>1, <2>2, <2>3 DEF Matched
<1> QED BY <1>1, <1>2, <1>3 DEF InterruptsInv

LEMMA InterruptsStep == InterruptsInv /\ [Next]_vars => InterruptsInv'
PROOF
<1> SUFFICES ASSUME InterruptsInv, [Next]_vars PROVE InterruptsInv'
  OBVIOUS
<1>1. CASE Next
  BY <1>1, IdleStep, WriteStep, EndStep, ReturnStep, AcceptStep, AcknowledgeStep, EnterStep
     DEF Next, IdleSteps
<1>2. CASE UNCHANGED vars
  <2>1. UNCHANGED <<mask_r, isr_r, t_lat, irr_latched, pri_r, prio_mask_r, pins, core, vec,
                    handlers, nest>>
    BY <1>2 DEF vars, icRegs
  <2>2. open' = open /\ entering' = entering /\ eligible' = eligible
    BY <2>1 DEF open, entering, eligible, request, isr_pri
  <2>3. Types' /\ Nested' /\ Asked' /\ Marked'
    BY <2>1, <2>2 DEF InterruptsInv, Types, Nested, Asked, Marked
  <2>4. Matched'
    BY <2>1, <2>2 DEF InterruptsInv, Matched
  <2> QED BY <2>3, <2>4 DEF InterruptsInv
<1> QED BY <1>1, <1>2

(* Handlers, vectors and in-service bits go in step, whatever is asserted, *)
(* pulsed, masked or written meanwhile.                                    *)
THEOREM InterruptsInvariant == Spec => []InterruptsInv
BY InterruptsInit, InterruptsStep, PTL DEF Spec

LEMMA OpenTyped ==
  ASSUME Types, NEW i \in open
  PROVE  /\ i \in 1 .. Len(handlers) /\ handlers[i].vec[1] \in Sources
         /\ pri_r[handlers[i].vec[1]] \in Nat
PROOF
<1>1. i \in 1 .. Len(handlers) /\ handlers \in Seq(Handlers)
  BY DEF open, Types
<1>2. handlers[i] \in Handlers
  BY <1>1
<1>3. handlers[i].vec \in Vectors
  BY <1>2 DEF Handlers
<1> QED BY <1>1, <1>3, HandlerSource, PrisNat DEF Types, Priorities

(* Every handler that has not sent its EOI has an in-service bit of its    *)
(* own to end, every bit has a handler that will end it, and an EOI ends   *)
(* the latest (interrupt_controller.sv, lines 47-50 and 69-74), even when  *)
(* the bit was marked for a more urgent source than the vector taken.      *)
THEOREM InterruptsServicesAccounted == Spec => []ServicesAccounted
PROOF
<1>1. ASSUME InterruptsInv PROVE ServicesAccounted
  <2> USE <1>1 DEF InterruptsInv
  <2> DEFINE L == Len(nest)
             places == [k \in 1 .. L |-> nest[k]]
  <2>1. L \in Nat /\ \A k \in 1 .. L : nest[k] \in Sources /\ pri_r[nest[k]] \in Nat
    BY PrisNat DEF Types, Priorities
  <2>2. \A i, j \in 1 .. L : i < j => pri_r[nest[i]] < pri_r[nest[j]]
    BY DEF Nested
  <2>3. Cardinality(isr_r) = L
    <3>1. places \in [1 .. L -> isr_r]
      BY DEF Nested
    <3>2. \A k, j \in 1 .. L : places[k] = places[j] => k = j
      <4> SUFFICES ASSUME NEW k \in 1 .. L, NEW j \in 1 .. L, nest[k] = nest[j]
                   PROVE  k = j
        OBVIOUS
      <4>1. ~(k < j) /\ ~(j < k)
        BY <2>1, <2>2
      <4> QED BY <2>1, <4>1
    <3>3. \A s \in isr_r : \E k \in 1 .. L : places[k] = s
      BY DEF Nested
    <3>4. ExistsBijection(1 .. L, isr_r)
      <4> HIDE DEF places
      <4> QED BY <3>1, <3>2, <3>3, Fun_IsInj, Fun_IsSurj
              DEF ExistsBijection, Bijection
    <3> QED BY <2>1, <3>4, FS_CountingElements
  <2>4. Cardinality(open) = L - entering
    <3>1. PICK m \in [open -> entering + 1 .. L] :
            InStep(open, handlers, nest, entering, pri_r, m)
      BY DEF Matched
    <3>2. entering \in {0, 1} /\ (entering = 1 => L >= 1)
      BY <2>1 DEF entering, Marked, Types
    <3>3. \A i, j \in open : m[i] = m[j] => i = j
      <4> SUFFICES ASSUME NEW i \in open, NEW j \in open, m[i] = m[j] PROVE i = j
        OBVIOUS
      <4>1. i \in Nat /\ j \in Nat /\ m[i] \in Nat
        BY <2>1, <3>1, <3>2 DEF open
      <4>2. ~(i < j) /\ ~(j < i)
        BY <3>1, <4>1 DEF InStep
      <4> QED BY <4>1, <4>2
    <3>4. \A k \in entering + 1 .. L : \E i \in open : m[i] = k
      BY <3>1 DEF InStep
    <3>5. ExistsBijection(open, entering + 1 .. L)
      BY <3>1, <3>3, <3>4, Fun_IsInj, Fun_IsSurj DEF ExistsBijection, Bijection
    <3>6. IsFiniteSet(open)
      <4>1. IsFiniteSet(1 .. Len(handlers)) /\ open \in SUBSET (1 .. Len(handlers))
        BY FS_Interval DEF open, Types
      <4> QED BY <4>1, FS_Subset
    <3>7. Cardinality(entering + 1 .. L) = Cardinality(open)
      BY <3>5, <3>6, FS_Bijection
    <3>8. Cardinality(entering + 1 .. L) = L - entering
      <4>1. entering + 1 \in Int /\ L \in Int
        BY <2>1, <3>2
      <4>2. Cardinality(entering + 1 .. L)
              = IF entering + 1 > L THEN 0 ELSE L - (entering + 1) + 1
        BY <4>1, FS_Interval
      <4> HIDE DEF L
      <4> QED BY <2>1, <3>2, <4>1, <4>2
    <3> QED BY <3>7, <3>8
  <2>5. entering = IF core = "apply" THEN 1 ELSE 0
    BY DEF entering
  <2>6. Cardinality(isr_r) = Cardinality(open) + (IF core = "apply" THEN 1 ELSE 0)
    <3>1. entering \in {0, 1}
      BY DEF entering
    <3>2. Cardinality(isr_r) = Cardinality(open) + entering
      <4> HIDE DEF L
      <4> QED BY <2>1, <2>3, <2>4, <3>1
    <3> QED BY <2>5, <3>2
  <2> QED BY <2>2, <2>3, <2>6 DEF ServicesAccounted, Nested
<1> QED BY <1>1, InterruptsInvariant, PTL

(* A handler that has not ended its service is interrupted only by a more  *)
(* urgent source, even when the acknowledge marked another source than the *)
(* one the core took its vector for.                                       *)
THEOREM InterruptsUrgencyRespected == Spec => []UrgencyRespected
PROOF
<1>1. ASSUME InterruptsInv, NEW i \in open, NEW j \in open, i < j
      PROVE  pri_r[handlers[i].vec[1]] < pri_r[handlers[j].vec[1]]
  <2> USE <1>1 DEF InterruptsInv
  <2>1. PICK m \in [open -> entering + 1 .. Len(nest)] :
          InStep(open, handlers, nest, entering, pri_r, m)
    BY DEF Matched
  <2>2. m[i] < m[j] /\ m[i] \in 1 .. Len(nest) /\ m[j] \in 1 .. Len(nest)
        /\ Len(nest) \in Nat
    <3>1. entering \in {0, 1}
      BY DEF entering
    <3> QED BY <2>1, <3>1 DEF InStep, Types
  <2>3. /\ pri_r[handlers[i].vec[1]] < pri_r[nest[m[i] + 1]]
        /\ pri_r[nest[m[j]]] <= pri_r[handlers[j].vec[1]]
    BY <2>1, <2>2 DEF InStep
  <2>4. pri_r[nest[m[i] + 1]] <= pri_r[nest[m[j]]]
    <3>1. m[i] + 1 \in 1 .. Len(nest) /\ (m[i] + 1 = m[j] \/ m[i] + 1 < m[j])
      BY <2>2
    <3>2. m[i] + 1 < m[j] => pri_r[nest[m[i] + 1]] < pri_r[nest[m[j]]]
      BY <2>2, <3>1 DEF Nested
    <3>3. pri_r[nest[m[i] + 1]] \in Nat /\ pri_r[nest[m[j]]] \in Nat
      <4>1. nest[m[i] + 1] \in Sources /\ nest[m[j]] \in Sources
        BY <2>2, <3>1 DEF Types
      <4> QED BY <4>1, PrisNat DEF Types, Priorities
    <3> QED BY <3>1, <3>2, <3>3
  <2>5. /\ pri_r[handlers[i].vec[1]] \in Nat /\ pri_r[handlers[j].vec[1]] \in Nat
        /\ pri_r[nest[m[i] + 1]] \in Nat /\ pri_r[nest[m[j]]] \in Nat
    <3>1. m[i] + 1 \in 1 .. Len(nest)
      BY <2>2
    <3>2. nest[m[i] + 1] \in Sources /\ nest[m[j]] \in Sources
      BY <2>2, <3>1 DEF Types
    <3> QED BY <3>2, PrisNat, OpenTyped DEF Types, Priorities
  <2> QED BY <2>3, <2>4, <2>5
<1>2. InterruptsInv => UrgencyRespected
  BY <1>1 DEF UrgencyRespected
<1> QED BY <1>2, InterruptsInvariant, PTL
=============================================================================
