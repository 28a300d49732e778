----------------------------- MODULE BiosProofs -----------------------------
(***************************************************************************)
(* The promises of the BIOS services, for every keyboard, every size of    *)
(* FIFO, ring, screen, sector and device.                                  *)
(*                                                                         *)
(* Keys and clock (Typing):                                                *)
(*   - a chained handler and the BIOS read the same byte, because the read *)
(*     of the first starts the hold-off, and while it lasts the latch is   *)
(*     not loaded (Chained);                                               *)
(*   - INT 1Ah's two words belong together, because the tick handler       *)
(*     cannot start between them (Undisturbed), and its two words with     *)
(*     their carry are one count (Together);                               *)
(*   - the program gets the keys in the order and the case they were       *)
(*     pressed in (KeysInv): the ring holds the oldest keys due (Ringed),  *)
(*     and the bytes still on their way, read in order from the modifiers  *)
(*     of 40:17, give the rest of the keys due and end with the modifiers  *)
(*     that are down (Flow).                                               *)
(*                                                                         *)
(* Disk (DiskService, Storage): if the device ends below the limit of the  *)
(* engine's address, the engine stays in the disk's window, under INT 13h  *)
(* and programs that use the ports themselves; and, for sector numbers     *)
(* that fit into the sixteen bits the BIOS computes them in, a call moves  *)
(* the sectors it names, up to the first the device does not have, and     *)
(* nothing else.  The first condition is needed: the window of             *)
(* BASE = 8 * 2^16 words and SECTORS = 2^15 ends above AMOD = 2^23, and    *)
(* the last sectors come out below BASE.                                   *)
(*                                                                         *)
(* Screen: the text services implement Terminal, for callers that leave    *)
(* zero in BL.  Then the frame of scroll_up counts as its two bytes would  *)
(* on their own (FrameTurn, CountIs), the copy loop and the blank loop are *)
(* what their turns add up to (CopyPhaseIs, BlankPhaseIs, by induction     *)
(* over the turns), and the buffer seen as lines (View) changes by one     *)
(* operation of Terminal (the View... lemmas).  ScreenInv is inductive: in *)
(* text mode the CRTC's offset is the cursor's.                            *)
(***************************************************************************)
EXTENDS Bios, SequenceTheorems, WellFoundedInduction, TLAPS

(* Keys and clock. *)

Chained ==
  /\ isr \in {"hook", "bios"} => obf
  /\ isr = "chain" => hold /\ ~obf /\ mine = obuf

Together ==
  /\ tlo \in 0..TWORD - 1 /\ thi \in 0..TWORD - 1
  /\ ticked = thi * TWORD + tlo

Undisturbed ==
  /\ prog \in {"timelo", "timehi"} => ~ie /\ isr = "none"
  /\ prog = "timehi" => dx = tlo

(***************************************************************************)
(* Counting in two words.                                                  *)
(***************************************************************************)

LEMMA RoundRange ==
  ASSUME NEW n \in Nat \ {0}, NEW x \in 0..n - 1
  PROVE  Round(x, n) \in 0..n - 1
BY DEF Round

(* The low word with its carry into the high one is one counter of twice   *)
(* the width.                                                              *)
LEMMA RoundTogether ==
  ASSUME NEW w \in Nat \ {0}, NEW h \in 0..w - 1, NEW l \in 0..w - 1
  PROVE  Round(h * w + l, w * w)
           = (IF Round(l, w) = 0 THEN Round(h, w) ELSE h) * w + Round(l, w)
PROOF
<1>1. (w - 1) * w = w * w - w /\ h * w \in Int /\ w * w \in Int
  OBVIOUS
<1>2. CASE l + 1 # w
  <2>1. h * w <= (w - 1) * w
    OBVIOUS
  <2>2. h * w + l + 1 < w * w
    BY <1>1, <1>2, <2>1
  <2>3. Round(h * w + l, w * w) = h * w + (l + 1)
    BY <1>1, <2>2 DEF Round
  <2>4. Round(l, w) = l + 1 /\ l + 1 # 0
    BY <1>2 DEF Round
  <2> QED BY <2>3, <2>4
<1>3. CASE l + 1 = w /\ h + 1 # w
  <2>1. (h + 1) * w <= (w - 1) * w /\ (h + 1) * w = h * w + w
    BY <1>3
  <2>2. h * w + l + 1 = (h + 1) * w /\ (h + 1) * w < w * w
    BY <1>1, <1>3, <2>1
  <2>3. Round(h * w + l, w * w) = (h + 1) * w
    BY <1>1, <2>2 DEF Round
  <2>4. Round(l, w) = 0 /\ Round(h, w) = h + 1
    BY <1>3 DEF Round
  <2> QED BY <2>3, <2>4
<1>4. CASE l + 1 = w /\ h + 1 = w
  <2>1. h * w + l + 1 = w * w
    BY <1>1, <1>4
  <2>2. Round(h * w + l, w * w) = 0
    BY <1>1, <2>1 DEF Round
  <2>3. Round(l, w) = 0 /\ Round(h, w) = 0
    BY <1>4 DEF Round
  <2> QED BY <2>2, <2>3
<1> QED BY <1>2, <1>3, <1>4

(***************************************************************************)
(* The chained handlers.                                                   *)
(***************************************************************************)

LEMMA ChainedStep == Chained /\ [TypingNext]_typingVars => Chained'
PROOF
<1> SUFFICES ASSUME Chained, [TypingNext]_typingVars PROVE Chained'
  OBVIOUS
<1> USE DEF Chained
<1>1. ASSUME NEW k \in KEYS, PressKey(k) \/ ReleaseKey(k) PROVE Chained'
  <2>1. UNCHANGED <<latch, mine, isr>>
    BY <1>1 DEF PressKey, ReleaseKey
  <2> QED BY <2>1 DEF latch
<1>2. CASE ReceiveFrame
  BY <1>2 DEF ReceiveFrame
<1>3. CASE LoadLatch
  BY <1>3 DEF LoadLatch
<1>4. CASE HoldEnds
  BY <1>4 DEF HoldEnds
<1>5. CASE KbdInterrupt
  BY <1>5 DEF KbdInterrupt, latch
<1>6. CASE HookReads
  BY <1>6 DEF HookReads, ReadPort60
<1>7. CASE BiosReads
  BY <1>7 DEF BiosReads
<1>8. CASE KbdReturn
  BY <1>8 DEF KbdReturn
<1>9. CASE TimerFires \/ Tick
  BY <1>9 DEF TimerFires, Tick, latch
<1>10. CASE ReadKey \/ ReadClock
  BY <1>10 DEF ReadKey, ReadClock, latch
<1>11. CASE ProgramSteps
  BY <1>11 DEF ProgramSteps, LookForKey, EnableInterrupts, Sleep, TakeKey,
               FreeEntry, ReadClockLow, ReadClockHigh, latch
<1>12. CASE UNCHANGED typingVars
  BY <1>12 DEF typingVars, latch
<1> QED
  BY <1>1, <1>2, <1>3, <1>4, <1>5, <1>6, <1>7, <1>8, <1>9, <1>10, <1>11, <1>12
     DEF TypingNext

(* A handler that reads port 60h and chains to the BIOS, and the BIOS, see *)
(* the same byte, whatever the keyboard sends in between.                  *)
THEOREM TypingChainSeesOneByte == TypingSpec => []ChainSeesOneByte
PROOF
<1>1. TypingInit => Chained
  BY DEF TypingInit, Chained
<1>2. Chained => ChainSeesOneByte
  BY DEF Chained, ChainSeesOneByte
<1> QED BY <1>1, <1>2, ChainedStep, PTL DEF TypingSpec

(***************************************************************************)
(* The clock.                                                              *)
(***************************************************************************)

ClockInv == Together /\ Undisturbed

LEMMA TickTogether == Together /\ Tick => Together'
PROOF
<1> SUFFICES ASSUME Together, Tick PROVE Together'
  OBVIOUS
<1>1. TWORD \in Nat \ {0}
  BY TypingAssumptions
<1>2. Round(tlo, TWORD) \in 0..TWORD - 1 /\ Round(thi, TWORD) \in 0..TWORD - 1
  BY <1>1, RoundRange DEF Together
<1>3. CASE job = "time"
  <2>1. /\ tlo' = Round(tlo, TWORD)
        /\ thi' = IF Round(tlo, TWORD) = 0 THEN Round(thi, TWORD) ELSE thi
        /\ ticked' = Round(thi * TWORD + tlo, TWORD * TWORD)
    BY <1>3 DEF Tick, Counted, Together
  <2>2. ticked' = thi' * TWORD + tlo'
    BY <1>1, <2>1, RoundTogether DEF Together
  <2> QED BY <1>2, <2>1, <2>2 DEF Together
<1>4. CASE job # "time"
  BY <1>1, <1>4 DEF Tick, Counted, Together
<1> QED BY <1>3, <1>4

LEMMA ClockStep == ClockInv /\ [TypingNext]_typingVars => ClockInv'
PROOF
<1> SUFFICES ASSUME ClockInv, [TypingNext]_typingVars PROVE ClockInv'
  OBVIOUS
<1>1. Together'
  <2>1. CASE Tick
    BY <2>1, TickTogether DEF ClockInv
  <2>2. CASE UNCHANGED time
    BY <2>2 DEF time, ClockInv, Together
  <2>3. Tick \/ UNCHANGED time
    BY DEF TypingNext, PressKey, ReleaseKey, ReceiveFrame, LoadLatch, HoldEnds,
           KbdInterrupt, HookReads, BiosReads, KbdReturn, TimerFires, ReadKey,
           ReadClock, ProgramSteps, LookForKey, EnableInterrupts, Sleep,
           TakeKey, FreeEntry, ReadClockLow, ReadClockHigh, typingVars
  <2> QED BY <2>1, <2>2, <2>3
<1>2. Undisturbed'
  <2> USE DEF ClockInv, Undisturbed
  <2>1. ASSUME NEW k \in KEYS, PressKey(k) \/ ReleaseKey(k) PROVE Undisturbed'
    <3>1. UNCHANGED <<time, reader, isr, ie>>
      BY <2>1 DEF PressKey, ReleaseKey
    <3> QED BY <3>1 DEF time, reader
  <2>2. CASE ReceiveFrame \/ LoadLatch \/ HoldEnds
    BY <2>2 DEF ReceiveFrame, LoadLatch, HoldEnds, reader, time
  <2>3. CASE KbdInterrupt \/ HookReads \/ BiosReads
    BY <2>3 DEF KbdInterrupt, HookReads, BiosReads, reader, time
  <2>4. CASE KbdReturn
    BY <2>4 DEF KbdReturn, Awake, time
  <2>5. CASE TimerFires
    BY <2>5 DEF TimerFires, reader, time
  <2>6. CASE Tick
    BY <2>6 DEF Tick, Awake
  <2>7. CASE ReadKey \/ ReadClock
    BY <2>7 DEF ReadKey, ReadClock, Calls, time
  <2>8. CASE ProgramSteps
    BY <2>8 DEF ProgramSteps, LookForKey, EnableInterrupts, Sleep, TakeKey,
                FreeEntry, ReadClockLow, ReadClockHigh, Calls, time
  <2>9. CASE UNCHANGED typingVars
    BY <2>9 DEF typingVars, reader, time
  <2> QED
    BY <2>1, <2>2, <2>3, <2>4, <2>5, <2>6, <2>7, <2>8, <2>9 DEF TypingNext
<1> QED BY <1>1, <1>2 DEF ClockInv

(* What INT 1Ah returns is the count of ticks, never the high word of one  *)
(* time with the low word of another, for every word size.                 *)
THEOREM TypingClockNotTorn == TypingSpec => ClockNotTorn
PROOF
<1>1. TypingInit => ClockInv
  BY TypingAssumptions DEF TypingInit, ClockInv, Together, Undisturbed
<1>2. ClockInv /\ [TypingNext]_typingVars
        => [prog = "timehi" /\ prog' = "app" => clock' = ticked]_typingVars
  <2> SUFFICES ASSUME ClockInv, TypingNext, prog = "timehi", prog' = "app"
               PROVE  clock' = ticked
    OBVIOUS
  <2>1. ReadClockHigh
    BY DEF TypingNext, PressKey, ReleaseKey, ReceiveFrame, LoadLatch, HoldEnds,
           KbdInterrupt, HookReads, BiosReads, KbdReturn, TimerFires, Tick,
           ReadKey, ReadClock, ProgramSteps, LookForKey, EnableInterrupts,
           Sleep, TakeKey, FreeEntry, ReadClockLow, Calls, Awake, reader
  <2> QED BY <2>1 DEF ReadClockHigh, ClockInv, Together, Undisturbed
<1> QED BY <1>1, <1>2, ClockStep, PTL DEF TypingSpec, ClockNotTorn

(***************************************************************************)
(* The ring.                                                               *)
(***************************************************************************)

Slots == 0..KRING - 1

(* Entries that are taken, and where the entry i places behind a slot is.  *)
ReadCount(from, to) == (to - from) % KRING
Place(from, i) == (from + i) % KRING

LEMMA WrapAround ==
  ASSUME NEW k \in Nat \ {0}
  PROVE  /\ \A n \in 0..k - 1 : n % k = n
         /\ \A n \in k..2 * k - 1 : n % k = n - k
         /\ \A n \in 1 - k..-1 : n % k = n + k
PROOF
<1>1. ASSUME NEW n \in 0..k - 1 PROVE n % k = n
  OBVIOUS
<1>2. ASSUME NEW n \in k..2 * k - 1 PROVE n % k = n - k
  OBVIOUS
<1>3. ASSUME NEW n \in 1 - k..-1 PROVE n % k = n + k
  OBVIOUS
<1> QED BY <1>1, <1>2, <1>3

LEMMA RingCount ==
  ASSUME NEW from \in Slots, NEW to \in Slots
  PROVE  /\ ReadCount(from, to) = IF from <= to THEN to - from ELSE to - from + KRING
         /\ ReadCount(from, to) \in Slots
         /\ from # to => ReadCount(from, to) > 0
PROOF
<1>1. KRING \in Nat \ {0} /\ from \in 0..KRING - 1 /\ to \in 0..KRING - 1
  BY TypingAssumptions DEF Slots
<1>2. CASE from <= to
  <2>1. to - from \in 0..KRING - 1
    BY <1>1, <1>2
  <2>2. (to - from) % KRING = to - from
    BY <1>1, <2>1, WrapAround
  <2> QED BY <1>1, <1>2, <2>1, <2>2 DEF ReadCount, Slots
<1>3. CASE ~(from <= to)
  <2>1. to - from \in 1 - KRING..-1
    BY <1>1, <1>3
  <2>2. (to - from) % KRING = to - from + KRING
    BY <1>1, <2>1, WrapAround
  <2> QED BY <1>1, <1>3, <2>1, <2>2 DEF ReadCount, Slots
<1> QED BY <1>2, <1>3

LEMMA RingPlace ==
  ASSUME NEW from \in Slots, NEW i \in 0..KRING
  PROVE  /\ Place(from, i) = IF from + i < KRING THEN from + i ELSE from + i - KRING
         /\ Place(from, i) \in Slots
PROOF
<1>1. KRING \in Nat \ {0} /\ from \in 0..KRING - 1 /\ i \in 0..KRING
  BY TypingAssumptions DEF Slots
<1> DEFINE n == from + i
<1>2. n \in 0..2 * KRING - 1
  BY <1>1
<1> HIDE DEF n
<1>3. CASE n < KRING
  <2>1. n % KRING = n
    BY <1>1, <1>2, <1>3, WrapAround
  <2> QED BY <1>1, <1>2, <1>3, <2>1 DEF Place, Slots, n
<1>4. CASE ~(n < KRING)
  <2>1. n \in KRING..2 * KRING - 1
    BY <1>1, <1>2, <1>4
  <2>2. n % KRING = n - KRING
    BY <1>1, <2>1, WrapAround
  <2> QED BY <1>1, <1>2, <1>4, <2>2 DEF Place, Slots, n
<1> QED BY <1>3, <1>4

(* Putting an entry in, and taking one out.                                *)
LEMMA RingGrows ==
  ASSUME NEW from \in Slots, NEW to \in Slots, KNext(to) # from
  PROVE  /\ KNext(to) \in Slots /\ KNext(to) # from
         /\ ReadCount(from, KNext(to)) = ReadCount(from, to) + 1
         /\ Place(from, ReadCount(from, to)) = to
         /\ \A i \in 0..ReadCount(from, to) - 1 : Place(from, i) # to
PROOF
<1>1. KRING \in Nat \ {0, 1} /\ from \in 0..KRING - 1 /\ to \in 0..KRING - 1
  BY TypingAssumptions DEF Slots
<1>2. KNext(to) = Place(to, 1) /\ 1 \in 0..KRING
  BY <1>1 DEF KNext, Place
<1>3. /\ KNext(to) = IF to + 1 < KRING THEN to + 1 ELSE to + 1 - KRING
      /\ KNext(to) \in Slots
  BY <1>1, <1>2, RingPlace
<1>4. /\ ReadCount(from, to) = IF from <= to THEN to - from ELSE to - from + KRING
      /\ ReadCount(from, to) \in 0..KRING - 1
  BY RingCount DEF Slots
<1>5. ReadCount(from, KNext(to))
        = IF from <= KNext(to) THEN KNext(to) - from ELSE KNext(to) - from + KRING
  BY <1>3, RingCount
<1>6. ReadCount(from, KNext(to)) = ReadCount(from, to) + 1
  BY <1>1, <1>3, <1>4, <1>5
<1>7. Place(from, ReadCount(from, to)) = to
  BY <1>1, <1>4, RingPlace
<1>8. ASSUME NEW i \in 0..ReadCount(from, to) - 1 PROVE Place(from, i) # to
  <2>1. i \in 0..KRING
    BY <1>1, <1>4
  <2> QED BY <1>1, <1>4, <2>1, RingPlace
<1> QED BY <1>3, <1>6, <1>7, <1>8

LEMMA RingShrinks ==
  ASSUME NEW from \in Slots, NEW to \in Slots, from # to
  PROVE  /\ KNext(from) \in Slots
         /\ ReadCount(KNext(from), to) = ReadCount(from, to) - 1
         /\ \A i \in 0..ReadCount(from, to) - 2 : Place(KNext(from), i) = Place(from, i + 1)
PROOF
<1>1. KRING \in Nat \ {0, 1} /\ from \in 0..KRING - 1 /\ to \in 0..KRING - 1
  BY TypingAssumptions DEF Slots
<1>2. KNext(from) = Place(from, 1) /\ 1 \in 0..KRING
  BY <1>1 DEF KNext, Place
<1>3. /\ KNext(from) = IF from + 1 < KRING THEN from + 1 ELSE from + 1 - KRING
      /\ KNext(from) \in Slots
  BY <1>1, <1>2, RingPlace
<1>4. /\ ReadCount(from, to) = IF from <= to THEN to - from ELSE to - from + KRING
      /\ ReadCount(from, to) \in 0..KRING - 1
  BY RingCount DEF Slots
<1>5. ReadCount(KNext(from), to)
        = IF KNext(from) <= to THEN to - KNext(from) ELSE to - KNext(from) + KRING
  BY <1>3, RingCount
<1>6. ReadCount(KNext(from), to) = ReadCount(from, to) - 1
  BY <1>1, <1>3, <1>4, <1>5
<1>7. ASSUME NEW i \in 0..ReadCount(from, to) - 2
      PROVE  Place(KNext(from), i) = Place(from, i + 1)
  <2>1. i \in 0..KRING /\ i + 1 \in 0..KRING
    BY <1>1, <1>4
  <2> QED BY <1>1, <1>3, <2>1, RingPlace
<1> QED BY <1>3, <1>6, <1>7

(***************************************************************************)
(* What bytes make of the modifiers and of the keys due.                   *)
(***************************************************************************)

(* The key byte b puts into the ring, and how many of d are in it then.    *)
Made(b, s) == [key |-> b.key, upper |-> "shift" \in s]
More(b, n) == IF IsStroke(b) THEN n + 1 ELSE n

(* Byte b leads from modifiers s and n keys of d to modifiers s2 and n2.   *)
OneByte(b, s, n, s2, n2, d) ==
  /\ s2 = ShiftAfter(b, s)
  /\ n2 = IF IsStroke(b) THEN n + 1 ELSE n
  /\ IsStroke(b) => d[n2] = [key |-> b.key, upper |-> "shift" \in s]

(* The bytes p lead from modifiers s and n keys of d to modifiers t and    *)
(* all of d; ms and ns are what lies between.                              *)
Run(p, ms, ns, s, n, d, t) ==
  /\ ms \in [0..Len(p) -> SUBSET Modifiers] /\ ns \in [0..Len(p) -> Nat]
  /\ ms[0] = s /\ ns[0] = n /\ ms[Len(p)] = t /\ ns[Len(p)] = Len(d)
  /\ \A i \in 0..Len(p), j \in 0..Len(p) : i <= j => ns[i] <= ns[j]
  /\ \A i \in 1..Len(p) : OneByte(p[i], ms[i - 1], ns[i - 1], ms[i], ns[i], d)
Leads(p, s, n, d, t) == \E ms, ns : Run(p, ms, ns, s, n, d, t)

LEMMA LeadsNowhere ==
  ASSUME NEW s, NEW n, NEW d, NEW t, Leads(<<>>, s, n, d, t)
  PROVE  s = t /\ n = Len(d)
BY DEF Leads, Run

LEMMA LeadsStart ==
  ASSUME NEW s \in SUBSET Modifiers
  PROVE  Leads(<<>>, s, 0, <<>>, s)
PROOF
<1> DEFINE ms == [i \in 0..0 |-> s]
           ns == [i \in 0..0 |-> 0]
<1>1. Run(<<>>, ms, ns, s, 0, <<>>, s)
  BY DEF Run
<1> QED BY <1>1 DEF Leads

(* The first byte is taken off.                                            *)
LEMMA LeadsOn ==
  ASSUME NEW b \in Byte, NEW q \in Seq(Byte), NEW s, NEW n \in Nat, NEW d \in Seq(Stroke),
         NEW t, NEW p \in Seq(Byte), p # <<>>, Head(p) = b, Tail(p) = q, Leads(p, s, n, d, t),
         NEW n2, n2 = More(b, n)
  PROVE  /\ Leads(q, ShiftAfter(b, s), n2, d, t)
         /\ IsStroke(b) => n2 \in DOMAIN d /\ d[n2] = Made(b, s)
PROOF
<1>1. PICK ms, ns : Run(p, ms, ns, s, n, d, t)
  BY DEF Leads
<1>2. /\ Len(p) \in Nat \ {0} /\ Len(q) = Len(p) - 1 /\ Len(d) \in Nat
      /\ \A i \in 1..Len(q) : q[i] = p[i + 1]
      /\ p[1] = b
  <2>1. Len(p) \in Nat /\ Len(d) \in Nat /\ Len(p) # 0
    BY LenProperties, EmptySeq
  <2>2. /\ Len(q) = Len(p) - 1 /\ \A i \in 1..Len(q) : q[i] = p[i + 1]
    BY HeadTailProperties
  <2>3. p[1] = b
    OBVIOUS
  <2> QED BY <2>1, <2>2, <2>3
<1> DEFINE ms2 == [i \in 0..Len(q) |-> ms[i + 1]]
           ns2 == [i \in 0..Len(q) |-> ns[i + 1]]
<1>3. OneByte(b, s, n, ms[1], ns[1], d) /\ ns[1] <= Len(d)
  <2>1. 1 \in 1..Len(p) /\ 1 \in 0..Len(p) /\ Len(p) \in 0..Len(p) /\ 1 <= Len(p)
    BY <1>2
  <2>2. OneByte(p[1], ms[1 - 1], ns[1 - 1], ms[1], ns[1], d) /\ ns[1] <= ns[Len(p)]
    BY <1>1, <2>1 DEF Run
  <2> QED BY <1>1, <1>2, <2>2 DEF Run
<1>4. ms[1] = ShiftAfter(b, s) /\ ns[1] = n2
  BY <1>3 DEF OneByte, More
<1>5. Run(q, ms2, ns2, ShiftAfter(b, s), n2, d, t)
  <2>1. ms2 \in [0..Len(q) -> SUBSET Modifiers] /\ ns2 \in [0..Len(q) -> Nat]
    BY <1>1, <1>2 DEF Run
  <2>2. /\ ms2[0] = ShiftAfter(b, s) /\ ns2[0] = n2 /\ ms2[Len(q)] = t
        /\ ns2[Len(q)] = Len(d)
    <3>1. 0 \in 0..Len(q) /\ Len(q) \in 0..Len(q) /\ Len(q) + 1 = Len(p) /\ 0 + 1 = 1
      BY <1>2
    <3>2. /\ ms2[0] = ms[1] /\ ns2[0] = ns[1] /\ ms2[Len(q)] = ms[Len(p)]
          /\ ns2[Len(q)] = ns[Len(p)]
      BY <3>1
    <3> HIDE DEF ms2, ns2
    <3> QED BY <1>1, <1>4, <3>2 DEF Run
  <2>3. ASSUME NEW i \in 0..Len(q), NEW j \in 0..Len(q), i <= j PROVE ns2[i] <= ns2[j]
    BY <1>1, <1>2, <2>3 DEF Run
  <2>4. ASSUME NEW i \in 1..Len(q)
        PROVE  OneByte(q[i], ms2[i - 1], ns2[i - 1], ms2[i], ns2[i], d)
    <3>1. i + 1 \in 1..Len(p) /\ i - 1 \in 0..Len(q) /\ i \in 0..Len(q)
      BY <1>2
    <3>2. OneByte(p[i + 1], ms[i + 1 - 1], ns[i + 1 - 1], ms[i + 1], ns[i + 1], d)
      BY <1>1, <3>1 DEF Run
    <3>3. /\ ms2[i - 1] = ms[i + 1 - 1] /\ ns2[i - 1] = ns[i + 1 - 1]
          /\ ms2[i] = ms[i + 1] /\ ns2[i] = ns[i + 1] /\ q[i] = p[i + 1]
      BY <1>2, <3>1
    <3> HIDE DEF ms2, ns2
    <3> QED BY <3>2, <3>3
  <2> HIDE DEF ms2, ns2
  <2> QED BY <2>1, <2>2, <2>3, <2>4 DEF Run
<1>6. Leads(q, ShiftAfter(b, s), n2, d, t)
  BY <1>5 DEF Leads
<1>7. IsStroke(b) => n2 \in DOMAIN d /\ d[n2] = Made(b, s)
  <2>1. DOMAIN d = 1..Len(d)
    OBVIOUS
  <2> QED BY <1>2, <1>3, <1>4, <2>1 DEF OneByte, Made, More
<1> QED BY <1>6, <1>7

(* A byte comes behind the others, with the key it makes due.              *)
LEMMA LeadsFurther ==
  ASSUME NEW p \in Seq(Byte), NEW s, NEW n \in Nat, NEW d \in Seq(Stroke), NEW t,
         Leads(p, s, n, d, t), NEW b \in Byte, NEW d2 \in Seq(Stroke), NEW t2,
         d2 = (IF IsStroke(b) THEN Append(d, [key |-> b.key, upper |-> "shift" \in t])
                              ELSE d),
         t2 = ShiftAfter(b, t), t2 \in SUBSET Modifiers
  PROVE  Leads(Append(p, b), s, n, d2, t2)
PROOF
<1>1. PICK ms, ns : Run(p, ms, ns, s, n, d, t)
  BY DEF Leads
<1> DEFINE p2 == Append(p, b)
           new == [key |-> b.key, upper |-> "shift" \in t]
           last == Len(p) + 1
           ms2 == [i \in 0..last |-> IF i = last THEN t2 ELSE ms[i]]
           ns2 == [i \in 0..last |-> IF i = last THEN Len(d2) ELSE ns[i]]
<1>2. /\ p2 \in Seq(Byte) /\ Len(p) \in Nat /\ Len(p2) = last /\ Len(d) \in Nat
      /\ \A i \in 1..Len(p) : p2[i] = p[i]
      /\ p2[last] = b
  BY AppendProperties, LenProperties
<1>3. /\ Len(d2) = IF IsStroke(b) THEN Len(d) + 1 ELSE Len(d)
      /\ \A i \in 1..Len(d) : d2[i] = d[i]
      /\ IsStroke(b) => d2[Len(d) + 1] = new
  <2>1. CASE IsStroke(b)
    <3>1. new \in Stroke
      <4>1. b.key \in KEYS
        BY <2>1 DEF IsStroke, Byte
      <4> QED BY <4>1 DEF Stroke
    <3>2. d2 = Append(d, new)
      BY <2>1
    <3> HIDE DEF new
    <3> QED BY <2>1, <3>1, <3>2, AppendProperties
  <2>2. CASE ~IsStroke(b)
    BY <2>2
  <2> QED BY <2>1, <2>2
<1>4. /\ ms2[last] = t2 /\ ns2[last] = Len(d2) /\ ms2[0] = s /\ ns2[0] = n
      /\ \A i \in 0..Len(p) : ms2[i] = ms[i] /\ ns2[i] = ns[i]
      /\ ms2 \in [0..last -> SUBSET Modifiers] /\ ns2 \in [0..last -> Nat]
      /\ 0..last = 0..Len(p) \cup {last}
  BY <1>1, <1>2, <1>3 DEF Run
<1> HIDE DEF ms2, ns2, p2, new
<1>5. ASSUME NEW i \in 0..last, NEW j \in 0..last, i <= j PROVE ns2[i] <= ns2[j]
  <2>1. CASE j = last
    <3>1. CASE i = last
      BY <1>2, <1>3, <1>4, <2>1, <3>1
    <3>2. CASE i \in 0..Len(p)
      <4>1. ns[i] <= ns[Len(p)] /\ ns[Len(p)] = Len(d) /\ ns[i] \in Nat
        <5>1. i <= Len(p) /\ Len(p) \in 0..Len(p)
          BY <1>2, <3>2
        <5> QED BY <1>1, <3>2, <5>1 DEF Run
      <4> QED BY <1>2, <1>3, <1>4, <2>1, <3>2, <4>1
    <3> QED BY <1>4, <3>1, <3>2
  <2>2. CASE j \in 0..Len(p)
    <3>1. i \in 0..Len(p)
      BY <1>2, <1>5, <2>2
    <3> QED BY <1>1, <1>4, <1>5, <2>2, <3>1 DEF Run
  <2> QED BY <1>4, <2>1, <2>2
<1>6. ASSUME NEW i \in 1..last
      PROVE  OneByte(p2[i], ms2[i - 1], ns2[i - 1], ms2[i], ns2[i], d2)
  <2>1. CASE i = last
    <3>1. i - 1 = Len(p) /\ ms2[i - 1] = t /\ ns2[i - 1] = Len(d) /\ p2[i] = b
      BY <1>1, <1>2, <1>4, <2>1 DEF Run
    <3>2. ms2[i] = ShiftAfter(b, t) /\ ns2[i] = Len(d2)
      BY <1>4, <2>1
    <3> QED BY <1>3, <3>1, <3>2 DEF OneByte, new
  <2>2. CASE i \in 1..Len(p)
    <3>1. i - 1 \in 0..Len(p) /\ i \in 0..Len(p)
      BY <1>2, <2>2
    <3>2. OneByte(p[i], ms[i - 1], ns[i - 1], ms[i], ns[i], d)
      BY <1>1, <2>2 DEF Run
    <3>3. IsStroke(p[i]) => ns[i] \in 1..Len(d)
      <4>1. ns[i] <= Len(d) /\ ns[i] \in Nat /\ ns[i - 1] \in Nat
        <5>1. ns[i] <= ns[Len(p)]
          BY <1>1, <1>2, <2>2, <3>1 DEF Run
        <5> QED BY <1>1, <3>1, <5>1 DEF Run
      <4> QED BY <1>2, <3>2, <4>1 DEF OneByte
    <3> QED BY <1>2, <1>3, <1>4, <2>2, <3>1, <3>2, <3>3 DEF OneByte
  <2> QED BY <1>2, <2>1, <2>2
<1>7. Run(p2, ms2, ns2, s, n, d2, t2)
  BY <1>2, <1>4, <1>5, <1>6 DEF Run
<1> QED BY <1>7 DEF Leads, p2

(* The program has got the oldest of the keys due.                         *)
LEMMA LeadsWithoutFirst ==
  ASSUME NEW p \in Seq(Byte), NEW s, NEW n \in Nat \ {0}, NEW d \in Seq(Stroke), NEW t,
         Leads(p, s, n, d, t), d # <<>>
  PROVE  Leads(p, s, n - 1, Tail(d), t)
PROOF
<1>1. PICK ms, ns : Run(p, ms, ns, s, n, d, t)
  BY DEF Leads
<1> DEFINE ns2 == [i \in 0..Len(p) |-> ns[i] - 1]
<1>2. /\ Len(p) \in Nat /\ Len(d) \in Nat \ {0} /\ Len(Tail(d)) = Len(d) - 1
      /\ \A i \in 1..Len(d) - 1 : Tail(d)[i] = d[i + 1]
  BY HeadTailProperties, LenProperties
<1>3. ASSUME NEW i \in 0..Len(p)
      PROVE  /\ ns[i] \in Nat \ {0} /\ ns[i] <= Len(d)
             /\ ns2[i] = ns[i] - 1 /\ ns2[i] \in Nat
  <2>1. ns[0] <= ns[i] /\ ns[i] <= ns[Len(p)] /\ ns[0] = n /\ ns[i] \in Nat
    BY <1>1, <1>2 DEF Run
  <2> QED BY <1>1, <2>1 DEF Run
<1>4. ns2 \in [0..Len(p) -> Nat]
  BY <1>3
<1> HIDE DEF ns2
<1>5. ASSUME NEW i \in 1..Len(p)
      PROVE  OneByte(p[i], ms[i - 1], ns2[i - 1], ms[i], ns2[i], Tail(d))
  <2>1. i - 1 \in 0..Len(p) /\ i \in 0..Len(p)
    BY <1>2
  <2>2. OneByte(p[i], ms[i - 1], ns[i - 1], ms[i], ns[i], d)
    BY <1>1 DEF Run
  <2>3. /\ ns[i] \in Nat \ {0} /\ ns[i] <= Len(d) /\ ns2[i] = ns[i] - 1
        /\ ns[i - 1] \in Nat \ {0} /\ ns2[i - 1] = ns[i - 1] - 1
    BY <1>3, <2>1
  <2>4. ns2[i] = IF IsStroke(p[i]) THEN ns2[i - 1] + 1 ELSE ns2[i - 1]
    BY <2>2, <2>3 DEF OneByte
  <2>5. IsStroke(p[i]) => Tail(d)[ns2[i]] = d[ns[i]]
    <3>1. IsStroke(p[i]) => ns2[i] \in 1..Len(d) - 1
      BY <1>2, <2>2, <2>3 DEF OneByte
    <3> QED BY <1>2, <2>3, <3>1
  <2> QED BY <2>2, <2>4, <2>5 DEF OneByte
<1>6. Run(p, ms, ns2, s, n - 1, Tail(d), t)
  <2>1. /\ 0 \in 0..Len(p) /\ Len(p) \in 0..Len(p) /\ ns[0] = n /\ ns[Len(p)] = Len(d)
        /\ ns2[0] = n - 1 /\ ns2[Len(p)] = Len(Tail(d))
    <3>1. 0 \in 0..Len(p) /\ Len(p) \in 0..Len(p)
      BY <1>2
    <3>2. ns[0] = n /\ ns[Len(p)] = Len(d)
      BY <1>1 DEF Run
    <3>3. ns2[0] = ns[0] - 1 /\ ns2[Len(p)] = ns[Len(p)] - 1
      BY <1>3, <3>1
    <3> QED BY <1>2, <3>1, <3>2, <3>3
  <2>2. \A i \in 0..Len(p), j \in 0..Len(p) : i <= j => ns2[i] <= ns2[j]
    BY <1>1, <1>3 DEF Run
  <2> QED BY <1>1, <1>4, <1>5, <2>1, <2>2 DEF Run
<1> QED BY <1>6 DEF Leads

(***************************************************************************)
(* From the switch to the ring.                                            *)
(***************************************************************************)

(* The bytes the receiver will still make of the frames on the wire.       *)
Comes(c) ==
  \/ wire = <<>> /\ ~brk /\ c = <<>>
  \/ \E k \in KEYS :
       \/ wire = <<k>> /\ c = <<[rel |-> brk, key |-> k]>>
       \/ wire = <<"F0", k>> /\ ~brk /\ c = <<[rel |-> TRUE, key |-> k]>>
       \/ wire = <<"E0", k>> /\ ~brk /\ c = <<NoByte, [rel |-> FALSE, key |-> k]>>
       \/ wire = <<"E0", "F0", k>> /\ ~brk /\ c = <<NoByte, [rel |-> TRUE, key |-> k]>>

(* The byte in the latch that INT 09h has not seen, and those behind it.   *)
InLatch == IF obf \/ isr = "chain" THEN <<obuf>> ELSE <<>>
Arrived == InLatch \o fifo
Taken == ReadCount(khead, ktail)

Keyboard ==
  /\ held \subseteq KEYS /\ shift \subseteq Modifiers
  /\ brk \in BOOLEAN /\ obf \in BOOLEAN /\ hold \in BOOLEAN
  /\ fifo \in Seq(Byte) /\ obuf \in Byte /\ due \in Seq(Stroke)

Ringed ==
  /\ khead \in Slots /\ ktail \in Slots /\ kbuf = [i \in Slots |-> kbuf[i]]
  /\ Taken <= Len(due)
  /\ \A i \in 0..Taken - 1 : kbuf[Place(khead, i)] = due[i + 1]

Reading ==
  /\ prog = "have" => khead # ktail
  /\ prog = "free" => khead # ktail /\ ax = kbuf[khead]

(* What is on its way turns the ring into the keys due, and 40:17 into the *)
(* modifiers that are down.                                                *)
Flow ==
  \E c \in Seq(Byte) :
    Comes(c) /\ Leads(Arrived \o c, shift, Taken, due, held \cap Modifiers)

KeysInv == ~lost => Keyboard /\ Chained /\ Ringed /\ Reading /\ Flow

-----------------------------------------------------------------------------
(* Bytes.                                                                  *)

LEMMA BytesOfKeys ==
  /\ NoByte \in Byte /\ ~IsStroke(NoByte)
  /\ \A s : ShiftAfter(NoByte, s) = s
  /\ \A k \in KEYS, r \in BOOLEAN : [rel |-> r, key |-> k] \in Byte
BY TypingAssumptions DEF NoByte, Byte, IsStroke, ShiftAfter, Modifiers

LEMMA ArrivedBytes ==
  ASSUME Keyboard
  PROVE  InLatch \in Seq(Byte) /\ Arrived \in Seq(Byte) /\ Arrived \o <<>> = Arrived
PROOF
<1>1. InLatch \in Seq(Byte)
  BY DEF InLatch, Keyboard
<1>2. Arrived \in Seq(Byte)
  BY <1>1, ConcatProperties DEF Arrived, Keyboard
<1> QED BY <1>1, <1>2, ConcatEmptySeq

LEMMA ConcatOneTwo ==
  ASSUME NEW S, NEW s \in Seq(S), NEW x \in S, NEW y \in S
  PROVE  /\ s \o <<x>> = Append(s, x)
         /\ s \o <<x, y>> = Append(Append(s, x), y)
         /\ Append(s, x) \o <<y>> = s \o <<x, y>>
         /\ Append(s, x) \o <<>> = s \o <<x>>
PROOF
<1>1. /\ Append(s, x) \in Seq(S) /\ <<x>> \in Seq(S) /\ <<y>> \in Seq(S)
      /\ <<x, y>> = <<x>> \o <<y>>
  <2>1. Append(s, x) \in Seq(S) /\ <<x>> \in Seq(S) /\ <<y>> \in Seq(S) /\ <<x, y>> \in Seq(S)
    BY AppendProperties
  <2>2. <<x>> \o <<y>> \in Seq(S) /\ Len(<<x>> \o <<y>>) = 2 /\ Len(<<x, y>>) = 2
    BY <2>1, ConcatProperties
  <2>3. \A i \in 1..2 : <<x, y>>[i] = (<<x>> \o <<y>>)[i]
    OBVIOUS
  <2>4. <<x, y>> = <<x>> \o <<y>>
    BY <2>1, <2>2, <2>3, SeqEqual
  <2> QED BY <2>1, <2>4
<1>2. s \o <<x>> = Append(s, x) /\ Append(s, x) \o <<y>> = Append(Append(s, x), y)
  BY <1>1, AppendIsConcat
<1>3. (s \o <<x>>) \o <<y>> = s \o (<<x>> \o <<y>>)
  BY <1>1, ConcatAssociative
<1>4. Append(s, x) \o <<>> = Append(s, x)
  BY <1>1, ConcatEmptySeq
<1> QED BY <1>1, <1>2, <1>3, <1>4

LEMMA ConcatFirst ==
  ASSUME NEW S, NEW x \in S, NEW s \in Seq(S), NEW t \in Seq(S)
  PROVE  /\ (<<x>> \o s) \o t # <<>>
         /\ (<<x>> \o s) \o t \in Seq(S)
         /\ Head((<<x>> \o s) \o t) = x /\ Tail((<<x>> \o s) \o t) = s \o t
         /\ <<>> \o s = s
PROOF
<1>1. <<x>> \in Seq(S) /\ s \o t \in Seq(S) /\ <<x>> \o s \in Seq(S)
  BY ConcatProperties
<1>2. (<<x>> \o s) \o t = <<x>> \o (s \o t)
  BY <1>1, ConcatAssociative
<1> DEFINE u == s \o t
<1>3. u \in Seq(S)
  BY <1>1
<1> HIDE DEF u
<1>4. /\ <<x>> \o u \in Seq(S) /\ <<x>> \o u # <<>>
      /\ Head(<<x>> \o u) = x
  BY <1>3
<1>5. Tail(<<x>> \o u) = u
  <2>1. Tail(<<x>> \o u) \in Seq(S) /\ Len(Tail(<<x>> \o u)) = Len(u)
    BY <1>3, <1>4, HeadTailProperties
  <2>2. \A i \in 1..Len(u) : Tail(<<x>> \o u)[i] = u[i]
    BY <1>3, <1>4
  <2> QED BY <1>3, <2>1, <2>2, SeqEqual
<1> QED BY <1>2, <1>4, <1>5, ConcatEmptySeq DEF u

LEMMA ConcatPrefixed ==
  ASSUME NEW s \in Seq(Byte), NEW b \in Byte, NEW x \in Byte
  PROVE  /\ s \o <<x, b>> = Append(Append(s, x), b)
         /\ Append(s, x) \o <<b>> = s \o <<x, b>>
         /\ <<x, b>> \in Seq(Byte) /\ <<b>> \in Seq(Byte)
PROOF
<1>1. s \o <<x, b>> = Append(Append(s, x), b)
  BY ConcatOneTwo
<1>2. Append(s, x) \in Seq(Byte)
  BY AppendProperties
<1>3. Append(s, x) \o <<b>> = Append(Append(s, x), b)
  BY <1>2, AppendIsConcat
<1> QED BY <1>1, <1>3

LEMMA AppendToTuple ==
  ASSUME NEW S, NEW x \in S, NEW y \in S, NEW z \in S
  PROVE  /\ Append(<<>>, x) = <<x>> /\ Append(<<x>>, y) = <<x, y>>
         /\ Append(<<x, y>>, z) = <<x, y, z>>
PROOF
<1>1. /\ <<>> \in Seq(S) /\ <<x>> \in Seq(S) /\ <<x, y>> \in Seq(S)
      /\ <<x, y, z>> \in Seq(S)
      /\ Len(<<>>) = 0 /\ Len(<<x>>) = 1 /\ Len(<<x, y>>) = 2 /\ Len(<<x, y, z>>) = 3
  OBVIOUS
<1>2. ASSUME NEW s \in Seq(S), NEW t \in Seq(S), NEW e \in S, Len(t) = Len(s) + 1,
             \A i \in 1..Len(s) : t[i] = s[i], t[Len(s) + 1] = e
      PROVE  Append(s, e) = t
  <2>1. /\ Append(s, e) \in Seq(S) /\ Len(Append(s, e)) = Len(s) + 1 /\ Len(s) \in Nat
        /\ \A i \in 1..Len(s) : Append(s, e)[i] = s[i]
        /\ Append(s, e)[Len(s) + 1] = e
    BY AppendProperties, LenProperties
  <2>2. \A i \in 1..Len(Append(s, e)) : Append(s, e)[i] = t[i]
    BY <1>2, <2>1
  <2> QED BY <1>2, <2>1, <2>2, SeqEqual
<1>3. Append(<<>>, x) = <<x>>
  BY <1>1, <1>2
<1>4. Append(<<x>>, y) = <<x, y>>
  <2>1. \A i \in 1..Len(<<x>>) : <<x, y>>[i] = <<x>>[i]
    BY <1>1
  <2>2. <<x, y>>[Len(<<x>>) + 1] = y
    BY <1>1
  <2>3. Len(<<x, y>>) = Len(<<x>>) + 1
    BY <1>1
  <2> QED BY ONLY <1>1, <1>2, <2>1, <2>2, <2>3, x \in S, y \in S
<1>5. Append(<<x, y>>, z) = <<x, y, z>>
  <2>1. \A i \in 1..Len(<<x, y>>) : <<x, y, z>>[i] = <<x, y>>[i]
    BY <1>1
  <2>2. <<x, y, z>>[Len(<<x, y>>) + 1] = z
    BY <1>1
  <2>3. Len(<<x, y, z>>) = Len(<<x, y>>) + 1
    BY <1>1
  <2> QED BY ONLY <1>1, <1>2, <2>1, <2>2, <2>3, z \in S
<1> QED BY <1>3, <1>4, <1>5

LEMMA FrameShapes ==
  ASSUME NEW k \in KEYS
  PROVE  /\ Frames(k, FALSE) = IF k \in Extended THEN <<"E0", k>> ELSE <<k>>
         /\ Frames(k, TRUE) = IF k \in Extended THEN <<"E0", "F0", k>> ELSE <<"F0", k>>
PROOF
<1> DEFINE S == KEYS \cup {"E0", "F0"}
<1>1. /\ <<>> \in Seq(S) /\ <<"E0">> \in Seq(S) /\ <<"F0">> \in Seq(S)
      /\ "E0" \in S /\ "F0" \in S /\ k \in S
  BY EmptySeq
<1> HIDE DEF S
<1>2. /\ <<>> \o <<>> = <<>> /\ <<"E0">> \o <<>> = <<"E0">>
      /\ <<>> \o <<"F0">> = <<"F0">>
  BY <1>1, ConcatEmptySeq
<1>3. <<"E0">> \o <<"F0">> = <<"E0", "F0">>
  BY <1>1, ConcatOneTwo, AppendToTuple
<1>4. /\ <<>> \o <<k>> = <<k>> /\ <<"E0">> \o <<k>> = <<"E0", k>>
      /\ <<"F0">> \o <<k>> = <<"F0", k>>
      /\ <<"E0", "F0">> \o <<k>> = <<"E0", "F0", k>>
  <2>1. /\ Append(<<>>, k) = <<k>> /\ Append(<<"E0">>, k) = <<"E0", k>>
        /\ Append(<<"F0">>, k) = <<"F0", k>>
        /\ Append(<<"E0", "F0">>, k) = <<"E0", "F0", k>>
    BY <1>1, AppendToTuple
  <2>2. <<"E0", "F0">> \in Seq(S)
    BY <1>1
  <2> QED BY <1>1, <2>1, <2>2, ConcatOneTwo
<1> QED BY <1>2, <1>3, <1>4 DEF Frames

-----------------------------------------------------------------------------
(* Steps that leave the way to the ring as it is.                          *)

LEMMA FlowKept ==
  ASSUME Flow, UNCHANGED <<InLatch, fifo, wire, brk, shift, khead, ktail, due, held>>
  PROVE  Flow'
PROOF
<1>1. PICK c \in Seq(Byte) :
        Comes(c) /\ Leads(Arrived \o c, shift, Taken, due, held \cap Modifiers)
  BY DEF Flow
<1>2. Arrived' = Arrived /\ Taken' = Taken
  BY DEF Arrived, Taken
<1>3. Comes(c)'
  BY <1>1 DEF Comes
<1>4. Leads(Arrived' \o c, shift', Taken', due', held' \cap Modifiers)
  BY <1>1, <1>2
<1> QED BY <1>3, <1>4 DEF Flow

LEMMA KeptStep ==
  ASSUME KeysInv, ~lost', Chained', UNCHANGED <<board, fifo, obuf, obf, ring, shift, lost>>,
         hold' \in BOOLEAN, (isr' = "chain") <=> (isr = "chain"), Reading'
  PROVE  KeysInv'
PROOF
<1>1. Keyboard /\ Ringed /\ Flow
  BY DEF KeysInv
<1>2. UNCHANGED <<held, wire, brk, due, khead, ktail, kbuf, fifo, obuf, obf, shift>>
  BY DEF board, ring
<1>3. Keyboard'
  BY <1>1, <1>2 DEF Keyboard
<1>4. Ringed'
  BY <1>1, <1>2 DEF Ringed, Taken
<1>5. Flow'
  <2>1. InLatch' = InLatch
    BY <1>2 DEF InLatch
  <2> QED BY <1>1, <1>2, <2>1, FlowKept
<1> QED BY <1>3, <1>4, <1>5 DEF KeysInv

(* A key is pressed or released.                                           *)
LEMMA FlowSent ==
  ASSUME Keyboard, Ringed, Flow, wire = <<>>, NEW b \in Byte,
         UNCHANGED <<InLatch, fifo, shift, khead, ktail>>,
         Comes(<<b>>)' \/ Comes(<<NoByte, b>>)', due' \in Seq(Stroke),
         due' = (IF IsStroke(b)
                   THEN Append(due, [key |-> b.key, upper |-> "shift" \in held \cap Modifiers])
                   ELSE due),
         held' \cap Modifiers = ShiftAfter(b, held \cap Modifiers)
  PROVE  Flow'
PROOF
<1> DEFINE t == held \cap Modifiers
           t2 == held' \cap Modifiers
<1>1. PICK c \in Seq(Byte) : Comes(c) /\ Leads(Arrived \o c, shift, Taken, due, t)
  BY DEF Flow
<1>2. c = <<>>
  BY <1>1 DEF Comes
<1>3. /\ Arrived \in Seq(Byte) /\ Arrived' = Arrived /\ Taken' = Taken /\ Taken \in Nat
      /\ due \in Seq(Stroke) /\ t \in SUBSET Modifiers /\ t2 \in SUBSET Modifiers
      /\ Leads(Arrived, shift, Taken, due, t)
  <2>1. Arrived' = Arrived /\ Taken' = Taken /\ Taken \in Nat
    BY RingCount, TypingAssumptions DEF Arrived, Taken, Ringed, Slots
  <2> QED BY <1>1, <1>2, <2>1, ArrivedBytes DEF Keyboard
<1> HIDE DEF t, t2
<1>4. CASE Comes(<<b>>)'
  <2>1. Leads(Append(Arrived, b), shift, Taken, due', t2)
    BY <1>3, LeadsFurther DEF t, t2
  <2>2. Arrived' \o <<b>> = Append(Arrived, b) /\ <<b>> \in Seq(Byte)
    BY <1>3, ConcatOneTwo
  <2>3. Leads(Arrived' \o <<b>>, shift', Taken', due', t2)
    BY <1>3, <2>1, <2>2
  <2> QED BY <1>4, <2>2, <2>3 DEF Flow, t2
<1>5. CASE Comes(<<NoByte, b>>)'
  <2>1. Leads(Append(Arrived, NoByte), shift, Taken, due, t)
    BY <1>3, BytesOfKeys, LeadsFurther
  <2>2. Append(Arrived, NoByte) \in Seq(Byte)
    BY <1>3, BytesOfKeys, AppendProperties
  <2>3. Leads(Append(Append(Arrived, NoByte), b), shift, Taken, due', t2)
    BY <1>3, <2>1, <2>2, LeadsFurther DEF t, t2
  <2>4. /\ Arrived' \o <<NoByte, b>> = Append(Append(Arrived, NoByte), b)
        /\ <<NoByte, b>> \in Seq(Byte)
    BY <1>3, BytesOfKeys, ConcatPrefixed, Zenon
  <2>5. Leads(Arrived' \o <<NoByte, b>>, shift', Taken', due', t2)
    BY <1>3, <2>3, <2>4
  <2> QED BY <1>5, <2>4, <2>5 DEF Flow, t2
<1> QED BY <1>4, <1>5

LEMMA PressStep ==
  ASSUME KeysInv, ~lost', Chained', NEW k \in KEYS, PressKey(k)
  PROVE  KeysInv'
PROOF
<1>1. /\ wire = <<>> /\ k \notin held /\ held' = held \cup {k} /\ wire' = Frames(k, FALSE)
      /\ due' = IF k \in Modifiers \cup Locks THEN due
                ELSE Append(due, [key |-> k, upper |-> "shift" \in held])
      /\ UNCHANGED <<brk, fifo, obuf, obf, hold, khead, ktail, kbuf, shift, lost, isr, prog, ax>>
  BY DEF PressKey, latch, ring, reader
<1>2. Keyboard /\ Ringed /\ Reading /\ Flow
  BY <1>1 DEF KeysInv
<1> DEFINE b == [rel |-> FALSE, key |-> k]
           t == held \cap Modifiers
           new == [key |-> k, upper |-> "shift" \in held]
<1>3. b \in Byte /\ new \in Stroke /\ "E0" \notin KEYS
  <2>1. b \in Byte
    BY BytesOfKeys
  <2>2. ("shift" \in held) \in BOOLEAN
    OBVIOUS
  <2>3. new \in Stroke
    BY <2>2 DEF Stroke
  <2> QED BY <2>1, <2>3, TypingAssumptions
<1>4. due' \in Seq(Stroke) /\ due \in Seq(Stroke)
  <2>1. Append(due, new) \in Seq(Stroke)
    BY <1>2, <1>3, AppendProperties DEF Keyboard
  <2> QED BY <1>1, <1>2, <2>1 DEF Keyboard
<1>5. Keyboard'
  BY <1>1, <1>2, <1>4 DEF Keyboard
<1>6. Ringed'
  <2>1. Taken' = Taken /\ Taken \in Nat
    BY <1>1, <1>2, RingCount, TypingAssumptions DEF Taken, Ringed, Slots
  <2>2. Len(due') >= Len(due) /\ \A i \in 1..Len(due) : due'[i] = due[i]
    <3>1. /\ Len(Append(due, new)) = Len(due) + 1 /\ Len(due) \in Nat
          /\ \A i \in 1..Len(due) : Append(due, new)[i] = due[i]
      BY <1>3, <1>4, AppendProperties, LenProperties
    <3> QED BY <1>1, <3>1
  <2>3. Len(due') \in Nat /\ Len(due) \in Nat
    BY <1>4, LenProperties
  <2>4. \A i \in 0..Taken - 1 : due'[i + 1] = due[i + 1]
    BY <1>2, <2>1, <2>2, <2>3 DEF Ringed
  <2> QED BY <1>1, <1>2, <2>1, <2>2, <2>3, <2>4 DEF Ringed
<1>7. Reading'
  BY <1>1, <1>2 DEF Reading
<1>8. Flow'
  <2>1. ShiftAfter(b, t) = held' \cap Modifiers /\ UNCHANGED <<InLatch, fifo, shift, khead, ktail>>
    BY <1>1 DEF ShiftAfter, InLatch
  <2>2. due' = (IF IsStroke(b) THEN Append(due, [key |-> b.key, upper |-> "shift" \in t])
                               ELSE due)
    <3>1. IsStroke(b) <=> k \notin Modifiers \cup Locks
      BY <1>3 DEF IsStroke
    <3>2. ("shift" \in held) = ("shift" \in t)
      BY <1>2 DEF Keyboard, Modifiers
    <3>3. [key |-> b.key, upper |-> "shift" \in t] = new
      BY <3>2
    <3> HIDE DEF new, b
    <3> QED BY <1>1, <3>1, <3>3 DEF new
  <2>3. Comes(<<b>>)' \/ Comes(<<NoByte, b>>)'
    <3>1. wire' = <<k>> \/ wire' = <<"E0", k>>
      BY <1>1, FrameShapes
    <3>2. brk' = FALSE
      BY <1>1, <1>2 DEF Keyboard, Flow, Comes
    <3> QED BY <3>1, <3>2 DEF Comes
  <2> HIDE DEF b
  <2> QED BY <1>1, <1>2, <1>3, <1>4, <2>1, <2>2, <2>3, FlowSent
<1> QED BY <1>5, <1>6, <1>7, <1>8 DEF KeysInv

LEMMA ReleaseStep ==
  ASSUME KeysInv, ~lost', Chained', NEW k \in KEYS, ReleaseKey(k)
  PROVE  KeysInv'
PROOF
<1>1. /\ wire = <<>> /\ k \in held /\ held' = held \ {k} /\ wire' = Frames(k, TRUE)
      /\ UNCHANGED <<brk, due, fifo, obuf, obf, hold, khead, ktail, kbuf, shift, lost, isr,
                     prog, ax>>
  BY DEF ReleaseKey, latch, ring, reader
<1>2. Keyboard /\ Ringed /\ Reading /\ Flow
  BY <1>1 DEF KeysInv
<1> DEFINE b == [rel |-> TRUE, key |-> k]
           t == held \cap Modifiers
<1>3. b \in Byte /\ ~IsStroke(b)
  BY BytesOfKeys DEF IsStroke
<1>4. Keyboard' /\ Ringed' /\ Reading'
  BY <1>1, <1>2 DEF Keyboard, Ringed, Reading, Taken
<1>5. Flow'
  <2>1. ShiftAfter(b, t) = held' \cap Modifiers /\ UNCHANGED <<InLatch, fifo, shift, khead, ktail>>
    BY <1>1 DEF ShiftAfter, InLatch
  <2>2. Comes(<<b>>)' \/ Comes(<<NoByte, b>>)'
    <3>1. wire' = <<"F0", k>> \/ wire' = <<"E0", "F0", k>>
      BY <1>1, FrameShapes
    <3>2. brk' = FALSE
      BY <1>1, <1>2 DEF Keyboard, Flow, Comes
    <3> QED BY <3>1, <3>2 DEF Comes
  <2> HIDE DEF b
  <2> QED BY <1>1, <1>2, <1>3, <1>4, <2>1, <2>2, FlowSent DEF Keyboard
<1> QED BY <1>4, <1>5 DEF KeysInv

(* A frame becomes a byte of the FIFO, or the break flag.                  *)
LEMMA ReceiveStep ==
  ASSUME KeysInv, ~lost', Chained', ReceiveFrame
  PROVE  KeysInv'
PROOF
<1> DEFINE k == Head(wire)
           b == [rel |-> brk /\ k # "E0", key |-> k]
<1>1. /\ wire # <<>> /\ wire' = Tail(wire) /\ brk' = (k = "F0") /\ ~lost
      /\ fifo' = IF k # "F0" THEN Append(fifo, b) ELSE fifo
      /\ UNCHANGED <<held, due, obuf, obf, hold, khead, ktail, kbuf, shift, isr, prog, ax>>
  BY DEF ReceiveFrame, ring, reader
<1>2. Keyboard /\ Ringed /\ Reading /\ Flow
  BY <1>1 DEF KeysInv
<1>3. InLatch \in Seq(Byte) /\ Arrived \in Seq(Byte) /\ InLatch' = InLatch /\ fifo \in Seq(Byte)
  BY <1>1, <1>2, ArrivedBytes DEF InLatch, Keyboard
<1>4. Ringed' /\ Reading'
  BY <1>1, <1>2 DEF Ringed, Reading, Taken
<1>5. PICK c \in Seq(Byte) :
        Comes(c) /\ Leads(Arrived \o c, shift, Taken, due, held \cap Modifiers)
  BY <1>2 DEF Flow
<1>6. ASSUME NEW c2 \in Seq(Byte), Comes(c2)', fifo' \in Seq(Byte), Arrived' \o c2 = Arrived \o c
      PROVE  KeysInv'
  <2>1. Keyboard'
    BY <1>1, <1>2, <1>6 DEF Keyboard
  <2>2. Leads(Arrived' \o c2, shift', Taken', due', held' \cap Modifiers)
    BY <1>1, <1>5, <1>6 DEF Taken
  <2>3. Flow'
    BY <1>6, <2>2 DEF Flow
  <2> QED BY <1>4, <2>1, <2>3 DEF KeysInv
<1>7. ASSUME NEW x \in Byte, x = b, k # "F0"
      PROVE  fifo' \in Seq(Byte) /\ Arrived' = Append(Arrived, x)
  <2>1. fifo' = Append(fifo, x) /\ fifo' \in Seq(Byte)
    BY <1>1, <1>3, <1>7, AppendProperties
  <2>2. InLatch \o Append(fifo, x) = Append(InLatch \o fifo, x)
    <3>1. /\ Append(fifo, x) = fifo \o <<x>> /\ <<x>> \in Seq(Byte)
          /\ Append(Arrived, x) = Arrived \o <<x>>
      BY <1>3, AppendIsConcat
    <3> QED BY <1>3, <3>1, ConcatAssociative DEF Arrived
  <2> QED BY <1>3, <2>1, <2>2 DEF Arrived
<1>8. PICK j \in KEYS :
        \/ wire = <<j>> /\ c = <<[rel |-> brk, key |-> j]>>
        \/ wire = <<"F0", j>> /\ ~brk /\ c = <<[rel |-> TRUE, key |-> j]>>
        \/ wire = <<"E0", j>> /\ ~brk /\ c = <<NoByte, [rel |-> FALSE, key |-> j]>>
        \/ wire = <<"E0", "F0", j>> /\ ~brk /\ c = <<NoByte, [rel |-> TRUE, key |-> j]>>
  BY <1>1, <1>5 DEF Comes
<1>9. j # "E0" /\ j # "F0" /\ NoByte \in Byte /\ brk \in BOOLEAN
      /\ \A r \in BOOLEAN : [rel |-> r, key |-> j] \in Byte
  BY <1>2, BytesOfKeys, TypingAssumptions DEF Keyboard
<1>10. CASE wire = <<j>> /\ c = <<[rel |-> brk, key |-> j]>>
  <2> DEFINE x == [rel |-> brk, key |-> j]
  <2>1. k = j /\ wire' = <<>> /\ x \in Byte
    BY <1>1, <1>9, <1>10
  <2>2. b = x
    <3>1. (brk /\ k # "E0") = brk
      BY <1>9, <2>1
    <3> QED BY <2>1, <3>1
  <2>3. Comes(<<>>)'
    BY <1>1, <1>9, <2>1 DEF Comes
  <2>4. fifo' \in Seq(Byte) /\ Arrived' = Append(Arrived, x)
    BY <1>7, <1>9, <2>1, <2>2
  <2>5. Arrived' \o <<>> = Arrived \o c
    <3> HIDE DEF x
    <3>1. Append(Arrived, x) \o <<>> = Arrived \o <<x>>
      BY <1>3, <2>1, ConcatOneTwo
    <3> QED BY <1>10, <2>4, <3>1 DEF x
  <2> QED BY <1>6, <2>3, <2>4, <2>5, EmptySeq
<1>11. CASE wire = <<"F0", j>> /\ ~brk /\ c = <<[rel |-> TRUE, key |-> j]>>
  <2>1. k = "F0" /\ wire' = <<j>>
    BY <1>1, <1>11
  <2>4. brk' = TRUE
    <3>1. (k = "F0") = TRUE
      BY <2>1
    <3> QED BY <1>1, <3>1
  <2>2. Comes(c)'
    BY <1>11, <2>1, <2>4 DEF Comes
  <2>3. fifo' = fifo /\ Arrived' = Arrived
    BY <1>1, <1>3, <2>1 DEF Arrived
  <2> QED BY <1>3, <1>6, <2>2, <2>3
<1>12. CASE wire = <<"E0", j>> /\ ~brk /\ c = <<NoByte, [rel |-> FALSE, key |-> j]>>
  <2> DEFINE y == [rel |-> FALSE, key |-> j]
  <2>1. k = "E0" /\ wire' = <<j>> /\ y \in Byte /\ brk' = FALSE
    BY <1>1, <1>9, <1>12
  <2>2. b = NoByte
    BY <2>1 DEF NoByte
  <2>3. Comes(<<y>>)'
    BY <2>1 DEF Comes
  <2>4. fifo' \in Seq(Byte) /\ Arrived' = Append(Arrived, NoByte)
    BY <1>7, <1>9, <2>1, <2>2
  <2>5. Arrived' \o <<y>> = Arrived \o c /\ <<y>> \in Seq(Byte)
    <3>1. c = <<NoByte, y>>
      BY <1>12
    <3> HIDE DEF y
    <3>2. /\ Append(Arrived, NoByte) \o <<y>> = Arrived \o <<NoByte, y>>
          /\ <<y>> \in Seq(Byte)
      BY <1>3, <1>9, <2>1, ConcatPrefixed, Zenon
    <3> QED BY <2>4, <3>1, <3>2, Zenon
  <2> QED BY <1>6, <2>3, <2>4, <2>5
<1>13. CASE wire = <<"E0", "F0", j>> /\ ~brk /\ c = <<NoByte, [rel |-> TRUE, key |-> j]>>
  <2> DEFINE y == [rel |-> TRUE, key |-> j]
  <2>1. k = "E0" /\ wire' = <<"F0", j>> /\ y \in Byte /\ brk' = FALSE
    BY <1>1, <1>9, <1>13
  <2>2. b = NoByte
    BY <2>1 DEF NoByte
  <2>3. Comes(<<y>>)'
    BY <2>1 DEF Comes
  <2>4. fifo' \in Seq(Byte) /\ Arrived' = Append(Arrived, NoByte)
    BY <1>7, <1>9, <2>1, <2>2
  <2>5. Arrived' \o <<y>> = Arrived \o c /\ <<y>> \in Seq(Byte)
    <3>1. c = <<NoByte, y>>
      BY <1>13
    <3> HIDE DEF y
    <3>2. /\ Append(Arrived, NoByte) \o <<y>> = Arrived \o <<NoByte, y>>
          /\ <<y>> \in Seq(Byte)
      BY <1>3, <1>9, <2>1, ConcatPrefixed, Zenon
    <3> QED BY <2>4, <3>1, <3>2, Zenon
  <2> QED BY <1>6, <2>3, <2>4, <2>5
<1> QED BY <1>8, <1>10, <1>11, <1>12, <1>13

(* The latch takes the oldest byte of the FIFO.                            *)
LEMMA LoadStep ==
  ASSUME KeysInv, ~lost', Chained', LoadLatch
  PROVE  KeysInv'
PROOF
<1>1. /\ ~obf /\ ~hold /\ fifo # <<>> /\ obuf' = Head(fifo) /\ obf' = TRUE /\ fifo' = Tail(fifo)
      /\ ~lost
      /\ UNCHANGED <<held, wire, brk, due, hold, khead, ktail, kbuf, shift, isr, prog, ax>>
  BY DEF LoadLatch, board, ring, reader
<1>2. Keyboard /\ Chained /\ Ringed /\ Reading /\ Flow
  BY <1>1 DEF KeysInv
<1>3. /\ fifo \in Seq(Byte) /\ Head(fifo) \in Byte /\ Tail(fifo) \in Seq(Byte)
      /\ Len(Tail(fifo)) = Len(fifo) - 1 /\ Len(fifo) \in Nat
      /\ \A i \in 1..Len(Tail(fifo)) : Tail(fifo)[i] = fifo[i + 1]
  BY <1>1, <1>2, HeadTailProperties, LenProperties DEF Keyboard
<1>4. Keyboard' /\ Ringed' /\ Reading'
  <2>1. Keyboard'
    BY <1>1, <1>2, <1>3 DEF Keyboard
  <2> QED BY <1>1, <1>2, <2>1 DEF Ringed, Reading, Taken
<1>5. Arrived' = Arrived
  <2>1. Arrived = fifo
    <3>1. InLatch = <<>>
      BY <1>1, <1>2 DEF InLatch, Chained
    <3> QED BY <1>3, <3>1, ConcatEmptySeq DEF Arrived
  <2>2. Arrived' = <<Head(fifo)>> \o Tail(fifo)
    BY <1>1 DEF Arrived, InLatch
  <2>3. <<Head(fifo)>> \o Tail(fifo) = fifo
    <3> DEFINE h == Head(fifo)
               r == Tail(fifo)
    <3>1. h \in Byte /\ r \in Seq(Byte) /\ <<h>> \in Seq(Byte) /\ Len(<<h>>) = 1
          /\ <<h>>[1] = h
      BY <1>3
    <3>2. fifo[1] = h /\ \A i \in 1..Len(r) : r[i] = fifo[i + 1]
      BY <1>1, <1>3
    <3>3. Len(r) = Len(fifo) - 1
      BY <1>3
    <3> HIDE DEF h, r
    <3>4. /\ <<h>> \o r \in Seq(Byte) /\ Len(<<h>> \o r) = 1 + Len(r)
          /\ \A i \in 1..1 + Len(r) : (<<h>> \o r)[i] = IF i <= 1 THEN <<h>>[i] ELSE r[i - 1]
      BY <3>1, ConcatProperties
    <3>5. \A i \in 1..Len(fifo) : (<<h>> \o r)[i] = fifo[i]
      <4> SUFFICES ASSUME NEW i \in 1..Len(fifo) PROVE (<<h>> \o r)[i] = fifo[i]
        OBVIOUS
      <4>1. CASE i = 1
        BY <1>3, <3>1, <3>2, <3>3, <3>4, <4>1
      <4>2. CASE i # 1
        <5>1. i - 1 \in 1..Len(r) /\ ~(i <= 1) /\ i - 1 + 1 = i
          BY <1>3, <3>3, <4>2
        <5>2. r[i - 1] = fifo[i]
          BY <3>2, <5>1
        <5> QED BY <1>3, <3>3, <3>4, <5>1, <5>2
      <4> QED BY <4>1, <4>2
    <3>6. Len(<<h>> \o r) = Len(fifo)
      <4>1. Len(fifo) \in Nat
        BY <1>3
      <4> QED BY ONLY <3>3, <3>4, <4>1
    <3>7. <<h>> \o r = fifo
      BY <1>3, <3>4, <3>5, <3>6, SeqEqual
    <3> QED BY <3>7 DEF h, r
  <2> QED BY <2>1, <2>2, <2>3
<1>6. Flow'
  <2>1. PICK c \in Seq(Byte) :
          Comes(c) /\ Leads(Arrived \o c, shift, Taken, due, held \cap Modifiers)
    BY <1>2 DEF Flow
  <2>2. Comes(c)' /\ Taken' = Taken
    BY <1>1, <2>1 DEF Comes, Taken
  <2>3. Leads(Arrived' \o c, shift', Taken', due', held' \cap Modifiers)
    BY <1>1, <1>5, <2>1, <2>2
  <2> QED BY <2>2, <2>3 DEF Flow
<1> QED BY <1>4, <1>6 DEF KeysInv

(* INT 09h takes the byte in the latch.                                    *)
LEMMA ByteTaken ==
  ASSUME fifo \in Seq(Byte), obuf \in Byte, Taken \in Nat, due \in Seq(Stroke),
         NEW c \in Seq(Byte), NEW t, Leads((<<obuf>> \o fifo) \o c, shift, Taken, due, t)
  PROVE  /\ Leads(fifo \o c, ShiftAfter(obuf, shift), More(obuf, Taken), due, t)
         /\ IsStroke(obuf) => /\ More(obuf, Taken) \in DOMAIN due
                              /\ due[More(obuf, Taken)] = Made(obuf, shift)
PROOF
<1>1. PICK p \in Seq(Byte) : p = (<<obuf>> \o fifo) \o c
  BY ConcatFirst
<1>2. PICK q \in Seq(Byte) : q = fifo \o c
  BY ConcatProperties
<1>3. p # <<>> /\ Head(p) = obuf /\ Tail(p) = q /\ Leads(p, shift, Taken, due, t)
  BY <1>1, <1>2, ConcatFirst
<1>4. /\ Leads(q, ShiftAfter(obuf, shift), More(obuf, Taken), due, t)
      /\ IsStroke(obuf) => /\ More(obuf, Taken) \in DOMAIN due
                           /\ due[More(obuf, Taken)] = Made(obuf, shift)
  <2>1. obuf \in Byte /\ Taken \in Nat /\ due \in Seq(Stroke) /\ p \in Seq(Byte) /\ q \in Seq(Byte)
    OBVIOUS
  <2> QED BY ONLY <2>1, <1>3, LeadsOn
<1> QED BY <1>2, <1>4

LEMMA BiosStep ==
  ASSUME KeysInv, ~lost', Chained', BiosReads
  PROVE  KeysInv'
PROOF
<1>1. /\ isr \in {"bios", "chain"} /\ isr' = "out" /\ obf' = FALSE /\ hold' = (hold \/ obf)
      /\ Int09(obuf)
      /\ UNCHANGED <<held, wire, brk, due, fifo, obuf, prog, ax>>
  BY DEF BiosReads, ReadPort60, board, reader
<1>2. /\ shift' = ShiftAfter(obuf, shift)
      /\ IF IsStroke(obuf) THEN RingPut([key |-> obuf.key, upper |-> "shift" \in shift])
                           ELSE UNCHANGED <<khead, ktail, kbuf, lost>>
  BY <1>1 DEF Int09, ring
<1>3. ~lost
  BY <1>2 DEF RingPut
<1>4. Keyboard /\ Chained /\ Ringed /\ Reading /\ Flow
  BY <1>3 DEF KeysInv
<1>5. PICK c \in Seq(Byte) :
        Comes(c) /\ Leads(Arrived \o c, shift, Taken, due, held \cap Modifiers)
  BY <1>4 DEF Flow
<1> DEFINE new == [key |-> obuf.key, upper |-> "shift" \in shift]
           next == IF IsStroke(obuf) THEN Taken + 1 ELSE Taken
<1>6. /\ khead \in Slots /\ ktail \in Slots /\ Taken \in Nat /\ Len(due) \in Nat
      /\ fifo \in Seq(Byte) /\ obuf \in Byte /\ due \in Seq(Stroke)
  BY <1>4, RingCount, TypingAssumptions, LenProperties DEF Keyboard, Ringed, Taken, Slots
<1>7. /\ Leads(fifo \o c, ShiftAfter(obuf, shift), next, due, held \cap Modifiers)
      /\ IsStroke(obuf) => Taken + 1 <= Len(due) /\ due[Taken + 1] = new
  <2>1. InLatch = <<obuf>>
    BY <1>1, <1>4 DEF InLatch, Chained
  <2>2. Leads((<<obuf>> \o fifo) \o c, shift, Taken, due, held \cap Modifiers)
    BY <1>5, <2>1 DEF Arrived
  <2>3. next = More(obuf, Taken) /\ new = Made(obuf, shift)
    BY DEF More, Made
  <2> HIDE DEF new, next
  <2>4. /\ Leads(fifo \o c, ShiftAfter(obuf, shift), next, due, held \cap Modifiers)
        /\ IsStroke(obuf) => next \in DOMAIN due /\ due[next] = new
    BY <1>6, <2>2, <2>3, ByteTaken
  <2>5. DOMAIN due = 1..Len(due)
    BY <1>6
  <2> QED BY <1>6, <2>4, <2>5 DEF next
<1>8. Keyboard'
  <2>1. shift' \subseteq Modifiers
    BY <1>2, <1>4 DEF Keyboard, ShiftAfter
  <2> QED BY <1>1, <1>4, <2>1 DEF Keyboard
<1>9. Ringed' /\ Reading' /\ Taken' = next
  <2>1. CASE ~IsStroke(obuf)
    <3>1. UNCHANGED <<khead, ktail, kbuf, due, prog, ax>>
      BY <1>1, <1>2, <2>1
    <3>2. Taken' = Taken
      BY <3>1 DEF Taken
    <3>3. Ringed' /\ Reading'
      BY <1>4, <3>1, <3>2 DEF Ringed, Reading
    <3> QED BY <2>1, <3>2, <3>3
  <2>2. CASE IsStroke(obuf)
    <3>1. /\ KNext(ktail) # khead /\ kbuf' = [kbuf EXCEPT ![ktail] = new]
          /\ ktail' = KNext(ktail) /\ khead' = khead
      BY <1>2, <2>2 DEF RingPut
    <3>2. /\ ktail' \in Slots /\ ktail' # khead /\ Taken' = Taken + 1
          /\ Place(khead, Taken) = ktail
          /\ \A i \in 0..Taken - 1 : Place(khead, i) # ktail
      BY <1>6, <3>1, RingGrows DEF Taken
    <3>3. /\ kbuf' = [i \in Slots |-> kbuf'[i]] /\ kbuf'[ktail] = new
          /\ \A i \in Slots : i # ktail => kbuf'[i] = kbuf[i]
      BY <1>4, <1>6, <3>1 DEF Ringed
    <3>4. ASSUME NEW i \in 0..Taken' - 1 PROVE kbuf'[Place(khead', i)] = due'[i + 1]
      <4>1. CASE i = Taken
        BY <1>1, <1>7, <2>2, <3>1, <3>2, <3>3, <4>1
      <4>2. CASE i # Taken
        <5>1. i \in 0..Taken - 1 /\ i \in 0..KRING
          <6>1. Taken \in 0..KRING - 1 /\ KRING \in Nat
            BY <1>6, RingCount, TypingAssumptions DEF Taken, Slots
          <6>2. Taken' = Taken + 1
            BY <3>2
          <6> QED BY <4>2, <6>1, <6>2
        <5>2. Place(khead, i) \in Slots /\ Place(khead, i) # ktail
          BY <1>6, <3>2, <5>1, RingPlace
        <5>3. kbuf[Place(khead, i)] = due[i + 1]
          BY <1>4, <5>1 DEF Ringed
        <5> QED BY <1>1, <3>1, <3>3, <5>2, <5>3
      <4> QED BY <4>1, <4>2
    <3>5. Taken' <= Len(due')
      BY <1>1, <1>7, <2>2, <3>2
    <3>6. Ringed'
      BY <1>6, <3>1, <3>2, <3>3, <3>4, <3>5 DEF Ringed
    <3>7. Reading'
      BY <1>1, <1>4, <1>6, <3>1, <3>2, <3>3 DEF Reading
    <3> QED BY <2>2, <3>2, <3>6, <3>7
  <2> QED BY <2>1, <2>2
<1>10. Flow'
  <2>1. Arrived' = fifo
    <3>1. InLatch' = <<>>
      BY <1>1 DEF InLatch
    <3> QED BY <1>1, <1>6, <3>1, ConcatEmptySeq DEF Arrived
  <2>2. Comes(c)'
    BY <1>1, <1>5 DEF Comes
  <2>3. Leads(Arrived' \o c, shift', Taken', due', held' \cap Modifiers)
    <3> HIDE DEF next
    <3> QED BY <1>1, <1>2, <1>7, <1>9, <2>1
  <2> QED BY <2>2, <2>3 DEF Flow
<1> QED BY <1>8, <1>9, <1>10 DEF KeysInv

(* INT 16h gives the oldest key to the program.                            *)
LEMMA FreeStep ==
  ASSUME KeysInv, ~lost', Chained', FreeEntry
  PROVE  KeysInv'
PROOF
<1>1. /\ prog = "free" /\ prog' = "app" /\ khead' = KNext(khead)
      /\ due' = (IF due = <<>> THEN due ELSE Tail(due)) /\ ~lost
      /\ UNCHANGED <<held, wire, brk, fifo, obuf, obf, hold, ktail, kbuf, shift, isr>>
  BY DEF FreeEntry, Calls, latch
<1>2. Keyboard /\ Ringed /\ Reading /\ Flow
  BY <1>1 DEF KeysInv
<1>3. /\ khead \in Slots /\ ktail \in Slots /\ khead # ktail /\ Taken \in Nat \ {0}
      /\ due \in Seq(Stroke) /\ Len(due) \in Nat /\ Taken <= Len(due)
  BY <1>1, <1>2, RingCount, LenProperties, TypingAssumptions
     DEF Keyboard, Ringed, Reading, Taken, Slots
<1>4. due # <<>>
  BY <1>3
<1>5. /\ due' = Tail(due) /\ due' \in Seq(Stroke) /\ Len(due') = Len(due) - 1
      /\ \A i \in 1..Len(due') : due'[i] = due[i + 1]
  BY <1>1, <1>3, <1>4, HeadTailProperties
<1>6. /\ khead' \in Slots /\ Taken' = Taken - 1
      /\ \A i \in 0..Taken - 2 : Place(khead', i) = Place(khead, i + 1)
  BY <1>1, <1>3, RingShrinks DEF Taken
<1>7. Keyboard' /\ Reading'
  BY <1>1, <1>2, <1>5 DEF Keyboard, Reading
<1>8. Ringed'
  <2>1. ASSUME NEW i \in 0..Taken' - 1 PROVE kbuf'[Place(khead', i)] = due'[i + 1]
    <3>1. i \in 0..Taken - 2 /\ i + 1 \in 0..Taken - 1 /\ i + 1 \in 1..Len(due')
      BY <1>3, <1>5, <1>6
    <3>2. kbuf[Place(khead, i + 1)] = due[i + 1 + 1]
      BY <1>2, <3>1 DEF Ringed
    <3> QED BY <1>1, <1>5, <1>6, <3>1, <3>2
  <2>2. Taken' <= Len(due')
    BY <1>3, <1>5, <1>6
  <2> QED BY <1>1, <1>2, <1>3, <1>6, <2>1, <2>2 DEF Ringed
<1>9. Flow'
  <2>1. PICK c \in Seq(Byte) :
          Comes(c) /\ Leads(Arrived \o c, shift, Taken, due, held \cap Modifiers)
    BY <1>2 DEF Flow
  <2>2. Arrived \o c \in Seq(Byte)
    BY <1>2, ArrivedBytes, ConcatProperties
  <2>3. Leads(Arrived \o c, shift, Taken - 1, Tail(due), held \cap Modifiers)
    BY <1>3, <1>4, <2>1, <2>2, LeadsWithoutFirst
  <2>4. Comes(c)' /\ Arrived' = Arrived
    BY <1>1, <2>1 DEF Comes, Arrived, InLatch
  <2>5. Leads(Arrived' \o c, shift', Taken', due', held' \cap Modifiers)
    BY <1>1, <1>5, <1>6, <2>3, <2>4
  <2> QED BY <2>4, <2>5 DEF Flow
<1> QED BY <1>7, <1>8, <1>9 DEF KeysInv

(* The program's handler reads the byte in the latch, which INT 09h has    *)
(* yet to see.                                                             *)
LEMMA HookStep ==
  ASSUME KeysInv, ~lost', Chained', HookReads
  PROVE  KeysInv'
PROOF
<1>1. /\ isr = "hook" /\ isr' = "chain" /\ obf' = FALSE /\ hold' = (hold \/ obf) /\ ~lost
      /\ UNCHANGED <<held, wire, brk, due, fifo, obuf, khead, ktail, kbuf, shift, prog, ax>>
  BY DEF HookReads, ReadPort60, board, ring, reader
<1>2. Keyboard /\ Chained /\ Ringed /\ Reading /\ Flow
  BY <1>1 DEF KeysInv
<1>3. Keyboard' /\ Ringed' /\ Reading'
  BY <1>1, <1>2 DEF Keyboard, Ringed, Reading, Taken
<1>4. InLatch' = InLatch
  BY <1>1, <1>2 DEF InLatch, Chained
<1>5. Flow'
  BY <1>1, <1>2, <1>4, FlowKept
<1> QED BY <1>3, <1>5 DEF KeysInv

LEMMA KeysStep ==
  ASSUME KeysInv, Chained', [TypingNext]_typingVars
  PROVE  KeysInv'
PROOF
<1>1. CASE lost'
  BY <1>1 DEF KeysInv
<1>2. CASE ~lost'
  <2>1. ASSUME NEW k \in KEYS, PressKey(k) \/ ReleaseKey(k) PROVE KeysInv'
    BY <1>2, <2>1, PressStep, ReleaseStep
  <2>2. CASE ReceiveFrame
    BY <1>2, <2>2, ReceiveStep
  <2>3. CASE LoadLatch
    BY <1>2, <2>3, LoadStep
  <2>4. CASE HookReads
    BY <1>2, <2>4, HookStep
  <2>5. CASE BiosReads
    BY <1>2, <2>5, BiosStep
  <2>6. CASE FreeEntry
    BY <1>2, <2>6, FreeStep
  <2>7. ASSUME UNCHANGED <<board, fifo, obuf, obf, ring, shift, lost>>,
               hold' \in {hold, FALSE}, (isr' = "chain") <=> (isr = "chain"),
               \/ UNCHANGED <<prog, ax>>
               \/ /\ prog' \notin {"have", "free"} \/ prog' = prog
                  /\ ax' = ax
               \/ prog' = "have" /\ khead # ktail
               \/ prog = "have" /\ prog' = "free" /\ ax' = kbuf[khead]
        PROVE  KeysInv'
    <3>1. Keyboard /\ Reading
      BY <1>2, <2>7 DEF KeysInv
    <3>2. hold' \in BOOLEAN
      BY <2>7, <3>1 DEF Keyboard
    <3>3. Reading'
      BY <2>7, <3>1 DEF Reading, ring
    <3> QED BY <1>2, <2>7, <3>2, <3>3, KeptStep
  <2>8. CASE HoldEnds
    BY <2>7, <2>8 DEF HoldEnds, reader
  <2>9. CASE KbdInterrupt
    BY <2>7, <2>9 DEF KbdInterrupt, latch, reader
  <2>10. CASE KbdReturn
    BY <2>7, <2>10 DEF KbdReturn, latch, Awake
  <2>11. CASE TimerFires \/ UNCHANGED typingVars
    BY <2>7, <2>11 DEF TimerFires, latch, reader, typingVars
  <2>12. CASE Tick
    BY <2>7, <2>12 DEF Tick, latch, Awake
  <2>13. CASE ReadKey \/ ReadClock \/ LookForKey \/ EnableInterrupts \/ Sleep
    BY <2>7, <2>13 DEF ReadKey, ReadClock, LookForKey, EnableInterrupts, Sleep, Calls, latch
  <2>14. CASE TakeKey \/ ReadClockLow \/ ReadClockHigh
    BY <2>7, <2>14 DEF TakeKey, ReadClockLow, ReadClockHigh, Calls, latch
  <2> QED
    BY <2>1, <2>2, <2>3, <2>4, <2>5, <2>6, <2>8, <2>9, <2>10, <2>11, <2>12, <2>13, <2>14
       DEF TypingNext, ProgramSteps
<1> QED BY <1>1, <1>2

LEMMA KeysInit == TypingInit => KeysInv
PROOF
<1> SUFFICES ASSUME TypingInit PROVE KeysInv
  OBVIOUS
<1>1. Keyboard
  <2>1. /\ held = {} /\ shift = {} /\ brk = FALSE /\ obf = FALSE /\ hold = FALSE
        /\ fifo = <<>> /\ obuf = NoByte /\ due = <<>>
    BY DEF TypingInit
  <2>2. <<>> \in Seq(Byte) /\ <<>> \in Seq(Stroke)
    BY EmptySeq
  <2> QED BY <2>1, <2>2, BytesOfKeys DEF Keyboard
<1>2. Taken = 0 /\ 0 \in Slots
  <2>1. 0 \in Slots
    BY TypingAssumptions DEF Slots
  <2> QED BY <2>1, RingCount DEF TypingInit, Taken
<1>3. Ringed /\ Reading
  BY <1>2 DEF TypingInit, Ringed, Reading, Slots
<1>4. Flow
  <2>1. Arrived \o <<>> = <<>>
    <3>1. Arrived = <<>> \o <<>>
      BY DEF TypingInit, Arrived, InLatch
    <3> QED BY <3>1, ConcatEmptySeq, EmptySeq
  <2>2. Comes(<<>>)
    BY DEF TypingInit, Comes
  <2>3. held \cap Modifiers = {} /\ shift = {} /\ due = <<>>
    BY DEF TypingInit
  <2>4. Leads(<<>>, {}, 0, <<>>, {})
    BY LeadsStart
  <2>5. Leads(Arrived \o <<>>, shift, Taken, due, held \cap Modifiers)
    BY <1>2, <2>1, <2>3, <2>4
  <2>6. <<>> \in Seq(Byte)
    BY EmptySeq
  <2> QED BY <2>2, <2>5, <2>6 DEF Flow
<1>5. Chained
  BY DEF TypingInit, Chained
<1> QED BY <1>1, <1>3, <1>4, <1>5 DEF KeysInv

LEMMA KeysMeanOrder == KeysInv => KeysInOrder
PROOF
<1> SUFFICES ASSUME KeysInv, ~lost PROVE
       /\ IsPrefix(Waiting, due)
       /\ prog = "free" => due # <<>> /\ ax = Head(due)
       /\ Settled => Waiting = due /\ shift = held \cap Modifiers
  BY DEF KeysInOrder
<1>1. Keyboard /\ Chained /\ Ringed /\ Reading /\ Flow
  BY DEF KeysInv
<1>2. /\ khead \in Slots /\ ktail \in Slots /\ Taken \in 0..KRING - 1 /\ KRING \in Nat
      /\ due \in Seq(Stroke) /\ Len(due) \in Nat /\ Taken <= Len(due)
      /\ khead # ktail => Taken > 0
  BY <1>1, RingCount, TypingAssumptions, LenProperties DEF Keyboard, Ringed, Taken, Slots
<1>3. /\ Waiting \in Seq(Stroke) /\ Len(Waiting) = Taken
      /\ \A i \in 1..Taken : Waiting[i] = due[i]
  <2>1. Waiting = [i \in 1..Taken |-> kbuf[(khead + i - 1) % KRING]]
    BY DEF Waiting, Taken, ReadCount
  <2>2. ASSUME NEW i \in 1..Taken PROVE kbuf[(khead + i - 1) % KRING] = due[i]
    <3>1. i - 1 \in 0..Taken - 1 /\ i - 1 + 1 = i /\ khead + (i - 1) = khead + i - 1
      BY <1>2 DEF Slots
    <3>2. kbuf[Place(khead, i - 1)] = due[i - 1 + 1]
      BY <1>1, <3>1 DEF Ringed
    <3> QED BY <3>1, <3>2 DEF Place
  <2>3. Waiting = [i \in 1..Taken |-> due[i]]
    BY <2>1, <2>2
  <2>4. \A i \in 1..Taken : due[i] \in Stroke
    BY <1>2
  <2> QED BY <1>2, <2>3, <2>4
<1>4. IsPrefix(Waiting, due)
  <2>1. SubSeq(due, 1, Taken) \in Seq(Stroke) /\ Len(SubSeq(due, 1, Taken)) = Taken
        /\ \A i \in 1..Taken : SubSeq(due, 1, Taken)[i] = due[i]
    BY <1>2, SubSeqProperties
  <2>2. SubSeq(Waiting, 1, Len(Waiting)) = Waiting
    BY <1>3, SubSeqFull
  <2>3. Waiting = SubSeq(due, 1, Taken)
    BY <1>3, <2>1, SeqEqual
  <2> QED BY <1>2, <1>3, <2>2, <2>3 DEF IsPrefix
<1>5. ASSUME prog = "free" PROVE due # <<>> /\ ax = Head(due)
  <2>1. khead # ktail /\ ax = kbuf[khead]
    BY <1>1, <1>5 DEF Reading
  <2>2. Place(khead, 0) = khead /\ 0 \in 0..Taken - 1
    BY <1>2, <2>1, RingPlace DEF Slots
  <2>3. Len(due) > 0
    BY <1>2, <2>2
  <2>4. kbuf[khead] = due[1]
    <3>1. kbuf[Place(khead, 0)] = due[0 + 1]
      BY <1>1, <2>2 DEF Ringed
    <3> QED BY <2>2, <3>1
  <2> QED BY <1>2, <2>1, <2>3, <2>4
<1>6. ASSUME Settled PROVE Waiting = due /\ shift = held \cap Modifiers
  <2>1. PICK c \in Seq(Byte) :
          Comes(c) /\ Leads(Arrived \o c, shift, Taken, due, held \cap Modifiers)
    BY <1>1 DEF Flow
  <2>2. c = <<>>
    BY <1>6, <2>1 DEF Settled, Comes
  <2>3. Arrived \o c = <<>>
    <3>1. Arrived = <<>> \o <<>>
      BY <1>6 DEF Settled, Arrived, InLatch
    <3> QED BY <2>2, <3>1, ConcatEmptySeq, EmptySeq
  <2>4. shift = held \cap Modifiers /\ Taken = Len(due)
    BY <2>1, <2>3, LeadsNowhere
  <2> QED BY <1>2, <1>3, <2>4, SeqEqual
<1> QED BY <1>4, <1>5, <1>6

(* Unless a full FIFO or a full ring dropped a byte, the ring always holds *)
(* the oldest of the keys still due, INT 16h gives the oldest of all, in   *)
(* the case the modifiers gave it when it was pressed, and once the        *)
(* keyboard is quiet nothing is missing and 40:17 shows what is held down. *)
THEOREM TypingKeysInOrder == TypingSpec => []KeysInOrder
PROOF
<1>1. TypingInit => KeysInv /\ Chained
  BY KeysInit DEF TypingInit, Chained
<1>2. KeysInv /\ Chained /\ [TypingNext]_typingVars => KeysInv' /\ Chained'
  BY KeysStep, ChainedStep
<1> QED BY <1>1, <1>2, KeysMeanOrder, PTL DEF TypingSpec

-----------------------------------------------------------------------------
(* Disk. *)

WindowFits == BASE + SECTORS * SWORDS <= AMOD

Transfers == {"RD_RQ", "RD_NX", "WR_RQ", "WR_NX", "WR_SU", "DONE"}

(* A transfer is of a sector the device has, and its place is in it.       *)
Ranged ==
  /\ lbaSet \in Nat /\ si \in Nat
  /\ lbaCur \in Nat /\ tidx \in Nat
  /\ tstate \in Transfers \cup {"IDLE"}
  /\ tstate \in Transfers => lbaCur < SECTORS /\ tidx < SWORDS

(* A place in a sector of the device is in the device.                     *)
LEMMA PlaceInWindow ==
  ASSUME NEW n \in Nat \ {0}, NEW s \in Nat, NEW l \in Nat, NEW i \in Nat,
         l < s, i < n
  PROVE  l * n + i < s * n
PROOF
<1>1. (l + 1) * n <= s * n
  OBVIOUS
<1>2. (l + 1) * n = l * n + n
  OBVIOUS
<1>3. l * n \in Nat /\ s * n \in Nat
  OBVIOUS
<1> QED BY <1>1, <1>2, <1>3

LEMMA AddressInWindow ==
  ASSUME Ranged, tstate \in Transfers, WindowFits
  PROVE  XferAddr \in BASE..BASE + SECTORS * SWORDS - 1
PROOF
<1>1. SWORDS \in Nat \ {0} /\ SECTORS \in Nat /\ BASE \in Nat /\ AMOD \in Nat
  BY StorageAssumptions
<1>2. lbaCur \in Nat /\ tidx \in Nat /\ lbaCur < SECTORS /\ tidx < SWORDS
  BY DEF Ranged
<1>3. lbaCur * SWORDS + tidx < SECTORS * SWORDS
  BY <1>1, <1>2, PlaceInWindow
<1>4. lbaCur * SWORDS \in Nat /\ SECTORS * SWORDS \in Nat
  BY <1>1, <1>2
<1> DEFINE place == lbaCur * SWORDS
           size == SECTORS * SWORDS
<1>5. place \in Nat /\ size \in Nat /\ place + tidx < size /\ BASE + size <= AMOD
  BY <1>3, <1>4 DEF WindowFits
<1>6. XferAddr = (BASE + place + tidx) % AMOD
  BY DEF XferAddr
<1> HIDE DEF place, size
<1>7. (BASE + place + tidx) % AMOD = BASE + place + tidx
  BY <1>1, <1>2, <1>5
<1>8. XferAddr \in BASE..BASE + size - 1
  BY <1>1, <1>2, <1>5, <1>6, <1>7
<1> QED BY <1>8 DEF size

LEMMA EngineKeepsRanged ==
  ASSUME Ranged, EngineStep, UNCHANGED serviceVars
  PROVE  Ranged'
PROOF
<1> USE StorageAssumptions DEF Ranged, Transfers
<1>0. si' = si
  BY DEF serviceVars
<1>1. CASE ReadWord
  BY <1>0, <1>1 DEF ReadWord
<1>2. CASE ReadOn
  BY <1>0, <1>2 DEF ReadOn, EngineNext
<1>3. CASE WriteWord
  BY <1>0, <1>3 DEF WriteWord
<1>4. CASE WriteOn
  BY <1>0, <1>4 DEF WriteOn, EngineNext
<1>5. CASE TransferDone
  BY <1>0, <1>5 DEF TransferDone
<1> QED BY <1>1, <1>2, <1>3, <1>4, <1>5 DEF EngineStep

LEMMA CommandKeepsRanged ==
  ASSUME Ranged, NEW cmd, WriteCmd(cmd), si' = si
  PROVE  Ranged'
PROOF
<1> USE StorageAssumptions DEF Ranged, Transfers
<1>1. CASE busy
  BY <1>1 DEF WriteCmd, engineVars
<1>2. CASE ~busy /\ lbaSet < SECTORS
  BY <1>2 DEF WriteCmd
<1>3. CASE ~busy /\ ~(lbaSet < SECTORS)
  BY <1>3 DEF WriteCmd, engineVars
<1> QED BY <1>1, <1>2, <1>3

LEMMA ServiceKeepsRanged ==
  ASSUME Ranged, ServiceStep
  PROVE  Ranged'
PROOF
<1> USE DEF Ranged
<1>1. CASE NextSector
  <2>1. lbaSet' \in {lbaSet, si} /\ si' = si /\ UNCHANGED engineVars
    BY <1>1 DEF NextSector, WriteLba, Answer, storageVars
  <2> QED BY <2>1 DEF engineVars
<1>2. CASE FillWord
  BY <1>2 DEF FillWord, WriteData, engineVars
<1>3. CASE Command
  BY <1>3, CommandKeepsRanged DEF Command, serviceVars
<1>4. CASE Poll
  <2>1. si' = si \/ SectorDone
    BY <1>4 DEF Poll, Answer, serviceVars
  <2>2. si' \in Nat
    BY <2>1 DEF SectorDone
  <2> QED BY <1>4, <2>2 DEF Poll, storageVars, engineVars
<1>5. CASE TakeWord
  <2>1. si' = si \/ SectorDone
    BY <1>5 DEF TakeWord
  <2>2. si' \in Nat
    BY <2>1 DEF SectorDone
  <2> QED BY <1>5, <2>2 DEF TakeWord, ReadData, engineVars
<1> QED BY <1>1, <1>2, <1>3, <1>4, <1>5 DEF ServiceStep

LEMMA RangedStep == Ranged /\ [DiskNext]_diskVars => Ranged'
PROOF
<1> SUFFICES ASSUME Ranged, [DiskNext]_diskVars PROVE Ranged'
  OBVIOUS
<1>1. ASSUME NEW op \in {"read", "write"}, NEW ch \in DCYLS,
             NEW dh \in 0..GHEADS - 1, NEW cl \in 1..GSPT, NEW al \in DCOUNTS,
             CallDisk(op, ch, dh, cl, al)
      PROVE  Ranged'
  <2>1. ch \in Nat /\ dh \in Nat /\ cl \in Nat /\ GHEADS \in Nat /\ GSPT \in Nat
    BY ServiceAssumptions
  <2>2. (ch * GHEADS + dh) * GSPT \in Int /\ cl % 64 \in Int
    BY <2>1
  <2> DEFINE track == (ch * GHEADS + dh) * GSPT
  <2>3. si' = (track + (cl % 64) - 1) % 65536
    BY <1>1 DEF CallDisk, LbaOf, Built
  <2> HIDE DEF track
  <2>4. track \in Int
    BY <2>2 DEF track
  <2>5. si' \in Nat
    BY <2>2, <2>3, <2>4
  <2> QED BY <1>1, <2>5 DEF CallDisk, Ranged, storageVars, engineVars
<1>2. ASSUME NEW f \in {0, 1, 8}, OtherCall(f) PROVE Ranged'
  BY <1>2 DEF OtherCall, Ranged, storageVars, engineVars
<1>3. CASE ServiceStep
  BY <1>3, ServiceKeepsRanged
<1>4. CASE ProgramPorts
  <2>1. si' = si
    BY <1>4 DEF ProgramPorts, serviceVars
  <2>2. CASE WriteCmd("read")
    BY <2>1, <2>2, CommandKeepsRanged
  <2>3. CASE ReadData
    BY <2>1, <2>3 DEF ReadData, Ranged, engineVars
  <2>4. CASE WriteData(<<0, 1>>)
    BY <2>1, <2>4 DEF WriteData, Ranged, engineVars
  <2> QED BY <1>4, <2>2, <2>3, <2>4 DEF ProgramPorts
<1>5. CASE EngineStep /\ UNCHANGED <<serviceVars, dpc>>
  BY <1>5, EngineKeepsRanged
<1>6. CASE UNCHANGED diskVars
  BY <1>6 DEF diskVars, storageVars, serviceVars, engineVars, Ranged
<1> QED BY <1>1, <1>2, <1>3, <1>4, <1>5, <1>6 DEF DiskNext

(* The engine transfers only sectors the device has, one word after the    *)
(* other, whatever sector numbers INT 13h and the programs come up with.   *)
THEOREM StorageRanged == DiskSpec => []Ranged
PROOF
<1>1. DiskInit => Ranged
  BY StorageAssumptions DEF DiskInit, StorageInit, Ranged, Transfers
<1> QED BY <1>1, RangedStep, PTL DEF DiskSpec

(* "Conventional memory and the disk cannot collide however wrong the      *)
(* software gets" (storage.sv), if the window fits into the address.       *)
THEOREM StorageDiskApart ==
  ASSUME WindowFits
  PROVE  DiskSpec => []DiskApart
PROOF
<1>1. Ranged => DiskApart
  BY AddressInWindow, StorageAssumptions DEF DiskApart, Transfers
<1> QED BY <1>1, StorageRanged, PTL

(* The engine writes the disk and nothing else: a word outside the window  *)
(* changes only under REP INSW, in the caller's buffer.                    *)
THEOREM StorageWritesInside ==
  ASSUME WindowFits
  PROVE  DiskSpec => [][EngineStep =>
           \A a \in (DOMAIN sdram) \ (BASE..BASE + SECTORS * SWORDS - 1) :
              sdram'[a] = sdram[a]]_diskVars
PROOF
<1>1. ASSUME Ranged, EngineStep,
             NEW a \in (DOMAIN sdram) \ (BASE..BASE + SECTORS * SWORDS - 1)
      PROVE  sdram'[a] = sdram[a]
  <2>1. CASE WriteWord
    BY <1>1, <2>1, AddressInWindow DEF WriteWord, Transfers
  <2>2. CASE ~WriteWord
    BY <1>1, <2>2 DEF EngineStep, ReadWord, ReadOn, WriteOn, TransferDone
  <2> QED BY <2>1, <2>2
<1> DEFINE Inside == EngineStep =>
             \A a \in (DOMAIN sdram) \ (BASE..BASE + SECTORS * SWORDS - 1) :
                sdram'[a] = sdram[a]
<1>2. Ranged => [Inside]_diskVars
  BY <1>1
<1> QED BY <1>2, StorageRanged, PTL
-----------------------------------------------------------------------------
(* INT 13h.                                                                *)

(* The numbers the BIOS computes with: a sector fits into the six bits of  *)
(* CL, and the sectors callers name and the device has into sixteen bits.  *)
NumbersFit ==
  /\ GSPT <= 63 /\ SECTORS < 65536
  /\ \A ch \in DCYLS : (ch + 1) * GHEADS * GSPT <= 65536

FunctionOn(S, f) == f = [x \in S |-> f[x]]
Memories == 0..AMOD - 1

(* Memory b with m words from `from' on copied to `to' on, and a buffer    *)
(* that holds p words from a place on.                                     *)
Copy(b, to, from, m) ==
  [a \in Memories |-> IF a \in to..to + m - 1 THEN b[from + (a - to)] ELSE b[a]]
Holds(s, b, place, p) == \A i \in 0..p - 1 : s[i] = b[place + i]

To   == IF dop.op = "read" THEN DBUF ELSE DiskAt
From == IF dop.op = "read" THEN DiskAt ELSE DBUF

(* The sectors of the call that are finished, in sectors and in words.     *)
finished == dop.n - left
offset == finished * SWORDS

Loaded(p) == Holds(sbuf, before, From + offset, p)
CopiedSoFar(m) == Copy(before, To, From, m)

Boards ==
  /\ FunctionOn(Memories, sdram) /\ FunctionOn(Memories, before)
  /\ FunctionOn(Places, sbuf)
  /\ windex \in Places /\ drq \in BOOLEAN /\ isRead \in BOOLEAN

(* Between calls the engine only reads.                                    *)
Outside ==
  dpc = "caller" => tstate \in {"IDLE", "RD_RQ", "RD_NX", "DONE"} /\ TransferExact

Called ==
  dpc # "caller" =>
    /\ dpc \in {"next", "fill", "cmd", "poll", "take"}
    /\ dop.op \in {"read", "write"} /\ dop.n \in DCOUNTS /\ dop.lba \in Nat
    /\ left \in 0..dop.n /\ (dpc # "next" => left > 0)
    /\ si = dop.lba + finished /\ (finished > 0 => si <= SECTORS)
    /\ dpc # "poll" => tstate = "IDLE"
    /\ dpc \in {"fill", "cmd", "poll"} => lbaSet = si

(* Where the caller's side of the sector's words is.                       *)
Caller ==
  /\ dpc = "next" => di = DBUF + offset /\ sdram = CopiedSoFar(offset)
  /\ dpc = "fill" =>
       /\ dop.op = "write" /\ cx \in 1..SWORDS /\ windex = SWORDS - cx
       /\ di = DBUF + offset + windex
       /\ Loaded(windex) /\ sdram = CopiedSoFar(offset)
  /\ dpc \in {"cmd", "poll"} =>
       IF dop.op = "read" THEN cx = SWORDS /\ di = DBUF + offset
                          ELSE di = DBUF + offset + SWORDS /\ Loaded(SWORDS)
  /\ dpc = "cmd" => sdram = CopiedSoFar(offset)
  /\ dpc = "take" =>
       /\ dop.op = "read" /\ cx \in 1..SWORDS /\ windex = SWORDS - cx /\ drq
       /\ si < SECTORS /\ di = DBUF + offset + windex
       /\ Loaded(SWORDS) /\ sdram = CopiedSoFar(offset + windex)

(* Where the engine's side is, while INT 13h waits for it.                 *)
Engine ==
  dpc = "poll" =>
    /\ err => si >= SECTORS /\ tstate = "IDLE" /\ sdram = CopiedSoFar(offset)
    /\ ~err => si < SECTORS /\ (busy => lbaCur = si /\ (isRead <=> dop.op = "read"))
    /\ ~err /\ dop.op = "read" =>
         /\ tstate \in {"RD_RQ", "RD_NX", "DONE", "IDLE"}
         /\ tstate = "RD_RQ" => Loaded(tidx)
         /\ tstate = "RD_NX" => Loaded(tidx + 1)
         /\ tstate \in {"DONE", "IDLE"} => Loaded(SWORDS)
         /\ sdram = CopiedSoFar(offset)
         /\ tstate = "IDLE" => drq /\ windex = 0
    /\ ~err /\ dop.op = "write" =>
         /\ tstate \in {"WR_SU", "WR_RQ", "WR_NX", "DONE", "IDLE"}
         /\ tstate \in {"WR_SU", "WR_RQ"} => sdram = CopiedSoFar(offset + tidx)
         /\ tstate = "WR_NX" => sdram = CopiedSoFar(offset + (tidx + 1))
         /\ tstate \in {"DONE", "IDLE"} => sdram = CopiedSoFar(offset + SWORDS)

TransferInv == Ranged /\ Boards /\ Outside /\ Called /\ Caller /\ Engine

LEMMA NextPlace ==
  ASSUME NEW i \in Places
  PROVE  /\ WNext(i) \in Places
         /\ i < SWORDS - 1 => WNext(i) = i + 1
         /\ i = SWORDS - 1 => WNext(i) = 0
PROOF
<1>1. SWORDS \in Nat \ {0} /\ i \in 0..SWORDS - 1
  BY StorageAssumptions DEF Places
<1>2. CASE i < SWORDS - 1
  <2>1. (i + 1) % SWORDS = i + 1
    BY <1>1, <1>2
  <2> QED BY <1>1, <1>2, <2>1 DEF WNext, Places
<1>3. CASE i = SWORDS - 1
  <2>1. i + 1 = SWORDS /\ SWORDS % SWORDS = 0
    BY <1>1, <1>3
  <2> QED BY <1>1, <1>3, <2>1 DEF WNext, Places
<1> QED BY <1>1, <1>2, <1>3

LEMMA CopyNone ==
  ASSUME NEW b, FunctionOn(Memories, b), NEW to \in Nat, NEW from \in Nat
  PROVE  Copy(b, to, from, 0) = b
BY DEF FunctionOn, Copy

LEMMA CopyOne ==
  ASSUME NEW b, NEW to \in Nat, NEW from \in Nat, NEW m \in Nat, to + m \in Memories,
         NEW c, c = Copy(b, to, from, m), NEW x, x = to + m, NEW v, v = b[from + m]
  PROVE  [c EXCEPT ![x] = v] = Copy(b, to, from, m + 1)
PROOF
<1> DEFINE e == [c EXCEPT ![x] = v]
<1>1. e = [a \in Memories |-> IF a = to + m THEN b[from + m]
                              ELSE IF a \in to..to + m - 1 THEN b[from + (a - to)] ELSE b[a]]
  BY DEF Copy
<1>2. ASSUME NEW a \in Memories
      PROVE  (IF a = to + m THEN b[from + m]
              ELSE IF a \in to..to + m - 1 THEN b[from + (a - to)] ELSE b[a])
               = (IF a \in to..to + (m + 1) - 1 THEN b[from + (a - to)] ELSE b[a])
  <2>1. a \in Int
    BY DEF Memories
  <2>2. a = to + m => from + (a - to) = from + m
    BY <2>1
  <2>3. a \in to..to + (m + 1) - 1 <=> a = to + m \/ a \in to..to + m - 1
    BY <2>1
  <2> QED BY <2>2, <2>3
<1>3. Copy(b, to, from, m + 1)
        = [a \in Memories |-> IF a \in to..to + (m + 1) - 1 THEN b[from + (a - to)] ELSE b[a]]
  BY DEF Copy
<1> HIDE DEF e
<1>4. e = Copy(b, to, from, m + 1)
  BY <1>1, <1>2, <1>3
<1> QED BY <1>4 DEF e

LEMMA CopyElsewhere ==
  ASSUME NEW b, NEW to, NEW from, NEW m, NEW a \in Memories, a \notin to..to + m - 1
  PROVE  Copy(b, to, from, m)[a] = b[a]
BY DEF Copy

LEMMA CopyIsMemory ==
  ASSUME NEW b, NEW to, NEW from, NEW m
  PROVE  FunctionOn(Memories, Copy(b, to, from, m))
BY DEF FunctionOn, Copy

LEMMA HoldsOneMore ==
  ASSUME NEW s, FunctionOn(Places, s), NEW b, NEW place \in Nat, NEW p \in Places,
         Holds(s, b, place, p)
  PROVE  Holds([s EXCEPT ![p] = b[place + p]], b, place, p + 1)
PROOF
<1> SUFFICES ASSUME NEW i \in 0..(p + 1) - 1
             PROVE  [s EXCEPT ![p] = b[place + p]][i] = b[place + i]
  BY DEF Holds
<1>1. p \in 0..SWORDS - 1 /\ SWORDS \in Nat /\ i \in Places
  BY StorageAssumptions DEF Places
<1>2. CASE i = p
  BY <1>1, <1>2 DEF FunctionOn
<1>3. CASE i # p
  <2>1. i \in 0..p - 1
    BY <1>1, <1>3
  <2> QED BY <1>1, <1>3, <2>1 DEF FunctionOn, Holds
<1> QED BY <1>2, <1>3

(* Where the words of the sector under way are: in memory, in the caller's *)
(* buffer below BASE and, if the device has the sector, in the disk.       *)
LEMMA SectorPlace ==
  ASSUME Called, dpc # "caller", WindowFits
  PROVE  /\ finished \in Nat /\ offset \in Nat /\ DiskAt \in Nat /\ DBUF \in Nat
         /\ DiskAt >= BASE /\ BASE \in Nat /\ AMOD \in Nat /\ BASE < AMOD
         /\ SWORDS \in Nat \ {0}
         /\ To \in Nat /\ From \in Nat
         /\ left > 0 => DBUF + offset + SWORDS <= BASE
         /\ si < SECTORS => /\ DiskAt + offset + SWORDS <= AMOD
                            /\ DiskAt + offset = BASE + si * SWORDS
PROOF
<1>1. /\ dop.n \in DCOUNTS /\ dop.lba \in Nat /\ left \in 0..dop.n
      /\ si = dop.lba + finished
  BY DEF Called
<1>2. /\ dop.n \in Nat /\ DBUF \in Nat /\ DBUF + dop.n * SWORDS <= BASE
      /\ SWORDS \in Nat \ {0} /\ BASE \in Nat /\ AMOD \in Nat /\ BASE < AMOD
      /\ SECTORS \in Nat
  BY <1>1, ServiceAssumptions, StorageAssumptions
<1>3. finished \in Nat /\ finished <= dop.n /\ (left > 0 => finished + 1 <= dop.n)
  BY <1>1, <1>2 DEF finished
<1>4. offset \in Nat /\ DiskAt \in Nat /\ DiskAt >= BASE
  <2>1. finished * SWORDS \in Nat /\ dop.lba * SWORDS \in Nat
    BY <1>1, <1>2, <1>3
  <2> DEFINE x == dop.lba * SWORDS
  <2>2. DiskAt = BASE + x /\ x \in Nat
    BY <2>1 DEF DiskAt
  <2> HIDE DEF x
  <2> QED BY <1>2, <2>1, <2>2 DEF offset
<1>5. To \in Nat /\ From \in Nat
  BY <1>2, <1>4 DEF To, From
<1>6. left > 0 => DBUF + offset + SWORDS <= BASE
  <2> SUFFICES ASSUME left > 0 PROVE DBUF + offset + SWORDS <= BASE
    OBVIOUS
  <2>1. (finished + 1) * SWORDS <= dop.n * SWORDS
    BY <1>2, <1>3
  <2>2. (finished + 1) * SWORDS = offset + SWORDS
    BY <1>2, <1>3 DEF offset
  <2> DEFINE y == dop.n * SWORDS
  <2>3. y \in Nat
    BY <1>2
  <2>4. offset + SWORDS <= y /\ DBUF + y <= BASE
    BY <1>2, <2>1, <2>2
  <2> HIDE DEF y
  <2> QED BY <1>2, <1>4, <2>3, <2>4
<1>7. si < SECTORS => /\ DiskAt + offset + SWORDS <= AMOD
                      /\ DiskAt + offset = BASE + si * SWORDS
  <2> SUFFICES ASSUME si < SECTORS
               PROVE  /\ DiskAt + offset + SWORDS <= AMOD
                      /\ DiskAt + offset = BASE + si * SWORDS
    OBVIOUS
  <2> DEFINE x == dop.lba * SWORDS
             y == si * SWORDS
             z == SECTORS * SWORDS
  <2>1. x \in Nat /\ y \in Nat /\ z \in Nat
    BY <1>1, <1>2, <1>3
  <2>2. y = x + offset
    BY <1>1, <1>2, <1>3 DEF offset
  <2>3. y + SWORDS <= z
    <3>1. (si + 1) * SWORDS <= SECTORS * SWORDS /\ (si + 1) * SWORDS = y + SWORDS
      BY <1>1, <1>2, <1>3
    <3> QED BY <3>1
  <2>4. DiskAt = BASE + x /\ BASE + z <= AMOD
    BY DEF DiskAt, WindowFits
  <2> HIDE DEF x, y, z
  <2>5. DiskAt + offset + SWORDS <= AMOD /\ DiskAt + offset = BASE + y
    BY <1>2, <1>4, <2>1, <2>2, <2>3, <2>4
  <2> QED BY <2>5 DEF y
<1> QED BY <1>2, <1>3, <1>4, <1>5, <1>6, <1>7

LEMMA SourceWord ==
  ASSUME Called, Boards, dpc # "caller", WindowFits, left > 0,
         NEW m \in Nat, m <= offset + SWORDS, sdram = CopiedSoFar(m),
         NEW i \in Places, dop.op = "read" => si < SECTORS
  PROVE  /\ From + offset + i \in Memories
         /\ sdram[From + offset + i] = before[From + offset + i]
         /\ dop.op = "read" \/ si < SECTORS => To + offset + i \in Memories
PROOF
<1>1. /\ offset \in Nat /\ DiskAt \in Nat /\ DBUF \in Nat
      /\ DiskAt >= BASE /\ BASE \in Nat /\ AMOD \in Nat /\ BASE < AMOD
      /\ SWORDS \in Nat \ {0}
      /\ DBUF + offset + SWORDS <= BASE
      /\ si < SECTORS => DiskAt + offset + SWORDS <= AMOD
      /\ To \in Nat /\ From \in Nat
  BY SectorPlace
<1>2. i \in Nat /\ i < SWORDS
  BY <1>1 DEF Places
<1>3. dop.op \in {"read", "write"}
  BY DEF Called
<1>4. From + offset + i \in Memories
  BY <1>1, <1>2, <1>3 DEF From, Memories
<1>5. dop.op = "read" \/ si < SECTORS => To + offset + i \in Memories
  BY <1>1, <1>2, <1>3 DEF To, Memories
<1>6. From + offset + i \notin To..To + m - 1
  BY <1>1, <1>2, <1>3 DEF To, From
<1>7. sdram[From + offset + i] = before[From + offset + i]
  BY <1>4, <1>6, CopyElsewhere DEF CopiedSoFar
<1> QED BY <1>4, <1>5, <1>7

(* A step that leaves the call as it is leaves its places as they are.     *)
LEMMA SamePlaces ==
  ASSUME UNCHANGED <<dop, left>>
  PROVE  UNCHANGED <<finished, offset, DiskAt, To, From>>
BY DEF finished, offset, DiskAt, To, From

LEMMA FillStep ==
  ASSUME TransferInv, Ranged', WindowFits, FillWord
  PROVE  TransferInv'
PROOF
<1>1. /\ dpc = "fill" /\ dpc' = (IF cx = 1 THEN "cmd" ELSE "fill")
      /\ cx' = cx - 1 /\ di' = di + 1 /\ WriteData(sdram[di])
      /\ UNCHANGED <<dop, si, left, before, sdram, lbaSet, err, tstate, lbaCur, tidx, isRead>>
  BY DEF FillWord, Goes, WriteData, engineVars
<1>2. /\ Boards /\ Called /\ dop.op = "write" /\ left > 0
      /\ cx \in 1..SWORDS /\ windex = SWORDS - cx /\ di = DBUF + offset + windex
      /\ Loaded(windex) /\ sdram = CopiedSoFar(offset) /\ tstate = "IDLE" /\ lbaSet = si
  BY <1>1 DEF TransferInv, Called, Caller
<1>3. UNCHANGED <<finished, offset, DiskAt, To, From>>
  BY <1>1, SamePlaces
<1>4. /\ windex \in Places /\ From = DBUF /\ offset \in Nat /\ From \in Nat
      /\ SWORDS \in Nat \ {0}
  BY <1>1, <1>2, SectorPlace DEF Boards, From
<1>5. sdram[di] = before[From + offset + windex]
  BY <1>1, <1>2, <1>4, SourceWord
<1>6. /\ sbuf' = [sbuf EXCEPT ![windex] = before[From + offset + windex]]
      /\ windex' = WNext(windex) /\ drq' \in BOOLEAN
  BY <1>1, <1>2, <1>5 DEF WriteData, busy, Boards
<1>7. Boards'
  BY <1>1, <1>2, <1>4, <1>6, NextPlace DEF Boards, FunctionOn
<1>8. Holds(sbuf', before', From' + offset', windex + 1)
  <2>1. Holds(sbuf', before, From + offset, windex + 1)
    <3>1. From + offset \in Nat /\ FunctionOn(Places, sbuf)
      BY <1>2, <1>4 DEF Boards
    <3> QED BY <1>2, <1>4, <1>6, <3>1, HoldsOneMore DEF Loaded
  <2> QED BY <1>1, <1>3, <2>1
<1>9. CopiedSoFar(offset)' = CopiedSoFar(offset) /\ To' = To
  BY <1>1, <1>3 DEF CopiedSoFar
<1>10. Called' /\ Outside' /\ Engine'
  BY <1>1, <1>2, <1>3 DEF TransferInv, Called, Outside, Engine
<1>11. CASE cx = 1
  <2>1. windex + 1 = SWORDS /\ dpc' = "cmd"
    BY <1>1, <1>2, <1>4, <1>11
  <2>2. Loaded(SWORDS)'
    BY <1>8, <2>1 DEF Loaded
  <2>3. di' = DBUF + offset + SWORDS
    BY <1>1, <1>2, <1>4, <2>1
  <2>4. Caller'
    BY <1>1, <1>2, <1>3, <1>9, <2>1, <2>2, <2>3 DEF Caller
  <2> QED BY <1>7, <1>10, <2>4 DEF TransferInv
<1>12. CASE cx # 1
  <2>1. windex' = windex + 1 /\ windex' = SWORDS - cx' /\ cx' \in 1..SWORDS /\ dpc' = "fill"
    BY <1>1, <1>2, <1>4, <1>6, <1>12, NextPlace
  <2>2. Loaded(windex)'
    BY <1>8, <2>1 DEF Loaded
  <2>3. di' = DBUF + offset + windex'
    BY <1>1, <1>2, <1>4, <2>1 DEF Places
  <2>4. Caller'
    BY <1>1, <1>2, <1>3, <1>9, <2>1, <2>2, <2>3 DEF Caller
  <2> QED BY <1>7, <1>10, <2>4 DEF TransferInv
<1> QED BY <1>11, <1>12

LEMMA CommandStep ==
  ASSUME TransferInv, Ranged', WindowFits, Command
  PROVE  TransferInv'
PROOF
<1>1. /\ dpc = "cmd" /\ dpc' = "poll" /\ WriteCmd(dop.op)
      /\ UNCHANGED <<dop, si, left, di, cx, before, sdram, lbaSet, windex, sbuf>>
  BY DEF Command, Goes, WriteCmd, serviceVars
<1>2. /\ Boards /\ Called /\ dop.op \in {"read", "write"} /\ left > 0
      /\ sdram = CopiedSoFar(offset) /\ tstate = "IDLE" /\ lbaSet = si
      /\ si \in Nat /\ SECTORS \in Nat
  BY <1>1, StorageAssumptions DEF TransferInv, Called, Caller, Ranged
<1>3. UNCHANGED <<finished, offset, DiskAt, To, From>> /\ offset \in Nat
  BY <1>1, <1>2, SamePlaces, SectorPlace DEF TransferInv
<1>4. /\ drq' = FALSE /\ err' = ~(si < SECTORS)
      /\ IF si < SECTORS
           THEN /\ lbaCur' = si /\ tidx' = 0 /\ isRead' = (dop.op = "read")
                /\ tstate' = IF dop.op = "read" THEN "RD_RQ" ELSE "WR_SU"
           ELSE tstate' = "IDLE" /\ isRead' = isRead
  BY <1>1, <1>2 DEF WriteCmd, busy, engineVars
<1>5. \A m \in Nat : Copy(before', To', From', m) = CopiedSoFar(m)
  BY <1>1, <1>3 DEF CopiedSoFar
<1>6. Boards'
  BY <1>1, <1>2, <1>4 DEF Boards
<1>7. Outside' /\ Called' /\ Caller'
  <2>1. Loaded(SWORDS)' <=> Loaded(SWORDS)
    BY <1>1, <1>3 DEF Loaded
  <2>2. Caller'
    BY <1>1, <1>2, <1>3, <2>1 DEF TransferInv, Caller
  <2> QED BY <1>1, <1>2, <1>3, <2>2 DEF TransferInv, Outside, Called
<1>8. Engine'
  <2>1. CASE si < SECTORS
    <3>1. Loaded(tidx)'
      BY <1>4, <2>1 DEF Loaded, Holds
    <3>2. CopiedSoFar(offset + tidx)' = CopiedSoFar(offset)
      BY <1>3, <1>4, <1>5, <2>1 DEF CopiedSoFar
    <3>3. CopiedSoFar(offset)' = CopiedSoFar(offset)
      BY <1>3, <1>5 DEF CopiedSoFar
    <3> QED BY <1>1, <1>2, <1>4, <2>1, <3>1, <3>2, <3>3 DEF Engine, busy
  <2>2. CASE ~(si < SECTORS)
    <3>1. CopiedSoFar(offset)' = CopiedSoFar(offset)
      BY <1>3, <1>5 DEF CopiedSoFar
    <3>2. si' >= SECTORS
      BY <1>1, <1>2, <2>2
    <3>3. err' /\ tstate' = "IDLE"
      BY <1>4, <2>2
    <3> QED BY <1>1, <1>2, <3>1, <3>2, <3>3 DEF Engine, busy
  <2> QED BY <2>1, <2>2
<1> QED BY <1>6, <1>7, <1>8 DEF TransferInv

(* A sector is done: the places move on by a sector.                       *)
LEMMA NextPlaces ==
  ASSUME TransferInv, dpc # "caller", WindowFits, NumbersFit, si < SECTORS, left > 0,
         SectorDone, UNCHANGED <<dop, before>>
  PROVE  /\ left' \in 0..dop.n /\ si' = si + 1 /\ si' = dop.lba + finished'
         /\ offset' = offset + SWORDS /\ UNCHANGED <<DiskAt, To, From>>
PROOF
<1>1. /\ dop.n \in Nat /\ dop.lba \in Nat /\ left \in 0..dop.n /\ si = dop.lba + finished
      /\ finished \in Nat /\ SWORDS \in Nat
  BY SectorPlace, ServiceAssumptions DEF TransferInv, Called
<1>2. left' = left - 1 /\ si' = (si + 1) % 65536
  BY DEF SectorDone
<1>3. si' = si + 1
  <2>1. si + 1 \in Nat /\ si + 1 < 65536
    <3>1. si \in Nat /\ SECTORS \in Nat /\ si < SECTORS /\ SECTORS < 65536
      BY <1>1, StorageAssumptions DEF NumbersFit
    <3> QED BY ONLY <3>1
  <2> QED BY <1>2, <2>1
<1>4. finished' = finished + 1
  BY <1>1, <1>2 DEF finished
<1>5. (finished + 1) * SWORDS = finished * SWORDS + SWORDS
  BY <1>1
<1>6. offset' = offset + SWORDS
  BY <1>4, <1>5 DEF offset
<1> QED BY <1>1, <1>2, <1>3, <1>4, <1>6 DEF DiskAt, To, From

LEMMA TakeStep ==
  ASSUME TransferInv, Ranged', WindowFits, NumbersFit, TakeWord
  PROVE  TransferInv'
PROOF
<1>1. /\ dpc = "take" /\ dpc' = (IF cx = 1 THEN "next" ELSE "take")
      /\ sdram' = [sdram EXCEPT ![di] = sbuf[windex]] /\ ReadData
      /\ cx' = cx - 1 /\ di' = di + 1
      /\ IF cx = 1 THEN SectorDone ELSE UNCHANGED <<si, left>>
      /\ UNCHANGED <<dop, before, lbaSet, sbuf, err, lbaCur, tstate, tidx, isRead>>
  BY DEF TakeWord, Goes, ReadData, engineVars
<1>2. /\ Boards /\ Called /\ dop.op = "read" /\ left > 0
      /\ cx \in 1..SWORDS /\ windex = SWORDS - cx /\ drq /\ si < SECTORS
      /\ di = DBUF + offset + windex /\ Loaded(SWORDS)
      /\ sdram = CopiedSoFar(offset + windex) /\ tstate = "IDLE"
  BY <1>1 DEF TransferInv, Called, Caller
<1>3. /\ windex \in Places /\ To = DBUF /\ offset \in Nat /\ From \in Nat /\ DBUF \in Nat
      /\ SWORDS \in Nat \ {0} /\ windex \in Nat /\ windex < SWORDS
      /\ FunctionOn(Memories, before)
  BY <1>1, <1>2, SectorPlace DEF Boards, To, Places
<1>4. windex' = WNext(windex) /\ drq' = (windex # SWORDS - 1)
  BY <1>1, <1>2 DEF ReadData, busy
<1>5. sdram' = Copy(before, To, From, offset + (windex + 1))
  <2> DEFINE m == offset + windex
  <2>1. sbuf[windex] = before[From + offset + windex]
    BY <1>2, <1>3 DEF Loaded, Holds
  <2>2. To + offset + windex \in Memories
    <3>1. offset + windex <= offset + SWORDS /\ offset + windex \in Nat
      BY <1>3
    <3> QED BY <1>1, <1>2, <1>3, <3>1, SourceWord
  <2>3. /\ di = To + m /\ From + offset + windex = From + m /\ m + 1 = offset + (windex + 1)
        /\ To + offset + windex = To + m /\ m \in Nat /\ To \in Nat
    BY <1>2, <1>3
  <2>4. sdram = Copy(before, To, From, m) /\ sbuf[windex] = before[From + m]
    BY <1>2, <2>1, <2>3 DEF CopiedSoFar
  <2>5. To + m \in Memories /\ To \in Nat /\ From \in Nat
    BY <1>3, <2>2, <2>3
  <2>6. [sdram EXCEPT ![di] = sbuf[windex]] = Copy(before, To, From, m + 1)
    <3> HIDE DEF m
    <3> QED BY <2>3, <2>4, <2>5, CopyOne
  <2> QED BY <1>1, <2>3, <2>6
<1>6. Boards'
  <2>1. FunctionOn(Memories, sdram')
    BY <1>5, CopyIsMemory
  <2> QED BY <1>1, <1>2, <1>3, <1>4, <2>1, NextPlace DEF Boards
<1>7. CASE cx = 1
  <2>1. windex + 1 = SWORDS /\ dpc' = "next" /\ SectorDone
    BY <1>1, <1>2, <1>3, <1>7
  <2>2. /\ left' \in 0..dop.n /\ si' = si + 1 /\ si' = dop.lba + finished'
        /\ offset' = offset + SWORDS /\ UNCHANGED <<DiskAt, To, From>>
    BY <1>1, <1>2, <2>1, NextPlaces
  <2>3. si' <= SECTORS
    BY <1>2, <2>2, StorageAssumptions DEF TransferInv, Ranged
  <2>4. Called' /\ Outside' /\ Engine'
    BY <1>1, <1>2, <2>1, <2>2, <2>3 DEF Called, Outside, Engine
  <2>5. di' = DBUF + offset' /\ sdram' = CopiedSoFar(offset)'
    BY <1>1, <1>2, <1>3, <1>5, <2>1, <2>2 DEF CopiedSoFar
  <2>6. Caller'
    BY <2>1, <2>5 DEF Caller
  <2> QED BY <1>6, <2>4, <2>6 DEF TransferInv
<1>8. CASE cx # 1
  <2>1. windex' = windex + 1 /\ windex' = SWORDS - cx' /\ cx' \in 1..SWORDS /\ dpc' = "take"
        /\ windex # SWORDS - 1 /\ UNCHANGED <<si, left>>
    BY <1>1, <1>2, <1>3, <1>4, <1>8, NextPlace
  <2>2. UNCHANGED <<finished, offset, DiskAt, To, From>>
    BY <1>1, <2>1, SamePlaces
  <2>3. Called' /\ Outside' /\ Engine'
    BY <1>1, <1>2, <2>1, <2>2 DEF Called, Outside, Engine
  <2>4. di' = DBUF + offset' + windex' /\ sdram' = CopiedSoFar(offset + windex)'
    BY <1>1, <1>2, <1>3, <1>5, <2>1, <2>2 DEF CopiedSoFar
  <2>5. Loaded(SWORDS)'
    BY <1>1, <1>2, <2>2 DEF Loaded
  <2>6. Caller'
    BY <1>1, <1>2, <1>4, <2>1, <2>4, <2>5 DEF Caller
  <2> QED BY <1>6, <2>3, <2>6 DEF TransferInv
<1> QED BY <1>7, <1>8

(* What TransferExact says of the memory.                                  *)
Exact == sdram = IF dop.op = "read" THEN Copied(DBUF, DiskAt) ELSE Copied(DiskAt, DBUF)

LEMMA ExactWhenMoved ==
  ASSUME TransferInv, sdram = CopiedSoFar(offset), finished = Moved
  PROVE  Exact
PROOF
<1>1. DOMAIN before = Memories
  BY DEF TransferInv, Boards, FunctionOn
<1>2. offset = Moved * SWORDS
  BY DEF offset
<1> DEFINE k == Moved * SWORDS
<1> HIDE DEF k
<1>3. ASSUME NEW to, NEW from PROVE Copied(to, from) = Copy(before, to, from, k)
  BY <1>1 DEF Copied, Copy, k
<1>4. sdram = Copy(before, To, From, k)
  BY <1>2 DEF CopiedSoFar, k
<1> QED BY <1>3, <1>4 DEF To, From, Exact

LEMMA AnswerStep ==
  ASSUME TransferInv, Ranged', Exact, dpc' = "caller", tstate = "IDLE",
         UNCHANGED <<storageVars, dop, before>>, cf' = (Moved < dop.n)
  PROVE  TransferInv'
PROOF
<1>1. UNCHANGED <<sdram, windex, sbuf, drq, tstate, isRead, Moved, DiskAt>>
  BY DEF storageVars, engineVars, Moved, DiskAt
<1>2. Exact'
  BY <1>1 DEF Exact, Copied
<1>3. TransferExact'
  BY <1>1, <1>2 DEF TransferExact, Exact
<1>4. Boards'
  BY <1>1 DEF TransferInv, Boards
<1> QED BY <1>1, <1>3, <1>4 DEF TransferInv, Outside, Called, Caller, Engine

LEMMA NextSectorStep ==
  ASSUME TransferInv, Ranged', WindowFits, NextSector
  PROVE  TransferInv'
PROOF
<1>1. /\ dpc = "next" /\ Boards /\ Called /\ tstate = "IDLE" /\ di = DBUF + offset
      /\ sdram = CopiedSoFar(offset)
      /\ dop.n \in Nat /\ dop.lba \in Nat /\ left \in 0..dop.n /\ SECTORS \in Nat
      /\ finished \in Nat /\ offset \in Nat /\ DBUF \in Nat
  BY SectorPlace, ServiceAssumptions, StorageAssumptions
     DEF NextSector, TransferInv, Called, Caller
<1>2. CASE left = 0
  <2>1. dpc' = "caller" /\ UNCHANGED <<storageVars, dop, before>> /\ cf' = FALSE
    BY <1>2 DEF NextSector, Answer
  <2>2. finished = dop.n /\ (dop.n > 0 => dop.lba + dop.n <= SECTORS)
    BY <1>1, <1>2 DEF finished, Called
  <2>3. Moved = dop.n
    BY <1>1, <2>2 DEF Moved
  <2>4. Exact
    BY <1>1, <2>2, <2>3, ExactWhenMoved
  <2>5. (Moved < dop.n) = FALSE
    BY <1>1, <2>3
  <2> QED BY <1>1, <2>1, <2>4, <2>5, AnswerStep
<1>3. CASE left # 0
  <2>1. /\ dpc' = (IF dop.op = "read" THEN "cmd" ELSE "fill")
        /\ cx' = SWORDS /\ lbaSet' = si /\ windex' = 0
        /\ UNCHANGED <<dop, si, left, di, before, sdram, sbuf, drq, err, tstate, lbaCur,
                       tidx, isRead>>
    BY <1>1, <1>3 DEF NextSector, WriteLba, busy, engineVars
  <2>2. UNCHANGED <<finished, offset, DiskAt, To, From>>
    BY <2>1, SamePlaces
  <2>3. CopiedSoFar(offset)' = CopiedSoFar(offset)
    BY <2>1, <2>2 DEF CopiedSoFar
  <2>4. SWORDS \in Nat \ {0} /\ 0 \in Places /\ SWORDS \in 1..SWORDS
    BY StorageAssumptions DEF Places
  <2>5. Loaded(windex)'
    BY <2>1 DEF Loaded, Holds
  <2>6. Boards'
    BY <1>1, <2>1, <2>4 DEF Boards
  <2>7. left > 0 /\ dpc' \in {"cmd", "fill"}
    BY <1>1, <1>3, <2>1
  <2>8. Called' /\ Outside' /\ Engine'
    BY <1>1, <2>1, <2>2, <2>7 DEF Called, Outside, Engine
  <2>9. Caller'
    <3>1. CASE dop.op = "read"
      BY <1>1, <2>1, <2>2, <2>3, <3>1 DEF Caller
    <3>2. CASE dop.op # "read"
      <4>1. dop.op = "write" /\ dpc' = "fill"
        BY <1>1, <2>1, <3>2 DEF Called
      <4>2. windex' = SWORDS - cx' /\ di' = DBUF + offset' + windex'
        BY <1>1, <2>1, <2>2, <2>4
      <4> QED BY <1>1, <2>1, <2>2, <2>3, <2>4, <2>5, <4>1, <4>2 DEF Caller
    <3> QED BY <3>1, <3>2
  <2> QED BY <2>6, <2>8, <2>9 DEF TransferInv
<1> QED BY <1>2, <1>3

LEMMA PollStep ==
  ASSUME TransferInv, Ranged', WindowFits, NumbersFit, Poll
  PROVE  TransferInv'
PROOF
<1>1. /\ dpc = "poll" /\ tstate = "IDLE" /\ UNCHANGED storageVars /\ Boards /\ Called
      /\ dop.op \in {"read", "write"} /\ left > 0
      /\ dop.n \in Nat /\ dop.lba \in Nat /\ left \in 0..dop.n /\ SECTORS \in Nat
      /\ finished \in Nat /\ offset \in Nat /\ DBUF \in Nat /\ SWORDS \in Nat \ {0}
      /\ si = dop.lba + finished
  BY SectorPlace, ServiceAssumptions, StorageAssumptions
     DEF Poll, busy, TransferInv, Called
<1>2. UNCHANGED <<sdram, lbaSet, windex, sbuf, drq, err, lbaCur, tstate, tidx, isRead>>
  BY <1>1 DEF storageVars, engineVars
<1>3. Boards'
  <2>1. UNCHANGED before
    BY Zenon DEF Poll, Answer, serviceVars
  <2> QED BY <1>1, <1>2, <2>1 DEF Boards
<1>4. CASE err
  <2>1. dpc' = "caller" /\ Answer(IF dop.op = "read" THEN 4 ELSE 3)
    BY <1>4, Zenon DEF Poll
  <2> DEFINE code == IF dop.op = "read" THEN 4 ELSE 3
  <2>2. UNCHANGED <<dop, before>> /\ cf' = TRUE
    <3>1. code # 0 /\ Answer(code)
      BY <2>1
    <3> HIDE DEF code
    <3> QED BY <3>1 DEF Answer
  <2>3. si >= SECTORS /\ sdram = CopiedSoFar(offset)
    BY <1>1, <1>4 DEF TransferInv, Engine
  <2>4. finished = Moved /\ Moved < dop.n
    <3>1. finished > 0 => si <= SECTORS
      BY <1>1 DEF Called
    <3>2. finished = dop.n - left
      BY DEF finished
    <3> QED BY <1>1, <2>3, <3>1, <3>2 DEF Moved
  <2>5. Exact
    BY <2>3, <2>4, ExactWhenMoved
  <2> QED BY <1>1, <2>1, <2>2, <2>4, <2>5, AnswerStep
<1>5. CASE ~err /\ dop.op = "read"
  <2>1. dpc' = "take" /\ UNCHANGED serviceVars
    BY <1>5, Zenon DEF Poll
  <2>2. UNCHANGED <<dop, si, left, di, cx, before>>
    BY <2>1 DEF serviceVars
  <2>3. UNCHANGED <<finished, offset, DiskAt, To, From>>
    BY <2>2, SamePlaces
  <2>4. /\ si < SECTORS /\ drq /\ windex = 0 /\ Loaded(SWORDS) /\ sdram = CopiedSoFar(offset)
        /\ cx = SWORDS /\ di = DBUF + offset
    BY <1>1, <1>5 DEF TransferInv, Engine, Caller
  <2>5. Loaded(SWORDS)' /\ sdram' = CopiedSoFar(offset + windex)'
    BY <1>1, <1>2, <2>2, <2>3, <2>4 DEF Loaded, CopiedSoFar
  <2>6. di' = DBUF + offset' + windex' /\ windex' = SWORDS - cx' /\ cx' \in 1..SWORDS
    BY <1>1, <1>2, <2>2, <2>3, <2>4
  <2>7. Called' /\ Outside' /\ Engine'
    BY <1>1, <1>2, <2>1, <2>2, <2>3 DEF Called, Outside, Engine
  <2>8. Caller'
    BY <1>2, <1>5, <2>1, <2>2, <2>4, <2>5, <2>6 DEF Caller
  <2> QED BY <1>3, <2>7, <2>8 DEF TransferInv
<1>6. CASE ~err /\ dop.op # "read"
  <2>1. dpc' = "next" /\ SectorDone /\ UNCHANGED <<dop, di, cx, before>>
    BY <1>6, Zenon DEF Poll
  <2>2. /\ si < SECTORS /\ di = DBUF + offset + SWORDS
        /\ sdram = CopiedSoFar(offset + SWORDS)
    BY <1>1, <1>6 DEF TransferInv, Engine, Caller
  <2>3. /\ left' \in 0..dop.n /\ si' = si + 1 /\ si' = dop.lba + finished'
        /\ offset' = offset + SWORDS /\ UNCHANGED <<DiskAt, To, From>>
    BY <1>1, <2>1, <2>2, NextPlaces
  <2>4. si' <= SECTORS
    BY <1>1, <2>2, <2>3
  <2>5. Called' /\ Outside' /\ Engine'
    BY <1>1, <1>2, <2>1, <2>3, <2>4 DEF Called, Outside, Engine
  <2>6. di' = DBUF + offset' /\ sdram' = CopiedSoFar(offset)'
    BY <1>1, <1>2, <2>1, <2>2, <2>3 DEF CopiedSoFar
  <2>7. Caller'
    BY <2>1, <2>6 DEF Caller
  <2> QED BY <1>3, <2>5, <2>7 DEF TransferInv
<1> QED BY <1>4, <1>5, <1>6

LEMMA CallStep ==
  ASSUME TransferInv, Ranged', NumbersFit,
         NEW op \in {"read", "write"}, NEW ch \in DCYLS, NEW dh \in 0..GHEADS - 1,
         NEW cl \in 1..GSPT, NEW al \in DCOUNTS, CallDisk(op, ch, dh, cl, al)
  PROVE  TransferInv'
PROOF
<1> DEFINE head == ch * GHEADS + dh
           track == head * GSPT
<1>1. /\ ch \in Nat /\ dh \in Nat /\ cl \in Nat /\ al \in Nat /\ DBUF \in Nat
      /\ GHEADS \in Nat \ {0} /\ GSPT \in Nat \ {0} /\ GSPT <= 63 /\ SWORDS \in Nat
  BY ServiceAssumptions, StorageAssumptions DEF NumbersFit
<1>2. /\ dpc = "caller" /\ tstate = "IDLE" /\ dpc' = "next" /\ left' = al /\ di' = DBUF
      /\ dop' = [op |-> op, n |-> al, lba |-> track + cl - 1]
      /\ si' = (track + (cl % 64) - 1) % 65536
      /\ before' = sdram /\ UNCHANGED storageVars
  BY DEF CallDisk, Goes, busy, LbaOf, Built
<1>3. UNCHANGED <<sdram, lbaSet, windex, sbuf, drq, tstate, isRead>>
  BY <1>2 DEF storageVars, engineVars
<1>4. track \in Nat /\ track + cl - 1 \in Nat /\ track + cl - 1 < 65536
  <2>1. head \in Nat /\ head + 1 <= (ch + 1) * GHEADS
    <3>1. (ch + 1) * GHEADS = ch * GHEADS + GHEADS /\ ch * GHEADS \in Nat
      BY <1>1
    <3>2. dh + 1 <= GHEADS
      BY <1>1
    <3> QED BY <1>1, <3>1, <3>2
  <2> DEFINE h == head
             t == (ch + 1) * GHEADS
  <2>2. t * GSPT <= 65536 /\ t \in Nat
    BY <1>1 DEF NumbersFit
  <2> HIDE DEF h, t
  <2>3. h \in Nat /\ h + 1 <= t
    BY <2>1 DEF h, t
  <2>4. (h + 1) * GSPT <= t * GSPT /\ (h + 1) * GSPT = h * GSPT + GSPT /\ h * GSPT \in Nat
    BY <1>1, <2>2, <2>3
  <2>5. track = h * GSPT
    BY DEF h
  <2> HIDE DEF track
  <2> QED BY <1>1, <2>2, <2>4, <2>5
<1> HIDE DEF track
<1>5. si' = track + cl - 1
  <2>1. cl % 64 = cl
    BY <1>1
  <2> QED BY <1>1, <1>2, <1>4, <2>1
<1>6. finished' = 0 /\ offset' = 0
  <2>1. finished' = 0
    BY <1>1, <1>2 DEF finished
  <2> QED BY <1>1, <2>1 DEF offset
<1>7. Boards'
  BY <1>2, <1>3 DEF TransferInv, Boards
<1>8. sdram' = CopiedSoFar(offset)'
  <2>1. FunctionOn(Memories, sdram)
    BY DEF TransferInv, Boards
  <2>2. Copy(sdram, To', From', 0) = sdram
    <3> DEFINE lba == track + cl - 1
    <3>1. DiskAt' = BASE + lba * SWORDS /\ lba \in Nat
      BY <1>2, <1>4 DEF DiskAt
    <3> HIDE DEF lba
    <3>2. DiskAt' \in Nat
      BY <1>1, <3>1, StorageAssumptions
    <3>3. To' \in Nat /\ From' \in Nat
      BY <1>1, <3>2 DEF To, From
    <3>4. \A to \in Nat, from \in Nat : Copy(sdram, to, from, 0) = sdram
      BY <2>1, CopyNone
    <3> QED BY <3>3, <3>4
  <2> QED BY <1>2, <1>3, <1>6, <2>2 DEF CopiedSoFar
<1>9. Called' /\ Outside' /\ Engine'
  BY <1>1, <1>2, <1>3, <1>4, <1>5, <1>6 DEF Called, Outside, Engine
<1>10. Caller'
  BY <1>1, <1>2, <1>6, <1>8 DEF Caller
<1> QED BY <1>7, <1>9, <1>10 DEF TransferInv

LEMMA PortsStep ==
  ASSUME TransferInv, Ranged', ProgramPorts
  PROVE  TransferInv'
PROOF
<1>1. /\ dpc = "caller" /\ tstate = "IDLE" /\ dpc' = dpc
      /\ UNCHANGED <<dop, si, left, di, cx, cf, before>>
  BY DEF ProgramPorts, busy, serviceVars
<1>2. sdram' = sdram
  BY DEF ProgramPorts, WriteData, WriteCmd
<1>3. tstate' \in {"IDLE", "RD_RQ"}
  BY <1>1 DEF ProgramPorts, ReadData, WriteData, WriteCmd, busy, engineVars
<1>4. Boards'
  <2>1. CASE ReadData
    BY <1>1, <1>2, <2>1, NextPlace DEF ReadData, engineVars, TransferInv, Boards
  <2>2. CASE WriteData(<<0, 1>>)
    BY <1>1, <1>2, <2>2, NextPlace
       DEF WriteData, busy, engineVars, TransferInv, Boards, FunctionOn
  <2>3. CASE WriteCmd("read")
    BY <1>1, <1>2, <2>3 DEF WriteCmd, busy, engineVars, TransferInv, Boards
  <2> QED BY <2>1, <2>2, <2>3 DEF ProgramPorts
<1>5. TransferExact'
  BY <1>1, <1>2 DEF TransferInv, Outside, TransferExact, Copied, Moved, DiskAt
<1> QED BY <1>1, <1>3, <1>4, <1>5 DEF TransferInv, Outside, Called, Caller, Engine

LEMMA OtherCallStep ==
  ASSUME TransferInv, Ranged', NEW g \in {0, 1, 8}, OtherCall(g)
  PROVE  TransferInv'
PROOF
<1>1. /\ dpc = "caller" /\ dpc' = "caller" /\ dop' = NoCall
      /\ UNCHANGED <<sdram, before, sbuf, windex, drq, tstate, isRead>>
  BY DEF OtherCall, Goes, storageVars, engineVars
<1>2. TransferExact'
  BY <1>1 DEF TransferExact, NoCall
<1>3. Boards'
  BY <1>1 DEF TransferInv, Boards
<1> QED BY <1>1, <1>2, <1>3 DEF TransferInv, Outside, Called, Caller, Engine

(* The word the engine transfers is a word of the sector of the call.      *)
LEMMA EnginePlace ==
  ASSUME Ranged, tstate \in Transfers, WindowFits, lbaCur = si,
         offset \in Nat, DiskAt \in Nat, DiskAt + offset = BASE + si * SWORDS
  PROVE  XferAddr = DiskAt + offset + tidx
PROOF
<1>1. SWORDS \in Nat \ {0} /\ SECTORS \in Nat /\ BASE \in Nat /\ AMOD \in Nat
  BY StorageAssumptions
<1>2. lbaCur \in Nat /\ tidx \in Nat /\ lbaCur < SECTORS /\ tidx < SWORDS
  BY DEF Ranged
<1>3. lbaCur * SWORDS + tidx < SECTORS * SWORDS
  BY <1>1, <1>2, PlaceInWindow
<1> DEFINE place == lbaCur * SWORDS
           size == SECTORS * SWORDS
<1>4. place \in Nat /\ size \in Nat /\ place + tidx < size /\ BASE + size <= AMOD
  BY <1>1, <1>2, <1>3 DEF WindowFits
<1>5. XferAddr = (BASE + place + tidx) % AMOD /\ DiskAt + offset = BASE + place
  BY DEF XferAddr
<1> HIDE DEF place, size
<1>6. (BASE + place + tidx) % AMOD = BASE + place + tidx
  BY <1>1, <1>2, <1>4
<1> QED BY <1>1, <1>2, <1>4, <1>5, <1>6

LEMMA EngineMoves ==
  ASSUME TransferInv, Ranged', WindowFits, EngineStep, UNCHANGED <<serviceVars, dpc>>
  PROVE  TransferInv'
PROOF
<1>1. UNCHANGED <<dpc, dop, si, left, di, cx, cf, before, lbaSet, err, lbaCur, isRead>>
  <2>1. UNCHANGED <<dpc, dop, si, left, di, cx, cf, before>>
    BY DEF serviceVars
  <2>2. UNCHANGED <<lbaSet, err, lbaCur, isRead>>
    BY DEF EngineStep, ReadWord, ReadOn, WriteWord, WriteOn, TransferDone
  <2> QED BY <2>1, <2>2
<1>2. UNCHANGED <<finished, offset, DiskAt, To, From>>
  BY <1>1, SamePlaces
<1>3. busy /\ dpc \in {"caller", "poll"}
  BY DEF EngineStep, ReadWord, ReadOn, WriteWord, WriteOn, TransferDone, busy, TransferInv,
         Called
<1>4. tidx \in Places /\ 0 \in Places /\ SWORDS \in Nat \ {0} /\ tstate \in Transfers
      /\ tidx \in Nat
  <2>1. tstate \in Transfers
    BY <1>3 DEF TransferInv, Ranged, busy, Transfers
  <2> QED BY <2>1, StorageAssumptions DEF TransferInv, Ranged, Places
<1>5. Boards'
  <2>1. FunctionOn(Memories, sdram')
    BY DEF EngineStep, ReadWord, ReadOn, WriteWord, WriteOn, TransferDone, TransferInv,
           Boards, FunctionOn
  <2>2. FunctionOn(Places, sbuf')
    BY DEF EngineStep, ReadWord, ReadOn, WriteWord, WriteOn, TransferDone, TransferInv,
           Boards, FunctionOn
  <2>3. windex' \in Places /\ drq' \in BOOLEAN
    BY <1>4 DEF EngineStep, ReadWord, ReadOn, WriteWord, WriteOn, TransferDone, TransferInv,
           Boards
  <2> QED BY <1>1, <2>1, <2>2, <2>3 DEF TransferInv, Boards
<1>6. CASE dpc = "caller"
  <2>1. tstate \in {"RD_RQ", "RD_NX", "DONE"}
    BY <1>3, <1>6 DEF TransferInv, Outside, busy
  <2>2. tstate' \in {"IDLE", "RD_RQ", "RD_NX", "DONE"} /\ sdram' = sdram
    BY <2>1 DEF EngineStep, ReadWord, ReadOn, WriteWord, WriteOn, TransferDone, EngineNext
  <2>3. TransferExact'
    BY <1>1, <1>2, <1>6, <2>2 DEF TransferInv, Outside, TransferExact, Copied, Moved
  <2> QED BY <1>1, <1>5, <1>6, <2>2, <2>3
          DEF TransferInv, Outside, Called, Caller, Engine
<1>7. CASE dpc = "poll"
  <2>1. /\ Called /\ Boards /\ dop.op \in {"read", "write"} /\ left > 0 /\ ~err
        /\ si < SECTORS /\ lbaCur = si /\ (isRead <=> dop.op = "read")
        /\ offset \in Nat /\ From \in Nat /\ To \in Nat /\ DiskAt \in Nat
        /\ DiskAt + offset = BASE + si * SWORDS
    BY <1>3, <1>7, SectorPlace DEF TransferInv, Called, Engine, busy
  <2>2. Called' /\ Outside'
    BY <1>1, <1>2, <1>7, <2>1 DEF Called, Outside
  <2>3. XferAddr = DiskAt + offset + tidx
    BY <1>4, <2>1, EnginePlace DEF TransferInv
  <2>4. CASE dop.op = "read"
    <3>1. /\ tstate \in {"RD_RQ", "RD_NX", "DONE"} /\ From = DiskAt
          /\ tstate = "RD_RQ" => Loaded(tidx)
          /\ tstate = "RD_NX" => Loaded(tidx + 1)
          /\ tstate = "DONE" => Loaded(SWORDS)
          /\ sdram = CopiedSoFar(offset) /\ isRead
          /\ cx = SWORDS /\ di = DBUF + offset
      BY <1>3, <1>7, <2>1, <2>4 DEF TransferInv, Engine, Caller, busy, From
    <3>2. ReadWord \/ ReadOn \/ TransferDone
      BY <3>1 DEF EngineStep, WriteWord, WriteOn
    <3>3. sdram' = sdram
      BY <3>2 DEF ReadWord, ReadOn, TransferDone
    <3>4. sdram' = CopiedSoFar(offset)'
      BY <1>1, <1>2, <3>1, <3>3 DEF CopiedSoFar
    <3>5. Caller'
      BY <1>1, <1>2, <1>7, <2>4, <3>1 DEF Caller
    <3>6. CASE ReadWord
      <4>1. tstate = "RD_RQ" /\ tstate' = "RD_NX" /\ tidx' = tidx
            /\ sbuf' = [sbuf EXCEPT ![tidx] = sdram[XferAddr]]
        BY <3>6 DEF ReadWord
      <4>2. sdram[XferAddr] = before[From + offset + tidx]
        <5>1. offset \in Nat /\ offset <= offset + SWORDS
          BY <1>4, <2>1
        <5> QED BY <1>4, <1>7, <2>1, <2>3, <3>1, <5>1, SourceWord
      <4>3. Holds(sbuf', before, From + offset, tidx + 1)
        <5>1. From + offset \in Nat /\ FunctionOn(Places, sbuf)
              /\ Holds(sbuf, before, From + offset, tidx)
          BY <2>1, <3>1, <4>1 DEF Boards, Loaded
        <5>2. Holds([sbuf EXCEPT ![tidx] = before[(From + offset) + tidx]], before,
                    From + offset, tidx + 1)
          BY <1>4, <5>1, HoldsOneMore
        <5> QED BY <4>1, <4>2, <5>2
      <4>4. Loaded(tidx + 1)'
        BY <1>1, <1>2, <4>1, <4>3 DEF Loaded
      <4>5. Engine'
        BY <1>1, <1>2, <2>1, <2>4, <3>4, <4>1, <4>4 DEF Engine, busy
      <4> QED BY <1>5, <2>2, <3>5, <4>5 DEF TransferInv
    <3>7. CASE ReadOn
      <4>1. tstate = "RD_NX" /\ EngineNext("RD_RQ") /\ sbuf' = sbuf
        BY <3>7 DEF ReadOn
      <4>2. \A p : Loaded(p)' <=> Holds(sbuf, before, From + offset, p)
        BY <1>1, <1>2, <4>1 DEF Loaded
      <4>3. Holds(sbuf, before, From + offset, tidx + 1)
        BY <3>1, <4>1 DEF Loaded
      <4>4. CASE tidx = SWORDS - 1
        <5>1. tstate' = "DONE" /\ tidx + 1 = SWORDS
          BY <1>4, <4>1, <4>4 DEF EngineNext
        <5>2. Loaded(SWORDS)'
          BY <1>1, <1>2, <4>1, <4>3, <5>1 DEF Loaded
        <5>3. Engine'
          BY <1>1, <1>2, <2>1, <2>4, <3>4, <5>1, <5>2 DEF Engine, busy
        <5> QED BY <1>5, <2>2, <3>5, <5>3 DEF TransferInv
      <4>5. CASE tidx # SWORDS - 1
        <5>1. tstate' = "RD_RQ" /\ tidx' = tidx + 1
          BY <4>1, <4>5 DEF EngineNext
        <5>2. Loaded(tidx)'
          BY <1>1, <1>2, <4>1, <4>3, <5>1 DEF Loaded
        <5>3. Engine'
          BY <1>1, <1>2, <2>1, <2>4, <3>4, <5>1, <5>2 DEF Engine, busy
        <5> QED BY <1>5, <2>2, <3>5, <5>3 DEF TransferInv
      <4> QED BY <4>4, <4>5
    <3>8. CASE TransferDone
      <4>1. tstate = "DONE" /\ tstate' = "IDLE" /\ drq' = isRead /\ windex' = 0 /\ sbuf' = sbuf
        BY <3>8 DEF TransferDone
      <4>2. Loaded(SWORDS)'
        BY <1>1, <1>2, <3>1, <4>1 DEF Loaded
      <4>3. Engine'
        BY <1>1, <1>2, <2>1, <2>4, <3>1, <3>4, <4>1, <4>2 DEF Engine, busy
      <4> QED BY <1>5, <2>2, <3>5, <4>3 DEF TransferInv
    <3> QED BY <3>2, <3>6, <3>7, <3>8
  <2>5. CASE dop.op = "write"
    <3>1. /\ tstate \in {"WR_SU", "WR_RQ", "WR_NX", "DONE"} /\ To = DiskAt /\ dop.op # "read"
          /\ tstate \in {"WR_SU", "WR_RQ"} => sdram = CopiedSoFar(offset + tidx)
          /\ tstate = "WR_NX" => sdram = CopiedSoFar(offset + (tidx + 1))
          /\ tstate = "DONE" => sdram = CopiedSoFar(offset + SWORDS)
          /\ di = DBUF + offset + SWORDS /\ Loaded(SWORDS)
      BY <1>3, <1>7, <2>1, <2>5 DEF TransferInv, Engine, Caller, busy, To
    <3>2. WriteWord \/ WriteOn \/ TransferDone
      BY <3>1 DEF EngineStep, ReadWord, ReadOn
    <3>3. sbuf' = sbuf
      BY <3>2 DEF WriteWord, WriteOn, TransferDone
    <3>4. Loaded(SWORDS)'
      BY <1>1, <1>2, <3>1, <3>3 DEF Loaded
    <3>5. Caller'
      BY <1>1, <1>2, <1>7, <2>5, <3>1, <3>4 DEF Caller
    <3>6. ASSUME NEW m, sdram' = Copy(before, To, From, m)
          PROVE  sdram' = Copy(before', To', From', m)
      BY <1>1, <1>2, <3>6
    <3>7. CASE WriteWord
      <4>1. tstate = "WR_RQ" /\ tstate' = "WR_NX" /\ tidx' = tidx
            /\ sdram' = [sdram EXCEPT ![XferAddr] = sbuf[tidx]]
        BY <3>7 DEF WriteWord
      <4>2. sbuf[tidx] = before[From + offset + tidx]
        BY <1>4, <3>1 DEF Loaded, Holds, Places
      <4> DEFINE m == offset + tidx
      <4>3. /\ m \in Nat /\ m + 1 = offset + (tidx + 1) /\ XferAddr = To + m
            /\ From + offset + tidx = From + m
        BY <1>4, <2>1, <2>3, <3>1
      <4>4. To + m \in Memories
        <5>1. To + offset + tidx \in Memories
          <6>1. m <= offset + SWORDS /\ sdram = CopiedSoFar(m)
            BY <1>4, <2>1, <3>1, <4>1 DEF Places
          <6> QED BY <1>4, <1>7, <2>1, <3>1, <4>3, <6>1, SourceWord
        <5> QED BY <2>3, <3>1, <4>3, <5>1
      <4>5. sdram = Copy(before, To, From, m) /\ sbuf[tidx] = before[From + m]
        BY <3>1, <4>1, <4>2, <4>3 DEF CopiedSoFar
      <4>6. [sdram EXCEPT ![XferAddr] = sbuf[tidx]] = Copy(before, To, From, m + 1)
        <5> HIDE DEF m
        <5>1. FunctionOn(Memories, before)
          BY <2>1 DEF Boards
        <5> QED BY <2>1, <4>3, <4>4, <4>5, <5>1, CopyOne
      <4>7. sdram' = CopiedSoFar(offset + (tidx + 1))'
        <5>1. sdram' = Copy(before', To', From', offset + (tidx + 1))
          BY <3>6, <4>1, <4>3, <4>6
        <5> QED BY <1>2, <4>1, <5>1 DEF CopiedSoFar
      <4>8. Engine'
        BY <1>1, <1>2, <2>1, <3>1, <4>1, <4>7 DEF Engine, busy
      <4> QED BY <1>5, <2>2, <3>5, <4>8 DEF TransferInv
    <3>8. CASE WriteOn
      <4>1. sdram' = sdram
        BY <3>8 DEF WriteOn
      <4>2. CASE tstate = "WR_SU"
        <5>1. tstate' = "WR_RQ" /\ tidx' = tidx
          BY <3>8, <4>2 DEF WriteOn
        <5>2. sdram' = CopiedSoFar(offset + tidx)'
          <6>1. sdram' = Copy(before', To', From', offset + tidx)
            BY <3>1, <3>6, <4>1, <4>2 DEF CopiedSoFar
          <6> QED BY <1>2, <5>1, <6>1 DEF CopiedSoFar
        <5>3. Engine'
          BY <1>1, <1>2, <2>1, <3>1, <5>1, <5>2 DEF Engine, busy
        <5> QED BY <1>5, <2>2, <3>5, <5>3 DEF TransferInv
      <4>3. CASE tstate = "WR_NX"
        <5>1. EngineNext("WR_SU") /\ sdram = CopiedSoFar(offset + (tidx + 1))
          BY <3>1, <3>8, <4>3 DEF WriteOn
        <5>2. sdram' = Copy(before', To', From', offset + (tidx + 1))
          BY <3>6, <4>1, <5>1 DEF CopiedSoFar
        <5>3. CASE tidx = SWORDS - 1
          <6>1. tstate' = "DONE" /\ tidx + 1 = SWORDS
            BY <1>4, <5>1, <5>3 DEF EngineNext
          <6>2. sdram' = CopiedSoFar(offset + SWORDS)'
            BY <1>2, <5>2, <6>1 DEF CopiedSoFar
          <6>3. Engine'
            BY <1>1, <1>2, <2>1, <3>1, <6>1, <6>2 DEF Engine, busy
          <6> QED BY <1>5, <2>2, <3>5, <6>3 DEF TransferInv
        <5>4. CASE tidx # SWORDS - 1
          <6>1. tstate' = "WR_SU" /\ tidx' = tidx + 1
            BY <5>1, <5>4 DEF EngineNext
          <6>2. sdram' = CopiedSoFar(offset + tidx)'
            BY <1>2, <5>2, <6>1 DEF CopiedSoFar
          <6>3. Engine'
            BY <1>1, <1>2, <2>1, <3>1, <6>1, <6>2 DEF Engine, busy
          <6> QED BY <1>5, <2>2, <3>5, <6>3 DEF TransferInv
        <5> QED BY <5>3, <5>4
      <4> QED BY <3>8, <4>2, <4>3 DEF WriteOn
    <3>9. CASE TransferDone
      <4>1. tstate = "DONE" /\ tstate' = "IDLE" /\ sdram' = sdram
        BY <3>9 DEF TransferDone
      <4>2. sdram' = CopiedSoFar(offset + SWORDS)'
        <5>1. sdram' = Copy(before', To', From', offset + SWORDS)
          BY <3>1, <3>6, <4>1 DEF CopiedSoFar
        <5> QED BY <1>2, <5>1 DEF CopiedSoFar
      <4>3. Engine'
        BY <1>1, <1>2, <2>1, <3>1, <4>1, <4>2 DEF Engine, busy
      <4> QED BY <1>5, <2>2, <3>5, <4>3 DEF TransferInv
    <3> QED BY <3>2, <3>7, <3>8, <3>9
  <2> QED BY <2>1, <2>4, <2>5
<1> QED BY <1>3, <1>6, <1>7

LEMMA TransferStep ==
  ASSUME WindowFits, NumbersFit
  PROVE  TransferInv /\ [DiskNext]_diskVars => TransferInv'
PROOF
<1> SUFFICES ASSUME TransferInv, [DiskNext]_diskVars PROVE TransferInv'
  OBVIOUS
<1>1. Ranged'
  BY RangedStep DEF TransferInv
<1>2. ASSUME NEW op \in {"read", "write"}, NEW ch \in DCYLS, NEW dh \in 0..GHEADS - 1,
             NEW cl \in 1..GSPT, NEW al \in DCOUNTS, CallDisk(op, ch, dh, cl, al)
      PROVE  TransferInv'
  BY <1>1, <1>2, CallStep
<1>3. ASSUME NEW f \in {0, 1, 8}, OtherCall(f) PROVE TransferInv'
  BY <1>1, <1>3, OtherCallStep
<1>4. CASE ServiceStep
  BY <1>1, <1>4, NextSectorStep, FillStep, CommandStep, PollStep, TakeStep DEF ServiceStep
<1>5. CASE ProgramPorts
  BY <1>1, <1>5, PortsStep
<1>6. CASE EngineStep /\ UNCHANGED <<serviceVars, dpc>>
  BY <1>1, <1>6, EngineMoves
<1>7. CASE UNCHANGED diskVars
  <2>1. UNCHANGED <<dpc, dop, si, left, di, cx, cf, before, sdram, lbaSet, windex, sbuf, drq,
                    err, lbaCur, tstate, tidx, isRead>>
    BY <1>7 DEF diskVars, serviceVars, storageVars, engineVars
  <2>2. UNCHANGED <<finished, offset, DiskAt, To, From, Moved>>
    BY <2>1, SamePlaces DEF Moved
  <2>3. TransferExact' <=> TransferExact
    BY <2>1, <2>2 DEF TransferExact, Copied
  <2>4. \A p : Holds(sbuf', before', From' + offset', p) <=> Loaded(p)
    BY <2>1, <2>2 DEF Loaded
  <2>5. \A m : Copy(before', To', From', m) = CopiedSoFar(m)
    BY <2>1, <2>2 DEF CopiedSoFar
  <2>6. Boards' /\ Outside' /\ Called'
    BY <2>1, <2>2, <2>3 DEF TransferInv, Boards, Outside, Called
  <2>7. Loaded(SWORDS)' = Loaded(SWORDS) /\ Loaded(windex)' = Loaded(windex)
        /\ Loaded(tidx)' = Loaded(tidx) /\ Loaded(tidx + 1)' = Loaded(tidx + 1)
    BY <2>1, <2>2 DEF Loaded
  <2>8. UNCHANGED <<CopiedSoFar(offset), CopiedSoFar(offset + windex),
          CopiedSoFar(offset + tidx), CopiedSoFar(offset + (tidx + 1)),
          CopiedSoFar(offset + SWORDS)>>
    BY <2>1, <2>2 DEF CopiedSoFar
  <2>9. Caller' /\ Engine'
    BY <2>1, <2>2, <2>7, <2>8 DEF TransferInv, Caller, Engine, busy
  <2> QED BY <1>1, <2>6, <2>9 DEF TransferInv
<1> QED BY <1>2, <1>3, <1>4, <1>5, <1>6, <1>7 DEF DiskNext

(* A call of INT 13h moves the sectors it names and nothing else, and      *)
(* fails just when the device does not have one of them, whatever programs *)
(* did with the ports before it.                                           *)
THEOREM DiskTransferExact ==
  ASSUME WindowFits, NumbersFit
  PROVE  DiskSpec => []TransferExact
PROOF
<1>1. DiskInit => TransferInv
  <2> SUFFICES ASSUME DiskInit PROVE TransferInv
    OBVIOUS
  <2>1. 0 \in Places
    BY StorageAssumptions DEF Places
  <2>2. dpc = "caller" /\ dop.op = "none" /\ tstate = "IDLE"
    BY DEF DiskInit, StorageInit, NoCall
  <2>3. Ranged
    BY StorageAssumptions DEF DiskInit, StorageInit, Ranged, Transfers
  <2>4. Boards
    BY <2>1 DEF DiskInit, StorageInit, Boards, FunctionOn, Memories
  <2> QED BY <2>2, <2>3, <2>4
          DEF TransferInv, Outside, TransferExact, Called, Caller, Engine
<1>2. TransferInv => TransferExact
  <2>1. CASE dpc = "caller"
    BY <2>1 DEF TransferInv, Outside
  <2>2. CASE dpc # "caller"
    BY <2>2 DEF TransferExact
  <2> QED BY <2>1, <2>2
<1> QED BY <1>1, <1>2, TransferStep, PTL DEF DiskSpec

-----------------------------------------------------------------------------
(* Screen. *)

LEMMA Induction ==
  ASSUME NEW S, 0 \in S, \A n \in Nat : n \in S => n + 1 \in S
  PROVE  \A n \in Nat : n \in S
<1> DEFINE Less == {p \in Nat \X Nat : p[1] < p[2]}
           Missed == Nat \ S
<1>1. IsWellFoundedOn(Less, Nat)
  BY NatLessThanWellFounded, Zenon DEF OpToRel
<1>2. SUFFICES ASSUME Missed # {} PROVE FALSE
  OBVIOUS
<1>3. PICK x \in Missed : \A y \in Missed : <<y, x>> \notin Less
  <2> HIDE DEF Less
  <2>1. Missed \subseteq Nat
    OBVIOUS
  <2> HIDE DEF Missed
  <2> QED BY <1>1, <1>2, <2>1, WFMin, Zenon
<1>4. x \in Nat /\ x # 0 /\ x - 1 \in Nat
  OBVIOUS
<1>5. x - 1 \notin S
  <2>1. (x - 1) + 1 = x
    BY <1>4
  <2> QED BY <1>4, <2>1
<1>6. <<x - 1, x>> \in Less
  BY <1>4
<1> QED BY <1>3, <1>4, <1>5, <1>6

LEMMA Sizes == BYTE \in Nat /\ ROWS \in Nat /\ COLS \in Nat /\ ROWS >= 1 /\ COLS >= 1
               /\ ROWS < BYTE /\ COLS < BYTE
  BY ScreenAssumptions

(* Quotient and remainder by a number that is not known. *)
LEMMA QuotRem ==
  ASSUME NEW d \in Nat, d > 0, NEW q \in Nat, NEW r \in 0..d - 1, NEW n, n = d * q + r
  PROVE  n \in Nat /\ n \div d = q /\ n % d = r
<1>1. d * q \in Nat /\ n \in Nat
  OBVIOUS
<1> DEFINE x == n \div d
           y == n % d
<1>2. x \in Int /\ y \in 0..d - 1 /\ n = d * x + y
  BY <1>1
<1> HIDE DEF x, y
<1>3. d * (x - q) = r - y
  BY <1>1, <1>2
<1>4. r - y < d /\ r - y > -d
  BY <1>2
<1>5. x = q
  <2> DEFINE e == x - q
  <2>1. e \in Int /\ d * e < d /\ d * e > -d
    BY <1>2, <1>3, <1>4
  <2> HIDE DEF e
  <2>2. ~(e >= 1)
    <3> SUFFICES ASSUME e >= 1 PROVE FALSE
      OBVIOUS
    <3>1. d * e >= d
      BY <2>1
    <3> QED BY <2>1, <3>1
  <2>3. ~(e <= -1)
    <3> SUFFICES ASSUME e <= -1 PROVE FALSE
      OBVIOUS
    <3>1. d * e <= -d
      BY <2>1
    <3> QED BY <2>1, <3>1
  <2>4. e = 0
    BY <2>1, <2>2, <2>3
  <2> QED BY <1>2, <2>4 DEF e
<1>6. y = r
  BY <1>1, <1>2, <1>5
<1> QED BY <1>1, <1>5, <1>6 DEF x, y

-----------------------------------------------------------------------------
(* The buffer as rows.                                                     *)

LEMMA OffsetNat ==
  ASSUME NEW r \in Nat, NEW c \in Nat
  PROVE  CellOffset(r, c) \in Nat
  BY Sizes DEF CellOffset

LEMMA OffsetMoves ==
  ASSUME NEW r \in Int, NEW c \in Int, NEW n \in Int
  PROVE  /\ CellOffset(r, c) + n * COLS = CellOffset(r + n, c)
         /\ CellOffset(r, c) + n = CellOffset(r, c + n)
  BY Sizes DEF CellOffset

LEMMA OffsetOrder ==
  ASSUME NEW r \in Int, NEW q \in Int, NEW c \in 0..COLS - 1, NEW e \in Nat, r < q
  PROVE  CellOffset(r, c) < CellOffset(q, e)
<1>1. COLS \in Nat /\ COLS >= 1
  BY Sizes
<1>2. (r + 1) * COLS <= q * COLS
  <2>1. \E n \in Nat : q = (r + 1) + n
    <3>1. q - (r + 1) \in Nat /\ q = (r + 1) + (q - (r + 1))
      OBVIOUS
    <3> QED BY <3>1
  <2>2. PICK n \in Nat : q = (r + 1) + n
    BY <2>1
  <2>3. q * COLS = (r + 1) * COLS + n * COLS /\ n * COLS >= 0
    BY <1>1, <2>2
  <2>4. (r + 1) * COLS \in Int /\ n * COLS \in Int
    BY <1>1
  <2> QED BY <2>3, <2>4
<1>3. (r + 1) * COLS = r * COLS + COLS /\ r * COLS \in Int /\ q * COLS \in Int
  BY <1>1
<1> QED BY <1>1, <1>2, <1>3 DEF CellOffset

LEMMA OffsetUnique ==
  ASSUME NEW r \in Int, NEW q \in Int, NEW c \in 0..COLS - 1, NEW e \in 0..COLS - 1,
         CellOffset(r, c) = CellOffset(q, e)
  PROVE  r = q /\ c = e
<1>1. CellOffset(r, c) \in Int /\ CellOffset(q, e) \in Int /\ c \in Nat /\ e \in Nat
  BY Sizes DEF CellOffset
<1>2. r = q
  <2>1. ~(r < q)
    <3> SUFFICES ASSUME r < q PROVE FALSE
      OBVIOUS
    <3>1. CellOffset(r, c) < CellOffset(q, e)
      BY <1>1, OffsetOrder
    <3> QED BY <1>1, <3>1
  <2>2. ~(q < r)
    <3> SUFFICES ASSUME q < r PROVE FALSE
      OBVIOUS
    <3>1. CellOffset(q, e) < CellOffset(r, c)
      BY <1>1, OffsetOrder
    <3> QED BY <1>1, <3>1
  <2> QED BY <2>1, <2>2
<1>3. c = e
  <2>1. r * COLS \in Int /\ r * COLS + c = r * COLS + e
    BY <1>2, Sizes DEF CellOffset
  <2> QED BY <2>1
<1> QED BY <1>2, <1>3

LEMMA OffsetInside ==
  ASSUME NEW r \in 0..ROWS - 1, NEW c \in 0..COLS - 1
  PROVE  CellOffset(r, c) \in 0..Extent - 1
<1>1. CellOffset(r, c) \in Nat
  BY OffsetNat, Sizes
<1>2. CellOffset(r, c) < CellOffset(ROWS, 0)
  BY OffsetOrder, Sizes
<1>3. CellOffset(ROWS, 0) = Extent /\ Extent \in Nat
  BY Sizes DEF CellOffset, Extent
<1> QED BY <1>1, <1>2, <1>3

LEMMA OffsetBack ==
  ASSUME NEW r \in Nat, NEW c \in 0..COLS - 1
  PROVE  CellOffset(r, c) \div COLS = r /\ CellOffset(r, c) % COLS = c
<1> DEFINE n == CellOffset(r, c)
<1>1. COLS \in Nat /\ COLS > 0 /\ n = COLS * r + c
  BY Sizes DEF CellOffset
<1> HIDE DEF n
<1>2. n \div COLS = r /\ n % COLS = c
  BY <1>1, QuotRem
<1> QED BY <1>2 DEF n

-----------------------------------------------------------------------------
(* The stack frame of scroll_up: with zero above the count, the two bytes  *)
(* do not disturb each other.                                              *)
StackFrame(c, r) == [cur |-> c, rest |-> r, bl |-> 0]

LEMMA FrameTurn ==
  ASSUME NEW c \in Nat, NEW r \in Nat, c + 1 < BYTE, r >= 1, r < BYTE
  PROVE  WordDec(WordInc(StackFrame(c, r))) = StackFrame(c + 1, r - 1)
<1> DEFINE f == StackFrame(c, r)
           n == c + BYTE * r + 1
           sq == BYTE * BYTE
<1>0. BYTE \in Nat /\ BYTE > 0 /\ sq \in Nat /\ sq > 0
  <2>1. BYTE \in Nat /\ BYTE >= 2
    BY Sizes
  <2> QED BY <2>1
<1>1. n \in Nat /\ n < sq /\ n = BYTE * r + (c + 1) /\ c + 1 \in 0..BYTE - 1
  <2>1. BYTE * r \in Nat /\ BYTE * r + BYTE <= sq
    <3>1. BYTE * r + BYTE = BYTE * (r + 1)
      BY <1>0
    <3>2. BYTE * (r + 1) <= BYTE * BYTE
      BY <1>0
    <3> QED BY <1>0, <3>1, <3>2
  <2> QED BY <1>0, <2>1
<1>2. n % sq = n
  <2> HIDE DEF n, sq
  <2> QED BY <1>0, <1>1
<1>3. n \div BYTE = r /\ n % BYTE = c + 1
  <2> DEFINE e == c + 1
  <2>1. e \in 0..BYTE - 1 /\ n = BYTE * r + e
    BY <1>1
  <2> HIDE DEF e, n
  <2>2. n \div BYTE = r /\ n % BYTE = e
    BY <1>0, <2>1, QuotRem
  <2> QED BY <2>2 DEF e
<1>4. WordInc(f) = StackFrame(c + 1, r)
  <2>1. (f.cur + BYTE * f.rest + 1) % (BYTE * BYTE) = n
    BY <1>2 DEF StackFrame
  <2>2. WordInc(f) = [f EXCEPT !.cur = n % BYTE, !.rest = n \div BYTE]
    BY <2>1 DEF WordInc
  <2> HIDE DEF n
  <2> QED BY <1>3, <2>2 DEF StackFrame
<1> DEFINE g == StackFrame(c + 1, r)
           m == r + BYTE * 0 + sq - 1
<1>5. m = sq + (r - 1) /\ r - 1 \in 0..BYTE - 1 /\ r - 1 < sq
  <2>1. BYTE <= sq
    BY <1>0
  <2> QED BY <1>0, <2>1
<1>6. m % sq = r - 1
  <2> DEFINE e == r - 1
  <2>1. e \in 0..sq - 1 /\ m = sq * 1 + e
    BY <1>0, <1>5
  <2> HIDE DEF e, m, sq
  <2>2. m % sq = e
    BY <1>0, <2>1, QuotRem
  <2> QED BY <2>2 DEF e
<1>7. (r - 1) \div BYTE = 0 /\ (r - 1) % BYTE = r - 1
  <2> DEFINE e == r - 1
  <2>1. e \in 0..BYTE - 1 /\ e = BYTE * 0 + e
    BY <1>0, <1>5
  <2> HIDE DEF e
  <2>2. e \div BYTE = 0 /\ e % BYTE = e
    BY <1>0, <2>1, QuotRem
  <2> QED BY <2>2 DEF e
<1>8. WordDec(g) = StackFrame(c + 1, r - 1)
  <2>1. (g.rest + BYTE * g.bl + BYTE * BYTE - 1) % (BYTE * BYTE) = r - 1
    BY <1>6 DEF StackFrame
  <2>2. WordDec(g) = [g EXCEPT !.rest = (r - 1) % BYTE, !.bl = (r - 1) \div BYTE]
    BY <2>1 DEF WordDec
  <2> QED BY <1>7, <2>2 DEF StackFrame
<1> QED BY <1>4, <1>8

LEMMA FrameAfter ==
  ASSUME NEW c \in Nat, NEW r \in Nat, c + r < BYTE, NEW n \in 0..r
  PROVE  Frame(StackFrame(c, r), n) = StackFrame(c + n, r - n)
<1> DEFINE f == StackFrame(c, r)
           Is(t) == t = [k \in 0..n |-> IF k = 0 THEN f ELSE WordDec(WordInc(t[k - 1]))]
           turn == CHOOSE t : Is(t)
           d == [k \in 0..n |-> StackFrame(c + k, r - k)]
<1>0. BYTE \in Nat /\ n \in Nat
  BY Sizes
<1>1. ASSUME NEW k \in 1..n
      PROVE  WordDec(WordInc(StackFrame(c + (k - 1), r - (k - 1)))) = StackFrame(c + k, r - k)
  <2> DEFINE a == c + (k - 1)
             b == r - (k - 1)
  <2>1. a \in Nat /\ b \in Nat /\ a + 1 < BYTE /\ b >= 1 /\ b < BYTE /\ a + 1 = c + k /\ b - 1 = r - k
    BY <1>0
  <2> HIDE DEF a, b
  <2>2. WordDec(WordInc(StackFrame(a, b))) = StackFrame(a + 1, b - 1)
    BY <2>1, FrameTurn
  <2> QED BY <2>1, <2>2 DEF a, b
<1>2. Is(d)
  <2>1. ASSUME NEW k \in 0..n
        PROVE  StackFrame(c + k, r - k) = IF k = 0 THEN f ELSE WordDec(WordInc(d[k - 1]))
    <3>1. CASE k = 0
      BY <3>1 DEF StackFrame
    <3>2. CASE k # 0
      <4>1. k \in 1..n /\ k - 1 \in 0..n
        BY <3>2
      <4>2. d[k - 1] = StackFrame(c + (k - 1), r - (k - 1))
        BY <4>1
      <4> QED BY <1>1, <3>2, <4>1, <4>2
    <3> QED BY <3>1, <3>2
  <2>2. d = [k \in 0..n |-> IF k = 0 THEN f ELSE WordDec(WordInc(d[k - 1]))]
    BY <2>1
  <2> HIDE DEF d, f
  <2> QED BY <2>2
<1>3. Is(turn)
  <2> HIDE DEF Is, d
  <2> QED BY <1>2
<1> HIDE DEF turn
<1> DEFINE S == {k \in Nat : k <= n => turn[k] = StackFrame(c + k, r - k)}
<1>4. 0 \in S
  <2>1. turn[0] = f
    BY <1>0, <1>3
  <2> QED BY <2>1 DEF StackFrame
<1>5. ASSUME NEW k \in Nat, k \in S PROVE k + 1 \in S
  <2> SUFFICES ASSUME k + 1 <= n PROVE turn[k + 1] = StackFrame(c + (k + 1), r - (k + 1))
    OBVIOUS
  <2> DEFINE m == k + 1
  <2>1. m \in 1..n /\ m \in 0..n /\ m # 0 /\ m - 1 = k
    BY <1>0
  <2>2. turn[k] = StackFrame(c + k, r - k)
    BY <1>5, <1>0
  <2> HIDE DEF m
  <2>3. turn[m] = WordDec(WordInc(turn[m - 1]))
    BY <1>3, <2>1
  <2>4. turn[m] = StackFrame(c + m, r - m)
    BY <1>1, <2>1, <2>2, <2>3
  <2> QED BY <2>4 DEF m
<1>6. \A k \in Nat : k \in S
  <2> HIDE DEF S
  <2> QED BY <1>4, <1>5, Induction
<1>7. turn[n] = StackFrame(c + n, r - n)
  BY <1>0, <1>6
<1>8. Frame(StackFrame(c, r), n) = turn[n]
  BY DEF Frame, turn
<1> QED BY <1>7, <1>8

LEMMA CountIs ==
  ASSUME NEW c \in Nat, NEW r \in Nat, c + r < BYTE
  PROVE  /\ Count(StackFrame(c, r)) = r
         /\ Frame(StackFrame(c, r), r) = StackFrame(c + r, 0)
<1> DEFINE f == StackFrame(c, r)
           Ends(k) == WordZero(Frame(f, k)) /\ \A j \in 0..k - 1 : ~WordZero(Frame(f, j))
<1>1. ASSUME NEW k \in 0..r PROVE WordZero(Frame(f, k)) <=> k = r
  <2>1. Frame(f, k) = StackFrame(c + k, r - k)
    BY FrameAfter
  <2>2. BYTE * 0 = 0
    BY Sizes
  <2> QED BY <2>1, <2>2 DEF WordZero, StackFrame
<1>2. r \in 0..Turns
  <2>1. BYTE \in Nat /\ BYTE >= 2
    BY Sizes
  <2>2. BYTE <= BYTE * (BYTE + 2) /\ BYTE * (BYTE + 2) \in Nat
    BY <2>1
  <2> QED BY <2>1, <2>2 DEF Turns
<1> HIDE DEF f
<1>3. Ends(r)
  <2>1. \A j \in 0..r - 1 : j \in 0..r /\ j # r
    OBVIOUS
  <2>2. r \in 0..r
    OBVIOUS
  <2> QED BY <1>1, <2>1, <2>2
<1>4. ASSUME NEW k \in 0..Turns, Ends(k) PROVE k = r
  <2>0. Turns \in Nat /\ k \in Nat
    BY <1>2, Sizes DEF Turns
  <2>1. ~(k < r)
    <3> SUFFICES ASSUME k < r PROVE FALSE
      OBVIOUS
    <3>1. k \in 0..r /\ k # r
      BY <2>0
    <3> QED BY <1>1, <1>4, <3>1
  <2>2. ~(r < k)
    <3> SUFFICES ASSUME r < k PROVE FALSE
      OBVIOUS
    <3>1. r \in 0..k - 1 /\ r \in 0..r
      BY <2>0
    <3> QED BY <1>1, <1>4, <3>1
  <2> QED BY <2>0, <2>1, <2>2
<1>5. (CHOOSE k \in 0..Turns : Ends(k)) = r
  <2> HIDE DEF Ends
  <2> QED BY <1>2, <1>3, <1>4
<1>6. Count(f) = r
  BY <1>5 DEF Count
<1>7. Frame(StackFrame(c, r), r) = StackFrame(c + r, 0)
  <2>1. r \in 0..r /\ r - r = 0
    OBVIOUS
  <2>2. Frame(StackFrame(c, r), r) = StackFrame(c + r, r - r)
    BY <2>1, FrameAfter
  <2> QED BY <2>1, <2>2
<1> QED BY <1>6, <1>7 DEF f

InRow(i, w, r) == \E c \in w.left..w.right : i = CellOffset(r, c)
InRows(i, w, a, b) == \E r \in a..b : InRow(i, w, r)

LEMMA WindowSides ==
  ASSUME NEW w \in Windows
  PROVE  /\ w.top \in 0..ROWS - 1 /\ w.bottom \in 0..ROWS - 1 /\ w.top <= w.bottom
         /\ w.left \in 0..COLS - 1 /\ w.right \in 0..COLS - 1 /\ w.left <= w.right
         /\ Width(w) = w.right - w.left + 1
         /\ (w.bottom - w.top + 1) % BYTE = w.bottom - w.top + 1
<1>1. /\ w.top \in 0..ROWS - 1 /\ w.bottom \in 0..ROWS - 1 /\ w.top <= w.bottom
      /\ w.left \in 0..COLS - 1 /\ w.right \in 0..COLS - 1 /\ w.left <= w.right
  BY DEF Windows
<1> DEFINE x == w.right - w.left + 1
           y == w.bottom - w.top + 1
<1>2. x \in Nat /\ x < BYTE /\ y \in Nat /\ y < BYTE /\ BYTE \in Nat /\ BYTE > 0
  BY <1>1, Sizes
<1> HIDE DEF x, y
<1>3. x % BYTE = x /\ y % BYTE = y
  BY <1>2
<1>4. Width(w) = x
  BY <1>3 DEF Width, x
<1> QED BY <1>1, <1>3, <1>4 DEF x, y

LEMMA RowSpan ==
  ASSUME NEW w \in Windows, NEW r \in Nat, NEW i \in Int
  PROVE  i \in CellOffset(r, w.left)..CellOffset(r, w.left) + Width(w) - 1
           <=> InRow(i, w, r)
<1> DEFINE s == CellOffset(r, w.left)
<1>0. /\ w.left \in Nat /\ w.right \in Nat /\ Width(w) = w.right - w.left + 1
      /\ w.left <= w.right
  BY WindowSides, Sizes
<1>1. s \in Int /\ \A c \in Int : CellOffset(r, c) = s + (c - w.left)
  BY <1>0, Sizes DEF CellOffset
<1>2. ASSUME i \in s..s + Width(w) - 1 PROVE InRow(i, w, r)
  <2> DEFINE c == w.left + (i - s)
  <2>1. c \in w.left..w.right /\ c \in Int /\ s + (c - w.left) = i
    BY <1>0, <1>1, <1>2
  <2> HIDE DEF c, s
  <2>2. CellOffset(r, c) = i
    BY <1>1, <2>1
  <2> QED BY <2>1, <2>2 DEF InRow
<1>3. ASSUME InRow(i, w, r) PROVE i \in s..s + Width(w) - 1
  <2>1. PICK c \in w.left..w.right : i = CellOffset(r, c)
    BY <1>3 DEF InRow
  <2>2. c \in Int /\ i = s + (c - w.left)
    BY <1>0, <1>1, <2>1
  <2> HIDE DEF s
  <2> QED BY <1>0, <1>1, <2>1, <2>2
<1> QED BY <1>2, <1>3

(* A cell is in the rows of a window when its row and column are.          *)
LEMMA InRowsCell ==
  ASSUME NEW w \in Windows, NEW a \in Nat, NEW b \in Int,
         NEW r \in Nat, NEW c \in 0..COLS - 1
  PROVE  InRows(CellOffset(r, c), w, a, b) <=> r \in a..b /\ c \in w.left..w.right
<1>0. w.left \in 0..COLS - 1 /\ w.right \in 0..COLS - 1 /\ COLS \in Nat
  BY WindowSides, Sizes
<1>1. ASSUME InRows(CellOffset(r, c), w, a, b) PROVE r \in a..b /\ c \in w.left..w.right
  <2>1. PICK q \in a..b, e \in w.left..w.right : CellOffset(r, c) = CellOffset(q, e)
    BY <1>1 DEF InRows, InRow
  <2>2. q \in Int /\ e \in 0..COLS - 1 /\ r \in Int
    BY <1>0, <2>1
  <2>3. r = q /\ c = e
    BY <2>1, <2>2, OffsetUnique
  <2> QED BY <2>1, <2>3
<1>2. ASSUME r \in a..b, c \in w.left..w.right PROVE InRows(CellOffset(r, c), w, a, b)
  BY <1>2 DEF InRows, InRow
<1> QED BY <1>1, <1>2

(* What k rows of the copy, and of the blanks, leave in the buffer. *)
RowsCopied(m, w, n, k) ==
  [i \in 0..Extent - 1 |->
     IF InRows(i, w, w.top, w.top + k - 1) THEN m[i + n * COLS] ELSE m[i]]
Blanked(m, w, from, a, k) ==
  [i \in 0..Extent - 1 |->
     IF InRows(i, w, from, from + k - 1) THEN Blank(a) ELSE m[i]]

LEMMA CopyTurn ==
  ASSUME NEW m \in [0..Extent - 1 -> Cell], NEW w \in Windows,
         NEW n \in Nat, n >= 1, NEW k \in Nat, w.top + k + n <= w.bottom, NEW q
  PROVE  CopyRow(RowsCopied(m, w, n, k), StackFrame(w.top + k, q), w, n)
           = RowsCopied(m, w, n, k + 1)
<1> DEFINE d == RowsCopied(m, w, n, k)
           row1 == w.top + k
           s == CellOffset(row1, w.left)
           off == n * COLS
<1>0. /\ w.top \in Nat /\ w.bottom \in 0..ROWS - 1 /\ row1 \in Nat /\ off \in Int
      /\ row1 - 1 = w.top + k - 1 /\ row1 = w.top + (k + 1) - 1
      /\ w.left \in 0..COLS - 1 /\ w.right \in 0..COLS - 1
      /\ COLS \in Nat /\ ROWS \in Nat /\ Extent \in Nat
      /\ row1 + n \in 0..ROWS - 1 /\ row1 >= w.top
      /\ \A c \in w.left..w.right : c \in 0..COLS - 1 /\ c \in Int
      /\ row1 - 1 \in Int /\ row1 + n \notin w.top..row1 - 1
  <2>1. COLS \in Nat /\ ROWS \in Nat /\ n * COLS \in Nat /\ ROWS * COLS \in Nat
    BY Sizes
  <2>2. /\ w.top \in 0..ROWS - 1 /\ w.bottom \in 0..ROWS - 1
        /\ w.left \in 0..COLS - 1 /\ w.right \in 0..COLS - 1
    BY WindowSides
  <2> DEFINE t == w.top
             b == w.bottom
  <2> HIDE DEF s, t, b
  <2>3. t \in Nat /\ b \in 0..ROWS - 1 /\ t + k + n <= b
    BY <2>2, <2>1 DEF t, b
  <2>4. /\ t + k \in Nat /\ t + k - 1 \in Int /\ t + k = t + (k + 1) - 1 /\ t + k >= t
        /\ t + k + n \in 0..ROWS - 1
        /\ t + k + n \notin t..t + k - 1
    BY <2>1, <2>3
  <2>5. \A c \in w.left..w.right : c \in 0..COLS - 1 /\ c \in Int
    BY <2>1, <2>2
  <2>6. off \in Int /\ Extent \in Nat
    BY <2>1 DEF Extent
  <2> HIDE DEF off
  <2>7. row1 = t + k
    BY DEF t
  <2> HIDE DEF row1
  <2>8. /\ row1 \in Nat /\ row1 - 1 = t + k - 1 /\ row1 = t + (k + 1) - 1
        /\ row1 + n \in 0..ROWS - 1 /\ row1 >= t
        /\ row1 - 1 \in Int /\ row1 + n \notin t..row1 - 1
    BY <2>1, <2>3, <2>4, <2>7
  <2> QED BY <2>1, <2>2, <2>3, <2>5, <2>6, <2>8, Zenon DEF t, b
<1>1. CopyRow(d, StackFrame(row1, q), w, n)
        = [i \in 0..Extent - 1 |-> IF i \in s..s + Width(w) - 1
                                   THEN Fetch(d, i + off) ELSE d[i]]
  BY DEF CopyRow, RowStart, StackFrame, RowsCopied
<1>2. ASSUME NEW i \in 0..Extent - 1
      PROVE  (IF i \in s..s + Width(w) - 1 THEN Fetch(d, i + off) ELSE d[i])
               = RowsCopied(m, w, n, k + 1)[i]
  <2>0. i \in Int
    OBVIOUS
  <2>1. i \in s..s + Width(w) - 1 <=> InRow(i, w, row1)
    BY <1>0, <2>0, RowSpan
  <2>2. InRows(i, w, w.top, row1) <=> InRow(i, w, row1) \/ InRows(i, w, w.top, row1 - 1)
    <3>1. \A r : r \in w.top..row1 <=> r = row1 \/ r \in w.top..row1 - 1
      <4> DEFINE t == w.top
      <4>1. t \in Int /\ row1 \in Int /\ row1 >= t
        BY <1>0
      <4> HIDE DEF t, row1
      <4> QED BY <4>1 DEF t
    <3> QED BY <3>1 DEF InRows
  <2>3. RowsCopied(m, w, n, k + 1)[i] = IF InRows(i, w, w.top, row1) THEN m[i + off] ELSE m[i]
    BY <1>0 DEF RowsCopied
  <2>4. \A j \in 0..Extent - 1 :
          d[j] = IF InRows(j, w, w.top, row1 - 1) THEN m[j + off] ELSE m[j]
    BY <1>0 DEF RowsCopied
  <2>5. CASE InRow(i, w, row1)
    <3>1. PICK c \in w.left..w.right : i = CellOffset(row1, c)
      BY <2>5 DEF InRow
    <3>2. c \in 0..COLS - 1 /\ c \in Int /\ row1 \in Int /\ n \in Int
      <4>1. c \in 0..COLS - 1 /\ c \in Int /\ row1 \in Nat
        BY <1>0, Zenon
      <4> HIDE DEF row1
      <4> QED BY <4>1
    <3>3. i + off = CellOffset(row1 + n, c)
      BY <3>1, <3>2, OffsetMoves
    <3>4. row1 + n \in 0..ROWS - 1 /\ row1 + n \in Nat
      <4>1. row1 + n \in 0..ROWS - 1 /\ ROWS \in Nat
        BY <1>0, Zenon
      <4> DEFINE x == row1 + n
      <4> HIDE DEF row1
      <4>2. x \in 0..ROWS - 1 /\ ROWS \in Nat
        BY <4>1
      <4> HIDE DEF x
      <4>3. x \in Nat
        BY <4>2
      <4> QED BY <4>1, <4>3 DEF x
    <3>5. i + off \in 0..Extent - 1
      BY <3>2, <3>3, <3>4, OffsetInside
    <3> DEFINE j == i + off
               low == row1 - 1
               deep == row1 + n
    <3>6. low \in Int /\ deep \notin w.top..low /\ deep \in Nat
      BY <1>0, <3>4, Zenon
    <3>7. j = CellOffset(deep, c)
      BY <3>3
    <3> HIDE DEF j, low, deep
    <3>8. ~InRows(j, w, w.top, low)
      BY <1>0, <3>2, <3>6, <3>7, InRowsCell
    <3>9. d[j] = m[j]
      BY <2>4, <3>5, <3>8 DEF j, low
    <3>10. Fetch(d, j) = m[j]
      BY <1>0, <3>5, <3>9 DEF Fetch, j
    <3> QED BY <2>1, <2>2, <2>3, <2>5, <3>10 DEF j
  <2>6. CASE ~InRow(i, w, row1)
    <3> HIDE DEF d, s, row1, off
    <3> QED BY <2>1, <2>2, <2>3, <2>4, <2>6
  <2> QED BY <2>5, <2>6
<1>3. RowsCopied(m, w, n, k + 1) = [i \in 0..Extent - 1 |-> RowsCopied(m, w, n, k + 1)[i]]
  BY DEF RowsCopied
<1> HIDE DEF d, s, off, row1
<1>4. CopyRow(d, StackFrame(row1, q), w, n) = RowsCopied(m, w, n, k + 1)
  BY <1>1, <1>2, <1>3
<1> QED BY <1>4 DEF d, row1

LEMMA CopyPhaseIs ==
  ASSUME NEW m \in [0..Extent - 1 -> Cell], NEW w \in Windows,
         NEW n \in Nat, n >= 1, NEW q \in Nat, w.top + q + n = w.bottom + 1
  PROVE  CopyPhase(m, StackFrame(w.top, q), w, n) = RowsCopied(m, w, n, q)
<1> DEFINE f == StackFrame(w.top, q)
           Is(t) == t = [k \in 0..q |-> IF k = 0 THEN m
                                        ELSE CopyRow(t[k - 1], Frame(f, k - 1), w, n)]
           turn == CHOOSE t : Is(t)
           d == [k \in 0..q |-> RowsCopied(m, w, n, k)]
<1>0. w.top \in Nat /\ w.bottom \in Nat /\ w.top + q < BYTE /\ BYTE \in Nat
  BY WindowSides, Sizes
<1>1. RowsCopied(m, w, n, 0) = m
  <2>1. \A i : ~InRows(i, w, w.top, w.top + 0 - 1)
    BY <1>0 DEF InRows
  <2>2. RowsCopied(m, w, n, 0) = [i \in 0..Extent - 1 |-> m[i]]
    BY <2>1 DEF RowsCopied
  <2>3. m = [i \in 0..Extent - 1 |-> m[i]]
    OBVIOUS
  <2> QED BY <2>2, <2>3
<1>2. ASSUME NEW k \in 1..q
      PROVE  CopyRow(RowsCopied(m, w, n, k - 1), Frame(f, k - 1), w, n) = RowsCopied(m, w, n, k)
  <2> DEFINE p == k - 1
  <2>1. p \in Nat /\ p \in 0..q /\ w.top + p + n <= w.bottom /\ p + 1 = k
    BY <1>0
  <2> HIDE DEF p
  <2>2. Frame(f, p) = StackFrame(w.top + p, q - p)
    BY <1>0, <2>1, FrameAfter
  <2> DEFINE more == q - p
  <2> HIDE DEF more
  <2>3. CopyRow(RowsCopied(m, w, n, p), StackFrame(w.top + p, more), w, n) = RowsCopied(m, w, n, p + 1)
    BY <2>1, CopyTurn
  <2> QED BY <2>1, <2>2, <2>3 DEF more, p
<1>3. Is(d)
  <2>1. ASSUME NEW k \in 0..q
        PROVE  RowsCopied(m, w, n, k)
                 = IF k = 0 THEN m ELSE CopyRow(d[k - 1], Frame(f, k - 1), w, n)
    <3>1. CASE k = 0
      BY <1>1, <3>1
    <3>2. CASE k # 0
      <4>1. k \in 1..q /\ k - 1 \in 0..q
        BY <3>2
      <4>2. d[k - 1] = RowsCopied(m, w, n, k - 1)
        BY <4>1
      <4> QED BY <1>2, <3>2, <4>1, <4>2
    <3> QED BY <3>1, <3>2
  <2>2. d = [k \in 0..q |-> IF k = 0 THEN m ELSE CopyRow(d[k - 1], Frame(f, k - 1), w, n)]
    BY <2>1
  <2> HIDE DEF d, f
  <2> QED BY <2>2
<1>4. Is(turn)
  <2> HIDE DEF Is, d
  <2> QED BY <1>3
<1> HIDE DEF turn
<1> DEFINE S == {k \in Nat : k <= q => turn[k] = RowsCopied(m, w, n, k)}
<1>5. 0 \in S
  <2>1. 0 \in 0..q
    OBVIOUS
  <2>2. turn[0] = m
    BY <1>4, <2>1
  <2> QED BY <1>1, <2>2
<1>6. ASSUME NEW k \in Nat, k \in S PROVE k + 1 \in S
  <2> SUFFICES ASSUME k + 1 <= q PROVE turn[k + 1] = RowsCopied(m, w, n, k + 1)
    OBVIOUS
  <2> DEFINE j == k + 1
  <2>1. j \in 1..q /\ j \in 0..q /\ j # 0 /\ j - 1 = k
    OBVIOUS
  <2>2. turn[k] = RowsCopied(m, w, n, k)
    BY <1>6
  <2> HIDE DEF j, f
  <2>3. turn[j] = CopyRow(turn[j - 1], Frame(f, j - 1), w, n)
    BY <1>4, <2>1
  <2>4. turn[j] = RowsCopied(m, w, n, j)
    BY <1>2, <2>1, <2>2, <2>3
  <2> QED BY <2>4 DEF j
<1>7. \A k \in Nat : k \in S
  <2> HIDE DEF S
  <2> QED BY <1>5, <1>6, Induction
<1>8. turn[q] = RowsCopied(m, w, n, q)
  BY <1>7
<1>9. Count(f) = q
  BY <1>0, CountIs
<1>10. CopyPhase(m, f, w, n) = turn[q]
  BY <1>9 DEF CopyPhase, turn
<1> QED BY <1>8, <1>10 DEF f

LEMMA BlankTurn ==
  ASSUME NEW m \in [0..Extent - 1 -> Cell], NEW w \in Windows, NEW from \in Nat,
         NEW a \in ATTRS, NEW k \in Nat, NEW q
  PROVE  BlankRow(Blanked(m, w, from, a, k), StackFrame(from + k, q), w, a)
           = Blanked(m, w, from, a, k + 1)
<1> DEFINE d == Blanked(m, w, from, a, k)
           row1 == from + k
           s == CellOffset(row1, w.left)
<1>0. row1 \in Nat /\ row1 - 1 = from + k - 1 /\ row1 = from + (k + 1) - 1
      /\ Width(w) \in Nat /\ s \in Int
  BY WindowSides, Sizes DEF CellOffset
<1>1. BlankRow(d, StackFrame(row1, q), w, a)
        = [i \in 0..Extent - 1 |-> IF i \in s..s + Width(w) - 1 THEN Blank(a) ELSE d[i]]
  BY DEF BlankRow, Fill, RowStart, StackFrame, Blanked
<1>2. ASSUME NEW i \in 0..Extent - 1
      PROVE  (IF i \in s..s + Width(w) - 1 THEN Blank(a) ELSE d[i])
               = Blanked(m, w, from, a, k + 1)[i]
  <2>0. i \in Int
    BY Sizes DEF Extent
  <2>1. i \in s..s + Width(w) - 1 <=> InRow(i, w, row1)
    BY <1>0, <2>0, RowSpan
  <2>2. InRows(i, w, from, row1) <=> InRow(i, w, row1) \/ InRows(i, w, from, row1 - 1)
    <3>0. row1 >= from
      OBVIOUS
    <3> HIDE DEF row1
    <3>1. \A r : r \in from..row1 <=> r = row1 \/ r \in from..row1 - 1
      BY <1>0, <3>0
    <3> QED BY <3>1 DEF InRows
  <2>3. Blanked(m, w, from, a, k + 1)[i] = IF InRows(i, w, from, row1) THEN Blank(a) ELSE m[i]
    BY <1>0 DEF Blanked
  <2>4. d[i] = IF InRows(i, w, from, row1 - 1) THEN Blank(a) ELSE m[i]
    BY <1>0 DEF Blanked
  <2> HIDE DEF d, s, row1
  <2> QED BY <2>1, <2>2, <2>3, <2>4
<1>3. Blanked(m, w, from, a, k + 1) = [i \in 0..Extent - 1 |-> Blanked(m, w, from, a, k + 1)[i]]
  BY DEF Blanked
<1> HIDE DEF d, s, row1
<1>4. BlankRow(d, StackFrame(row1, q), w, a) = Blanked(m, w, from, a, k + 1)
  BY <1>1, <1>2, <1>3
<1> QED BY <1>4 DEF d, row1

LEMMA BlankPhaseIs ==
  ASSUME NEW m \in [0..Extent - 1 -> Cell], NEW w \in Windows,
         NEW from \in Nat, NEW a \in ATTRS, NEW q \in Nat, from + q < BYTE
  PROVE  BlankPhase(m, StackFrame(from, q), w, a) = Blanked(m, w, from, a, q)
<1> DEFINE f == StackFrame(from, q)
           Is(t) == t = [k \in 0..q |-> IF k = 0 THEN m
                                        ELSE BlankRow(t[k - 1], Frame(f, k - 1), w, a)]
           turn == CHOOSE t : Is(t)
           d == [k \in 0..q |-> Blanked(m, w, from, a, k)]
<1>1. Blanked(m, w, from, a, 0) = m
  <2>1. \A i : ~InRows(i, w, from, from + 0 - 1)
    BY DEF InRows
  <2>2. Blanked(m, w, from, a, 0) = [i \in 0..Extent - 1 |-> m[i]]
    BY <2>1 DEF Blanked
  <2>3. m = [i \in 0..Extent - 1 |-> m[i]]
    OBVIOUS
  <2> QED BY <2>2, <2>3
<1>2. ASSUME NEW k \in 1..q
      PROVE  BlankRow(Blanked(m, w, from, a, k - 1), Frame(f, k - 1), w, a)
               = Blanked(m, w, from, a, k)
  <2> DEFINE p == k - 1
  <2>1. p \in Nat /\ p \in 0..q /\ p + 1 = k
    OBVIOUS
  <2> HIDE DEF p
  <2>2. Frame(f, p) = StackFrame(from + p, q - p)
    BY <2>1, FrameAfter
  <2> DEFINE more == q - p
  <2> HIDE DEF more
  <2>3. BlankRow(Blanked(m, w, from, a, p), StackFrame(from + p, more), w, a)
          = Blanked(m, w, from, a, p + 1)
    BY <2>1, BlankTurn
  <2> QED BY <2>1, <2>2, <2>3 DEF more, p
<1>3. Is(d)
  <2>1. ASSUME NEW k \in 0..q
        PROVE  Blanked(m, w, from, a, k)
                 = IF k = 0 THEN m ELSE BlankRow(d[k - 1], Frame(f, k - 1), w, a)
    <3>1. CASE k = 0
      BY <1>1, <3>1
    <3>2. CASE k # 0
      <4>1. k \in 1..q /\ k - 1 \in 0..q
        BY <3>2
      <4>2. d[k - 1] = Blanked(m, w, from, a, k - 1)
        BY <4>1
      <4> QED BY <1>2, <3>2, <4>1, <4>2
    <3> QED BY <3>1, <3>2
  <2>2. d = [k \in 0..q |-> IF k = 0 THEN m ELSE BlankRow(d[k - 1], Frame(f, k - 1), w, a)]
    BY <2>1
  <2> HIDE DEF d, f
  <2> QED BY <2>2
<1>4. Is(turn)
  <2> HIDE DEF Is, d
  <2> QED BY <1>3
<1> HIDE DEF turn
<1> DEFINE S == {k \in Nat : k <= q => turn[k] = Blanked(m, w, from, a, k)}
<1>5. 0 \in S
  <2>1. 0 \in 0..q
    OBVIOUS
  <2>2. turn[0] = m
    BY <1>4, <2>1
  <2> QED BY <1>1, <2>2
<1>6. ASSUME NEW k \in Nat, k \in S PROVE k + 1 \in S
  <2> SUFFICES ASSUME k + 1 <= q PROVE turn[k + 1] = Blanked(m, w, from, a, k + 1)
    OBVIOUS
  <2> DEFINE j == k + 1
  <2>1. j \in 1..q /\ j \in 0..q /\ j # 0 /\ j - 1 = k
    OBVIOUS
  <2>2. turn[k] = Blanked(m, w, from, a, k)
    BY <1>6
  <2> HIDE DEF j, f
  <2>3. turn[j] = BlankRow(turn[j - 1], Frame(f, j - 1), w, a)
    BY <1>4, <2>1
  <2>4. turn[j] = Blanked(m, w, from, a, j)
    BY <1>2, <2>1, <2>2, <2>3
  <2> QED BY <2>4 DEF j
<1>7. \A k \in Nat : k \in S
  <2> HIDE DEF S
  <2> QED BY <1>5, <1>6, Induction
<1>8. turn[q] = Blanked(m, w, from, a, q)
  BY <1>7
<1>9. Count(f) = q
  BY CountIs
<1>10. BlankPhase(m, f, w, a) = turn[q]
  BY <1>9 DEF BlankPhase, turn
<1> QED BY <1>8, <1>10 DEF f

Buffers == [0..Extent - 1 -> Cell]

LEMMA CopiedBuffer ==
  ASSUME NEW m \in Buffers, NEW w \in Windows,
         NEW n \in Nat, n >= 1, NEW q \in Nat, w.top + q + n = w.bottom + 1
  PROVE  RowsCopied(m, w, n, q) \in Buffers
<1> DEFINE low == w.top + q - 1
<1>0. /\ w.top \in Nat /\ low \in Int /\ w.bottom \in 0..ROWS - 1 /\ low + n = w.bottom
      /\ ROWS \in Nat
  <2>1. w.top \in 0..ROWS - 1 /\ w.bottom \in 0..ROWS - 1 /\ ROWS \in Nat
    BY WindowSides, Sizes
  <2> DEFINE t == w.top
             b == w.bottom
  <2>2. t \in 0..ROWS - 1 /\ b \in 0..ROWS - 1 /\ t + q + n = b + 1 /\ low = t + q - 1
    BY <2>1
  <2> HIDE DEF t, b, low
  <2>3. t \in Nat /\ low \in Int /\ b \in 0..ROWS - 1 /\ low + n = b
    BY <2>1, <2>2
  <2> QED BY <2>1, <2>3, Zenon DEF t, b
<1> HIDE DEF low
<1>1. ASSUME NEW i \in 0..Extent - 1, InRows(i, w, w.top, low)
      PROVE  i + n * COLS \in 0..Extent - 1
  <2>1. PICK r \in w.top..low, c \in w.left..w.right : i = CellOffset(r, c)
    BY <1>1 DEF InRows, InRow
  <2>2. r \in Int /\ c \in 0..COLS - 1 /\ c \in Int /\ n \in Int
    <3>1. w.left \in 0..COLS - 1 /\ w.right \in 0..COLS - 1 /\ COLS \in Nat
      BY WindowSides, Sizes
    <3> QED BY <1>0, <2>1, <3>1
  <2>3. i + n * COLS = CellOffset(r + n, c)
    BY <2>1, <2>2, OffsetMoves
  <2>4. r + n \in 0..ROWS - 1
    <3> DEFINE t == w.top
               b == w.bottom
    <3>1. t \in Nat /\ b \in 0..ROWS - 1 /\ r \in t..low /\ low + n = b
      BY <1>0, <2>1
    <3> HIDE DEF t, b
    <3> QED BY <1>0, <3>1
  <2> DEFINE g == r + n
  <2>5. g \in 0..ROWS - 1
    BY <2>4
  <2> HIDE DEF g
  <2>6. CellOffset(g, c) \in 0..Extent - 1
    BY <2>2, <2>5, OffsetInside
  <2> QED BY <2>3, <2>6 DEF g
<1>2. RowsCopied(m, w, n, q)
        = [i \in 0..Extent - 1 |-> IF InRows(i, w, w.top, low) THEN m[i + n * COLS] ELSE m[i]]
  BY DEF RowsCopied, low
<1>3. \A j \in 0..Extent - 1 : m[j] \in Cell
  BY DEF Buffers
<1> QED BY <1>1, <1>2, <1>3 DEF Buffers

LEMMA BlankedBuffer ==
  ASSUME NEW m \in Buffers, NEW w, NEW from, NEW a \in ATTRS, NEW k
  PROVE  Blanked(m, w, from, a, k) \in Buffers
<1>1. Blank(a) \in Cell
  BY DEF Cell
<1> QED BY <1>1 DEF Blanked, Buffers

(* What AH=06 leaves when BL holds zero. *)
CellMoved(m, w, al, a, r, c) ==
  IF r \notin w.top..w.bottom \/ c \notin w.left..w.right THEN m[CellOffset(r, c)]
  ELSE IF al # 0 /\ r + al <= w.bottom THEN m[CellOffset(r + al, c)] ELSE Blank(a)

LEMMA ScrollUpIs ==
  ASSUME NEW m \in Buffers, NEW w \in Windows, NEW al \in Nat, NEW a \in ATTRS
  PROVE  /\ ScrollUp(m, w, al, a, 0) \in Buffers
         /\ \A r \in 0..ROWS - 1, c \in 0..COLS - 1 :
              ScrollUp(m, w, al, a, 0)[CellOffset(r, c)] = CellMoved(m, w, al, a, r, c)
<1> DEFINE top == w.top
           bottom == w.bottom
           rows == bottom - top + 1
           n == IF al # 0 /\ al < rows THEN al ELSE rows
           q == rows - n
           from == top + q
<1>1. /\ top \in 0..ROWS - 1 /\ bottom \in 0..ROWS - 1 /\ top <= bottom
      /\ (bottom - top + 1) % BYTE = bottom - top + 1
      /\ ROWS \in Nat /\ BYTE \in Nat /\ ROWS < BYTE
  BY WindowSides, Sizes
<1>2. rows \in Nat /\ rows >= 1 /\ rows = bottom - top + 1 /\ (bottom - top + 1) % BYTE = rows
      /\ (w.bottom - w.top + 1) % BYTE = rows
  <2> HIDE DEF top, bottom
  <2>1. rows \in Nat /\ rows >= 1 /\ rows = bottom - top + 1 /\ (bottom - top + 1) % BYTE = rows
    BY <1>1
  <2> QED BY <2>1 DEF top, bottom
<1> HIDE DEF rows
<1>3. n \in Nat /\ n >= 1 /\ n <= rows
  BY <1>2
<1>n. n = IF al # 0 /\ al < rows THEN al ELSE rows
  OBVIOUS
<1> HIDE DEF n
<1>4. q \in Nat /\ q = rows - n
  BY <1>2, <1>3
<1> HIDE DEF q
<1>5. /\ top \in Nat /\ top + q < BYTE /\ top + q + n = bottom + 1
      /\ from \in Nat /\ from = top + q /\ from + n < BYTE
  <2> HIDE DEF top, bottom
  <2> QED BY <1>1, <1>2, <1>3, <1>4
<1>6. ScrollUp(m, w, al, a, 0)
        = BlankPhase(CopyPhase(m, StackFrame(top, q), w, n),
                     [Frame(StackFrame(top, q), Count(StackFrame(top, q))) EXCEPT !.rest = n],
                     w, a)
  BY <1>2, Zenon DEF ScrollUp, StackFrame, n, q
<1> HIDE DEF from
<1>7. [Frame(StackFrame(top, q), Count(StackFrame(top, q))) EXCEPT !.rest = n]
        = StackFrame(from, n)
  <2> HIDE DEF top, bottom
  <2>1. Count(StackFrame(top, q)) = q /\ Frame(StackFrame(top, q), q) = StackFrame(from, 0)
    BY <1>4, <1>5, CountIs
  <2> QED BY <2>1 DEF StackFrame
<1> DEFINE mid == RowsCopied(m, w, n, q)
<1>8. mid \in Buffers
  BY <1>3, <1>4, <1>5, CopiedBuffer
<1>9. CopyPhase(m, StackFrame(top, q), w, n) = mid
  BY <1>3, <1>4, <1>5, CopyPhaseIs DEF Buffers
<1> HIDE DEF mid
<1>10. BlankPhase(mid, StackFrame(from, n), w, a) = Blanked(mid, w, from, a, n)
  BY <1>3, <1>5, <1>8, BlankPhaseIs DEF Buffers
<1>11. ScrollUp(m, w, al, a, 0) = Blanked(mid, w, from, a, n)
  BY <1>6, <1>7, <1>9, <1>10
<1>12. Blanked(mid, w, from, a, n) \in Buffers
  BY <1>8, BlankedBuffer
<1>13. ASSUME NEW r \in 0..ROWS - 1, NEW c \in 0..COLS - 1
       PROVE  Blanked(mid, w, from, a, n)[CellOffset(r, c)] = CellMoved(m, w, al, a, r, c)
  <2> DEFINE x == CellOffset(r, c)
             last == from + n - 1
             low == top + q - 1
  <2>1. x \in 0..Extent - 1
    BY OffsetInside
  <2>2. last \in Int /\ low \in Int /\ r \in Nat /\ last = bottom /\ low = from - 1
    <3> HIDE DEF top, bottom
    <3> QED BY <1>1, <1>3, <1>4, <1>5
  <2>3. x = CellOffset(r, c)
    OBVIOUS
  <2>4. Blanked(mid, w, from, a, n)[x] = IF InRows(x, w, from, last) THEN Blank(a) ELSE mid[x]
    BY <2>1 DEF Blanked
  <2>5. mid[x] = IF InRows(x, w, top, low) THEN m[x + n * COLS] ELSE m[x]
    BY <2>1 DEF RowsCopied, mid
  <2> HIDE DEF x, last, low
  <2>6. InRows(x, w, from, last) <=> r \in from..last /\ c \in w.left..w.right
    BY <1>5, <2>2, <2>3, InRowsCell
  <2>7. InRows(x, w, top, low) <=> r \in top..low /\ c \in w.left..w.right
    BY <1>5, <2>2, <2>3, InRowsCell
  <2>8. x + n * COLS = CellOffset(r + n, c)
    <3>1. r \in Int /\ c \in Int /\ n \in Int
      BY <1>3, <2>2, Sizes
    <3> QED BY <2>3, <3>1, OffsetMoves
  <2>9. r \in from..last => r \in top..bottom /\ ~(al # 0 /\ r + al <= bottom)
    <3> HIDE DEF top, bottom
    <3> QED BY <1>1, <1>2, <1>n, <1>4, <1>5, <2>2
  <2>10. r \in top..low => r \in top..bottom /\ al # 0 /\ r + al <= bottom /\ n = al
    <3> HIDE DEF top, bottom
    <3> QED BY <1>1, <1>2, <1>n, <1>4, <1>5, <2>2
  <2>11. r \in top..bottom => r \in top..low \/ r \in from..last
    <3> HIDE DEF top, bottom
    <3> QED BY <1>1, <1>2, <1>3, <1>4, <1>5, <2>2
  <2>12. r \in from..last => r \notin top..low
    <3> HIDE DEF top, bottom
    <3> QED BY <1>1, <1>4, <1>5, <2>2
  <2>13. Blanked(mid, w, from, a, n)[x]
          = IF r \in from..last /\ c \in w.left..w.right THEN Blank(a)
            ELSE IF r \in top..low /\ c \in w.left..w.right THEN m[CellOffset(r + n, c)]
            ELSE m[x]
    BY <2>4, <2>5, <2>6, <2>7, <2>8
  <2>14. CellMoved(m, w, al, a, r, c)
          = IF r \notin top..bottom \/ c \notin w.left..w.right THEN m[x]
            ELSE IF al # 0 /\ r + al <= bottom THEN m[CellOffset(r + al, c)] ELSE Blank(a)
    BY <2>3 DEF CellMoved
  <2>15. Blanked(mid, w, from, a, n)[x] = CellMoved(m, w, al, a, r, c)
    <3>1. CASE c \notin w.left..w.right
      BY <2>13, <2>14, <3>1, Zenon
    <3>2. CASE r \notin top..bottom
      <4>1. r \notin from..last /\ r \notin top..low
        BY <2>9, <2>10, <3>2, Zenon
      <4> QED BY <2>13, <2>14, <3>2, <4>1, Zenon
    <3>3. CASE c \in w.left..w.right /\ r \in from..last
      <4>1. r \in top..bottom /\ ~(al # 0 /\ r + al <= bottom)
        BY <2>9, <3>3, Zenon
      <4> HIDE DEF top, bottom
      <4> QED BY <2>13, <2>14, <3>3, <4>1
    <3>4. CASE c \in w.left..w.right /\ r \in top..low
      <4>1. r \in top..bottom /\ al # 0 /\ r + al <= bottom /\ n = al
        BY <2>10, <3>4, Zenon
      <4>2. r \notin from..last
        BY <2>12, <3>4, Zenon
      <4> HIDE DEF top, bottom
      <4> QED BY <2>13, <2>14, <3>4, <4>1, <4>2
    <3> QED BY <2>11, <3>1, <3>2, <3>3, <3>4, Zenon
  <2> QED BY <2>3, <2>15
<1> QED BY <1>11, <1>12, <1>13

ScreenInv ==
  /\ cells \in Buffers
  /\ row \in 0..ROWS - 1 /\ col \in 0..COLS - 1
  /\ mode \in {"text", "graphics"}
  /\ mode = "text" => crtc = CellOffset(row, col)

LEMMA FillBuffer ==
  ASSUME NEW m \in Buffers, NEW i, NEW n, NEW x \in Cell
  PROVE  Fill(m, i, n, x) \in Buffers
  BY DEF Buffers, Fill

LEMMA ScrolledBuffer ==
  ASSUME NEW m \in Buffers
  PROVE  ScrollScreen(m) \in Buffers
<1>1. WholeScreen \in Windows
  BY Sizes DEF WholeScreen, Windows
<1> DEFINE one == 1
           seven == 7
<1>2. one \in Nat /\ seven \in ATTRS
  BY ScreenAssumptions
<1> HIDE DEF one, seven
<1>3. ScrollUp(m, WholeScreen, one, seven, 0) \in Buffers
  BY <1>1, <1>2, ScrollUpIs
<1> QED BY <1>3 DEF ScrollScreen, one, seven

LEMMA Blanks ==
  ASSUME NEW a \in ATTRS
  PROVE  Blank(a) \in Cell /\ Blank(a) \in {Blank(b) : b \in ATTRS}
  BY DEF Cell

LEMMA CallsKeepCells ==
  ASSUME BLS = {0}, ScreenInv, ScreenNext
  PROVE  cells' \in Buffers /\ row' \in 0..ROWS - 1 /\ col' \in 0..COLS - 1
<1>0. /\ cells \in Buffers /\ row \in 0..ROWS - 1 /\ col \in 0..COLS - 1
      /\ ROWS \in Nat /\ COLS \in Nat /\ BYTE \in Nat /\ ROWS < BYTE /\ COLS < BYTE
      /\ ROWS >= 1 /\ COLS >= 1 /\ 7 \in ATTRS
  BY Sizes, ScreenAssumptions DEF ScreenInv
<1>a. (row + 1) % BYTE = row + 1 /\ (col + 1) % BYTE = col + 1
  BY <1>0
<1>b. ASSUME NEW m \in Buffers, NewLine(m) PROVE cells' \in Buffers /\ row' \in 0..ROWS - 1
  <2> DEFINE down == row + 1
  <2>1. IF down < ROWS THEN row' = down /\ cells' = m
        ELSE row' = ROWS - 1 /\ cells' = ScrollScreen(m)
    BY <1>a, <1>b DEF NewLine
  <2>2. ScrollScreen(m) \in Buffers
    BY ScrolledBuffer
  <2> QED BY <1>0, <2>1, <2>2
<1>1. CASE Teletype(TtyReturn)
  BY <1>0, <1>1 DEF Teletype, TtyReturn
<1>2. CASE Teletype(TtyFeed)
  BY <1>0, <1>b, <1>2 DEF Teletype, TtyFeed
<1>3. CASE Teletype(TtyBack)
  BY <1>0, <1>3 DEF Teletype, TtyBack
<1>4. ASSUME NEW c \in CHARS, NEW a \in ATTRS, Teletype(TtyChar(c, a))
      PROVE  cells' \in Buffers /\ row' \in 0..ROWS - 1 /\ col' \in 0..COLS - 1
  <2> DEFINE x == [ch |-> c, at |-> a]
             m == Fill(cells, CellOffset(row, col), 1, x)
             right == col + 1
  <2>1. m \in Buffers
    <3>1. x \in Cell
      BY DEF Cell
    <3> QED BY <1>0, <3>1, FillBuffer
  <2>2. IF right < COLS THEN col' = right /\ cells' = m /\ UNCHANGED row
        ELSE col' = 0 /\ NewLine(m)
    BY <1>4, <1>a DEF Teletype, TtyChar
  <2> HIDE DEF m
  <2> QED BY <1>0, <1>b, <2>1, <2>2
<1>5. ASSUME NEW r \in 0..ROWS - 1, NEW c \in 0..COLS - 1, SetCursor(r, c)
      PROVE  cells' \in Buffers /\ row' \in 0..ROWS - 1 /\ col' \in 0..COLS - 1
  BY <1>0, <1>5 DEF SetCursor
<1>6. ASSUME NEW c \in CHARS, NEW a \in ATTRS, NEW n \in 0..2, WriteChar(c, a, n)
      PROVE  cells' \in Buffers /\ row' \in 0..ROWS - 1 /\ col' \in 0..COLS - 1
  <2>1. [ch |-> c, at |-> a] \in Cell
    BY DEF Cell
  <2> QED BY <1>0, <1>6, <2>1, FillBuffer DEF WriteChar
<1>7. ASSUME NEW w \in Windows, NEW n \in 0..ROWS + 1, NEW a \in ATTRS, NEW bl \in BLS,
             ScrollCall(w, n, a, bl)
      PROVE  cells' \in Buffers /\ row' \in 0..ROWS - 1 /\ col' \in 0..COLS - 1
  <2>1. bl = 0 /\ n \in Nat
    BY <1>0
  <2>2. ScrollUp(cells, w, n, a, 0) \in Buffers
    BY <1>0, <2>1, ScrollUpIs
  <2> QED BY <1>0, <1>7, <2>1, <2>2 DEF ScrollCall
<1>8. CASE SetGraphics
  BY <1>0, <1>8 DEF SetGraphics
<1>9. CASE SetText
  <2>1. Blank(7) \in Cell
    BY <1>0, Blanks
  <2> QED BY <1>0, <1>9, <2>1, FillBuffer DEF SetText
<1>10. CASE Draw
  BY <1>0, <1>10 DEF Draw
<1> QED BY <1>1, <1>2, <1>3, <1>4, <1>5, <1>6, <1>7, <1>8, <1>9, <1>10 DEF ScreenNext

LEMMA ScreenInvInit == ScreenInit => ScreenInv
<1>1. /\ ROWS \in Nat /\ COLS \in Nat /\ ROWS >= 1 /\ COLS >= 1 /\ Blank(7) \in Cell
  BY Sizes, ScreenAssumptions, Blanks
<1>2. CellOffset(0, 0) = 0
  BY <1>1 DEF CellOffset
<1> QED BY <1>1, <1>2 DEF ScreenInit, ScreenInv, Buffers

LEMMA ScreenInvStep ==
  ASSUME BLS = {0}, ScreenInv, [ScreenNext]_screenVars
  PROVE  ScreenInv'
<1>1. CASE UNCHANGED screenVars
  BY <1>1 DEF screenVars, ScreenInv
<1>2. CASE ScreenNext
  <2>1. cells' \in Buffers /\ row' \in 0..ROWS - 1 /\ col' \in 0..COLS - 1
    BY <1>2, CallsKeepCells
  <2>2. mode' \in {"text", "graphics"} /\ (mode' = "text" => crtc' = CellOffset(row', col'))
    <3>2. CASE \E n \in 0..2, c \in CHARS, a \in ATTRS : WriteChar(c, a, n)
      BY <3>2 DEF WriteChar, ScreenInv
    <3>3. CASE \E w \in Windows, n \in 0..ROWS + 1, a \in ATTRS, bl \in BLS :
                 ScrollCall(w, n, a, bl)
      BY <3>3 DEF ScrollCall, ScreenInv
    <3>4. CASE SetGraphics
      BY <3>4 DEF SetGraphics
    <3>5. CASE SetText
      BY <3>5 DEF SetText, SyncCursor
    <3>6. CASE Draw
      BY <3>6 DEF Draw, ScreenInv
    <3>7. CASE mode' = mode /\ SyncCursor
      BY <3>7 DEF SyncCursor, ScreenInv
    <3>8. \/ (mode' = mode /\ SyncCursor)
          \/ (\E n \in 0..2, c \in CHARS, a \in ATTRS : WriteChar(c, a, n))
          \/ (\E w \in Windows, n \in 0..ROWS + 1, a \in ATTRS, bl \in BLS :
                 ScrollCall(w, n, a, bl))
          \/ SetGraphics \/ SetText \/ Draw
      BY <1>2, Zenon DEF ScreenNext, Teletype, SetCursor
    <3> QED BY <3>2, <3>3, <3>4, <3>5, <3>6, <3>7, <3>8
  <2> QED BY <2>1, <2>2 DEF ScreenInv
<1> QED BY <1>1, <1>2

(* The cell offsets, the wrap of the column and the two loops of scroll_up *)
(* move a window exactly as the header of AH=06 says, as long as the       *)
(* callers leave zero in BL.                                               *)
THEOREM ScrollsExactly ==
  ASSUME BLS = {0}
  PROVE  ScreenSpec => ScrollExact
<1>1. ScreenInit => ScreenInv
  BY ScreenInvInit
<1>2. ScreenInv /\ [ScreenNext]_screenVars => ScreenInv'
  BY ScreenInvStep
<1> DEFINE ExactFor(w, n, a, bl) ==
             \A r \in 0..ROWS - 1, c \in 0..COLS - 1 :
               cells'[CellOffset(r, c)] =
                 IF r \notin w.top..w.bottom \/ c \notin w.left..w.right
                 THEN cells[CellOffset(r, c)]
                 ELSE IF n # 0 /\ r + n <= w.bottom
                      THEN cells[CellOffset(r + n, c)] ELSE Blank(a)
<1>3. ScreenInv =>
        \A w \in Windows, n \in 0..ROWS + 1, a \in ATTRS, bl \in BLS :
          ScrollCall(w, n, a, bl) => ExactFor(w, n, a, bl)
  <2> SUFFICES ASSUME ScreenInv, NEW w \in Windows, NEW n \in 0..ROWS + 1,
                      NEW a \in ATTRS, NEW bl \in BLS, ScrollCall(w, n, a, bl)
               PROVE  ExactFor(w, n, a, bl)
    BY Zenon
  <2>1. bl = 0 /\ n \in Nat /\ cells \in Buffers
    BY Sizes DEF ScreenInv
  <2>2. cells' = ScrollUp(cells, w, n, a, 0)
    BY <2>1 DEF ScrollCall
  <2>3. \A r \in 0..ROWS - 1, c \in 0..COLS - 1 :
          cells'[CellOffset(r, c)] = CellMoved(cells, w, n, a, r, c)
    BY <2>1, <2>2, ScrollUpIs
  <2> QED BY <2>3, Zenon DEF CellMoved
<1>4. ScreenInv /\ [ScreenNext]_screenVars
        => [\A w \in Windows, n \in 0..ROWS + 1, a \in ATTRS, bl \in BLS :
              ScrollCall(w, n, a, bl) => ExactFor(w, n, a, bl)]_screenVars
  BY <1>3
<1> QED BY <1>1, <1>2, <1>4, PTL DEF ScreenSpec, ScrollExact

View(m) == [r \in 1..ROWS |-> [c \in 1..COLS |-> m[CellOffset(r - 1, c - 1)]]]
CursorPlace == IF mode = "text" THEN <<(crtc \div COLS) + 1, (crtc % COLS) + 1>>
         ELSE <<row + 1, col + 1>>

(* What Terminal's operations say of the two refined variables.            *)
Fed(ls, p, b) ==
  IF p[1] < ROWS THEN ls ELSE Append(Tail(ls), [c \in 1..COLS |-> b])
Under(p) == IF p[1] < ROWS THEN p[1] + 1 ELSE ROWS
WrittenAt(ls, p, x) == [ls EXCEPT ![p[1]][p[2]] = x]
Repeated(ls, p, x, n) ==
  [r \in 1..ROWS |-> [c \in 1..COLS |->
     IF ((r - p[1]) * COLS + c - p[2]) \in 0..n - 1 THEN x ELSE ls[r][c]]]
Lifted(ls, w, n, b) ==
  LET k == IF n = 0 THEN w.bottom - w.top + 1 ELSE n
      In(r, c) == r \in w.top..w.bottom /\ c \in w.left..w.right
  IN [r \in 1..ROWS |-> [c \in 1..COLS |->
        IF ~In(r, c) THEN ls[r][c]
        ELSE IF r + k <= w.bottom THEN ls[r + k][c] ELSE b]]
Plain(b) == [r \in 1..ROWS |-> [c \in 1..COLS |-> b]]

LEMMA PutFolded ==
  ASSUME NEW x, NEW b
  PROVE  T!Put(x, b) <=>
           IF CursorPlace[2] < COLS
           THEN View(cells)' = WrittenAt(View(cells), CursorPlace, x)
                /\ CursorPlace' = <<CursorPlace[1], CursorPlace[2] + 1>>
           ELSE View(cells)' = Fed(WrittenAt(View(cells), CursorPlace, x), CursorPlace, b)
                /\ CursorPlace' = <<Under(CursorPlace), 1>>
  BY Zenon DEF T!Put, T!LineFed, T!Lower, T!BlankLine, T!Cols, Fed, Under, WrittenAt, View, CursorPlace

LEMMA ReturnFolded ==
  T!Return <=> CursorPlace' = <<CursorPlace[1], 1>> /\ View(cells)' = View(cells)
  BY Zenon DEF T!Return, View, CursorPlace

LEMMA FeedFolded ==
  ASSUME NEW b
  PROVE  T!Feed(b) <=> View(cells)' = Fed(View(cells), CursorPlace, b)
                       /\ CursorPlace' = <<Under(CursorPlace), CursorPlace[2]>>
  BY Zenon DEF T!Feed, T!LineFed, T!Lower, T!BlankLine, T!Cols, Fed, Under, View, CursorPlace

LEMMA BackFolded ==
  T!Back <=> CursorPlace[2] > 1 /\ CursorPlace' = <<CursorPlace[1], CursorPlace[2] - 1>> /\ View(cells)' = View(cells)
  BY Zenon DEF T!Back, View, CursorPlace

LEMMA GoFolded ==
  T!Go <=> CursorPlace' \in (1..ROWS) \X (1..COLS) /\ View(cells)' = View(cells)
  BY Zenon DEF T!Go, T!Rows, T!Cols, View, CursorPlace

LEMMA ClearFolded ==
  ASSUME NEW b
  PROVE  T!Clear(b) <=> View(cells)' = Plain(b) /\ CursorPlace' = <<1, 1>>
  BY Zenon DEF T!Clear, T!Rows, T!Cols, T!BlankLine, Plain, View, CursorPlace

LEMMA HomeFolded ==
  T!Home <=> CursorPlace' = <<1, 1>> /\ View(cells)' = View(cells)
  BY Zenon DEF T!Home, View, CursorPlace

LEMMA ScrollFolded ==
  ASSUME NEW w, NEW n, NEW b
  PROVE  T!Scroll(w, n, b) <=> View(cells)' = Lifted(View(cells), w, n, b) /\ CursorPlace' = CursorPlace
  BY Zenon DEF T!Scroll, T!Scrolled, T!Rows, T!Cols, Lifted, View, CursorPlace

LEMMA RepeatFolded ==
  ASSUME NEW x, NEW n
  PROVE  T!Repeat(x, n) <=> View(cells)' = Repeated(View(cells), CursorPlace, x, n) /\ CursorPlace' = CursorPlace
  BY Zenon DEF T!Repeat, T!Rows, T!Cols, Repeated, View, CursorPlace

Sheets == [1..ROWS -> [1..COLS -> Cell]]

LEMMA ViewSheet ==
  ASSUME NEW m \in Buffers
  PROVE  /\ View(m) \in Sheets
         /\ \A r \in 1..ROWS, c \in 1..COLS : View(m)[r][c] = m[CellOffset(r - 1, c - 1)]
<1>1. ASSUME NEW r \in 1..ROWS, NEW c \in 1..COLS
      PROVE  m[CellOffset(r - 1, c - 1)] \in Cell
  <2> DEFINE q == r - 1
             e == c - 1
  <2>1. q \in 0..ROWS - 1 /\ e \in 0..COLS - 1
    BY Sizes
  <2> HIDE DEF q, e
  <2>2. CellOffset(q, e) \in 0..Extent - 1
    BY <2>1, OffsetInside
  <2> QED BY <2>2 DEF Buffers, q, e
<1> DEFINE cell(r, c) == m[CellOffset(r - 1, c - 1)]
<1>2. View(m) = [r \in 1..ROWS |-> [c \in 1..COLS |-> cell(r, c)]]
  BY DEF View
<1>3. \A r \in 1..ROWS, c \in 1..COLS : cell(r, c) \in Cell
  BY <1>1
<1>4. \A r \in 1..ROWS, c \in 1..COLS : View(m)[r][c] = cell(r, c)
  BY <1>2
<1> HIDE DEF cell
<1>5. View(m) \in Sheets
  BY <1>2, <1>3 DEF Sheets
<1> QED BY <1>4, <1>5 DEF cell

(* Two sheets with the same cells are the same.                            *)
LEMMA SheetsEqual ==
  ASSUME NEW s \in Sheets, NEW t \in Sheets,
         \A r \in 1..ROWS, c \in 1..COLS : s[r][c] = t[r][c]
  PROVE  s = t
<1>1. ASSUME NEW r \in 1..ROWS PROVE s[r] = t[r]
  <2>1. s[r] \in [1..COLS -> Cell] /\ t[r] \in [1..COLS -> Cell]
    BY DEF Sheets
  <2>2. s[r] = [c \in 1..COLS |-> s[r][c]] /\ t[r] = [c \in 1..COLS |-> t[r][c]]
    BY <2>1
  <2> QED BY <2>2
<1>2. s = [r \in 1..ROWS |-> s[r]] /\ t = [r \in 1..ROWS |-> t[r]]
  BY DEF Sheets
<1> QED BY <1>1, <1>2

(* The cell that is filled is one place of the sheet.                      *)
LEMMA ViewWritten ==
  ASSUME NEW m \in Buffers, NEW r \in 0..ROWS - 1, NEW c \in 0..COLS - 1, NEW x \in Cell
  PROVE  View(Fill(m, CellOffset(r, c), 1, x)) = WrittenAt(View(m), <<r + 1, c + 1>>, x)
<1> DEFINE s == CellOffset(r, c)
           d == Fill(m, s, 1, x)
           u == r + 1
           v == c + 1
           old == View(m)
           new == [old EXCEPT ![u][v] = x]
<1>0. ROWS \in Nat /\ COLS \in Nat /\ s \in Int
  BY Sizes, OffsetInside DEF Extent
<1>1. d \in Buffers
  BY FillBuffer
<1>2. old \in Sheets /\ View(d) \in Sheets
  BY <1>1, ViewSheet
<1>3. u \in 1..ROWS /\ v \in 1..COLS /\ r = u - 1 /\ c = v - 1
  BY <1>0
<1>4. WrittenAt(View(m), <<r + 1, c + 1>>, x) = new
  BY DEF WrittenAt
<1>5. ASSUME NEW i \in 1..ROWS, NEW j \in 1..COLS
      PROVE  View(d)[i][j] = IF i = u /\ j = v THEN x ELSE old[i][j]
  <2> DEFINE p == i - 1
             e == j - 1
             y == CellOffset(p, e)
  <2>1. p \in 0..ROWS - 1 /\ e \in 0..COLS - 1 /\ (p = r <=> i = u) /\ (e = c <=> j = v)
    BY <1>0, <1>3
  <2>2. View(d)[i][j] = d[y] /\ old[i][j] = m[y]
    <3> HIDE DEF d, old, y
    <3>1. View(d)[i][j] = d[CellOffset(i - 1, j - 1)]
      BY <1>1, ViewSheet
    <3>2. View(m)[i][j] = m[CellOffset(i - 1, j - 1)]
      BY ViewSheet
    <3> QED BY <3>1, <3>2 DEF old, y
  <2> HIDE DEF p, e
  <2>3. y \in 0..Extent - 1 /\ y \in Int
    BY <2>1, OffsetInside, Sizes DEF Extent
  <2>4. y = s <=> p = r /\ e = c
    <3>1. p \in Int /\ r \in Int
      BY <2>1, <1>0
    <3> QED BY <2>1, <3>1, OffsetUnique
  <2>5. d[y] = IF y = s THEN x ELSE m[y]
    <3> HIDE DEF y, s
    <3>1. y \in DOMAIN m
      BY <2>3 DEF Buffers
    <3>2. y \in s..s + 1 - 1 <=> y = s
      BY <1>0, <2>3
    <3> QED BY <3>1, <3>2 DEF Fill, d
  <2> HIDE DEF y, s, d, old, u, v
  <2> QED BY <2>1, <2>2, <2>4, <2>5
<1>6. new \in Sheets
  <2> HIDE DEF old, u, v
  <2> QED BY <1>2, <1>3 DEF Sheets
<1>7. \A i \in 1..ROWS, j \in 1..COLS : new[i][j] = IF i = u /\ j = v THEN x ELSE old[i][j]
  <2> HIDE DEF old, u, v
  <2> QED BY <1>2, <1>3 DEF Sheets
<1> HIDE DEF d, new, old, u, v
<1>8. View(d) = new
  BY <1>2, <1>5, <1>6, <1>7, SheetsEqual
<1> QED BY <1>4, <1>8 DEF d, s

(* Filling the whole buffer.                                               *)
LEMMA ViewCleared ==
  ASSUME NEW m \in Buffers, NEW x \in Cell
  PROVE  View(Fill(m, 0, Extent, x)) = Plain(x)
<1> DEFINE d == Fill(m, 0, Extent, x)
<1>1. d \in Buffers
  BY FillBuffer
<1>2. \A i \in 0..Extent - 1 : d[i] = x
  <2>1. Extent \in Nat
    BY Sizes DEF Extent
  <2> HIDE DEF Extent
  <2> QED BY <2>1 DEF Fill, Buffers
<1>3. ASSUME NEW r \in 1..ROWS, NEW c \in 1..COLS PROVE View(d)[r][c] = x
  <2> DEFINE q == r - 1
             e == c - 1
  <2>1. q \in 0..ROWS - 1 /\ e \in 0..COLS - 1
    BY Sizes
  <2>2. View(d)[r][c] = d[CellOffset(q, e)]
    <3> HIDE DEF d
    <3> QED BY <1>1, ViewSheet
  <2> HIDE DEF q, e, d
  <2>3. CellOffset(q, e) \in 0..Extent - 1
    BY <2>1, OffsetInside
  <2> QED BY <1>2, <2>2, <2>3
<1>4. Plain(x) \in Sheets /\ \A r \in 1..ROWS, c \in 1..COLS : Plain(x)[r][c] = x
  BY DEF Plain, Sheets
<1>5. View(d) \in Sheets
  BY <1>1, ViewSheet
<1> HIDE DEF d
<1>6. View(d) = Plain(x)
  BY <1>3, <1>4, <1>5, SheetsEqual
<1> QED BY <1>6 DEF d

(* n copies of a character from the place on.                              *)
LEMMA ViewRepeated ==
  ASSUME NEW m \in Buffers, NEW r \in 0..ROWS - 1, NEW c \in 0..COLS - 1,
         NEW n \in Nat, NEW x \in Cell
  PROVE  View(Fill(m, CellOffset(r, c), n, x)) = Repeated(View(m), <<r + 1, c + 1>>, x, n)
<1> DEFINE s == CellOffset(r, c)
           d == Fill(m, s, n, x)
           old == View(m)
           new == Repeated(old, <<r + 1, c + 1>>, x, n)
<1>0. ROWS \in Nat /\ COLS \in Nat /\ s \in Int
  BY Sizes, OffsetInside DEF Extent
<1>1. d \in Buffers
  BY FillBuffer
<1>2. old \in Sheets /\ View(d) \in Sheets
  BY <1>1, ViewSheet
<1>3. \A i \in 1..ROWS, j \in 1..COLS :
        new[i][j] = IF ((i - (r + 1)) * COLS + j - (c + 1)) \in 0..n - 1 THEN x ELSE old[i][j]
  <2> HIDE DEF old
  <2> QED BY DEF Repeated
<1>4. new \in Sheets
  <2> HIDE DEF old
  <2> QED BY <1>2 DEF Repeated, Sheets
<1>5. ASSUME NEW i \in 1..ROWS, NEW j \in 1..COLS
      PROVE  View(d)[i][j] = new[i][j]
  <2> DEFINE p == i - 1
             e == j - 1
             y == CellOffset(p, e)
             g == (i - (r + 1)) * COLS + j - (c + 1)
  <2>1. p \in 0..ROWS - 1 /\ e \in 0..COLS - 1
    BY <1>0
  <2>2. View(d)[i][j] = d[y] /\ old[i][j] = m[y]
    <3> HIDE DEF d, old, y
    <3>1. View(d)[i][j] = d[CellOffset(i - 1, j - 1)]
      BY <1>1, ViewSheet
    <3>2. View(m)[i][j] = m[CellOffset(i - 1, j - 1)]
      BY ViewSheet
    <3> QED BY <3>1, <3>2 DEF old, y
  <2>3. y \in 0..Extent - 1 /\ y \in Int
    <3> HIDE DEF p, e
    <3> QED BY <2>1, OffsetInside, Sizes DEF Extent
  <2>4. y - s = g
    <3>1. (i - (r + 1)) * COLS = (i - 1) * COLS - r * COLS
      BY <1>0
    <3>2. (i - 1) * COLS \in Int /\ r * COLS \in Int /\ i \in Int /\ j \in Int /\ c \in Int
      BY <1>0
    <3> QED BY <3>1, <3>2 DEF CellOffset
  <2>5. d[y] = IF y \in s..s + n - 1 THEN x ELSE m[y]
    <3> HIDE DEF y, s
    <3>1. y \in DOMAIN m
      BY <2>3 DEF Buffers
    <3> QED BY <3>1 DEF Fill, d
  <2>6. y \in s..s + n - 1 <=> g \in 0..n - 1
    <3> HIDE DEF y, s, g
    <3> QED BY <1>0, <2>3, <2>4
  <2>7. new[i][j] = IF g \in 0..n - 1 THEN x ELSE old[i][j]
    BY <1>3
  <2> HIDE DEF y, s, d, old, g, new
  <2> QED BY <2>2, <2>5, <2>6, <2>7
<1> HIDE DEF d, new, old
<1>6. View(d) = new
  BY <1>2, <1>4, <1>5, SheetsEqual
<1> QED BY <1>6 DEF d, s, new, old

Shifted(w) == [top |-> w.top + 1, left |-> w.left + 1,
               bottom |-> w.bottom + 1, right |-> w.right + 1]

LEMMA ShiftedWindow ==
  ASSUME NEW w \in Windows
  PROVE  Shifted(w) \in T!Window
<1>1. /\ w.top \in 0..ROWS - 1 /\ w.bottom \in 0..ROWS - 1 /\ w.top <= w.bottom
      /\ w.left \in 0..COLS - 1 /\ w.right \in 0..COLS - 1 /\ w.left <= w.right
      /\ ROWS \in Nat /\ COLS \in Nat
  BY WindowSides, Sizes
<1> QED BY <1>1 DEF Shifted, T!Window, T!Rows, T!Cols

(* AH=06 moves the lines of the window.                                    *)
LEMMA ViewLifted ==
  ASSUME NEW m \in Buffers, NEW w \in Windows, NEW al \in Nat, NEW a \in ATTRS
  PROVE  View(ScrollUp(m, w, al, a, 0)) = Lifted(View(m), Shifted(w), al, Blank(a))
<1> DEFINE d == ScrollUp(m, w, al, a, 0)
           old == View(m)
           top == w.top
           bottom == w.bottom
           west == w.left
           east == w.right
           k == IF al = 0 THEN (bottom + 1) - (top + 1) + 1 ELSE al
           new == Lifted(old, Shifted(w), al, Blank(a))
           In(i, j) == i \in (top + 1)..(bottom + 1) /\ j \in (west + 1)..(east + 1)
<1>0. /\ ROWS \in Nat /\ COLS \in Nat
      /\ top \in 0..ROWS - 1 /\ bottom \in 0..ROWS - 1 /\ top <= bottom
      /\ west \in 0..COLS - 1 /\ east \in 0..COLS - 1 /\ west <= east
  BY WindowSides, Sizes
<1>1. d \in Buffers /\ \A r \in 0..ROWS - 1, c \in 0..COLS - 1 :
                          d[CellOffset(r, c)] = CellMoved(m, w, al, a, r, c)
  BY ScrollUpIs
<1>2. old \in Sheets /\ View(d) \in Sheets /\ Blank(a) \in Cell
  <2> HIDE DEF d
  <2> QED BY <1>1, ViewSheet, Blanks
<1>3. new = [i \in 1..ROWS |-> [j \in 1..COLS |->
               IF ~In(i, j) THEN old[i][j]
               ELSE IF i + k <= bottom + 1 THEN old[i + k][j] ELSE Blank(a)]]
  BY DEF Lifted, Shifted
<1> HIDE DEF new, d, old
<1>4. \A i \in 1..ROWS, j \in 1..COLS :
        new[i][j] = IF ~In(i, j) THEN old[i][j]
                    ELSE IF i + k <= bottom + 1 THEN old[i + k][j] ELSE Blank(a)
  <2> HIDE DEF In, top, bottom, west, east, k
  <2> QED BY <1>3
<1>5. ASSUME NEW i \in 1..ROWS, NEW j \in 1..COLS, In(i, j), i + k <= bottom + 1
      PROVE  i + k \in 1..ROWS
  <2> HIDE DEF top, bottom, west, east
  <2> QED BY <1>0, <1>5
<1>6. new \in Sheets
  <2>1. \A i \in 1..ROWS, j \in 1..COLS : old[i][j] \in Cell
    BY <1>2 DEF Sheets
  <2> DEFINE cell(i, j) == IF ~In(i, j) THEN old[i][j]
                           ELSE IF i + k <= bottom + 1 THEN old[i + k][j] ELSE Blank(a)
  <2>2. \A i \in 1..ROWS, j \in 1..COLS : cell(i, j) \in Cell
    <3> HIDE DEF In, top, bottom, west, east, k
    <3> QED BY <1>2, <1>5, <2>1
  <2>3. new = [i \in 1..ROWS |-> [j \in 1..COLS |-> cell(i, j)]]
    BY <1>3
  <2> HIDE DEF cell
  <2> QED BY <2>2, <2>3 DEF Sheets
<1>7. ASSUME NEW i \in 1..ROWS, NEW j \in 1..COLS
      PROVE  View(d)[i][j] = new[i][j]
  <2> DEFINE r == i - 1
             c == j - 1
  <2>1. r \in 0..ROWS - 1 /\ c \in 0..COLS - 1 /\ r \in Int /\ c \in Int
    <3> HIDE DEF top, bottom, west, east
    <3> QED BY <1>0
  <2>2. View(d)[i][j] = d[CellOffset(r, c)] /\ old[i][j] = m[CellOffset(r, c)]
    <3>1. View(d)[i][j] = d[CellOffset(i - 1, j - 1)]
      BY <1>1, ViewSheet
    <3>2. View(m)[i][j] = m[CellOffset(i - 1, j - 1)]
      BY ViewSheet
    <3> QED BY <3>1, <3>2 DEF old
  <2>3. View(d)[i][j] = CellMoved(m, w, al, a, r, c)
    <3> HIDE DEF r, c
    <3> QED BY <1>1, <2>1, <2>2
  <2>4. In(i, j) <=> r \in top..bottom /\ c \in west..east
    <3> HIDE DEF top, bottom, west, east
    <3> QED BY <1>0
  <2>5. ASSUME In(i, j) PROVE (al # 0 /\ r + al <= bottom) <=> i + k <= bottom + 1
    <3> HIDE DEF top, bottom, west, east
    <3> QED BY <1>0, <2>5
  <2>6. ASSUME In(i, j), al # 0, i + k <= bottom + 1
        PROVE  old[i + k][j] = m[CellOffset(r + al, c)]
    <3>1. k = al
      BY <2>6
    <3> HIDE DEF In, top, bottom, west, east, k
    <3> DEFINE g == i + k
    <3>2. g \in 1..ROWS
      BY <1>5, <2>6
    <3>3. g - 1 = r + al
      BY <3>1
    <3> HIDE DEF g
    <3>4. View(m)[g][j] = m[CellOffset(g - 1, j - 1)]
      BY <3>2, ViewSheet
    <3> QED BY <3>3, <3>4 DEF g, old
  <2>7. CellMoved(m, w, al, a, r, c)
          = IF r \notin top..bottom \/ c \notin west..east THEN m[CellOffset(r, c)]
            ELSE IF al # 0 /\ r + al <= bottom THEN m[CellOffset(r + al, c)] ELSE Blank(a)
    BY Zenon DEF CellMoved
  <2>8. new[i][j] = IF ~In(i, j) THEN old[i][j]
                    ELSE IF i + k <= bottom + 1 THEN old[i + k][j] ELSE Blank(a)
    BY <1>4, Zenon
  <2> HIDE DEF In, top, bottom, west, east, k, r, c
  <2>9. CASE ~In(i, j)
    BY <2>2, <2>3, <2>4, <2>7, <2>8, <2>9
  <2>10. CASE In(i, j)
    <3>1. CASE al # 0 /\ r + al <= bottom
      <4>1. i + k <= bottom + 1
        BY <2>5, <2>10, <3>1, Zenon
      <4> QED BY <2>3, <2>4, <2>6, <2>7, <2>8, <2>10, <3>1, <4>1, Zenon
    <3>2. CASE ~(al # 0 /\ r + al <= bottom)
      <4>1. ~(i + k <= bottom + 1)
        BY <2>5, <2>10, <3>2, Zenon
      <4> QED BY <2>3, <2>4, <2>7, <2>8, <2>10, <3>2, <4>1, Zenon
    <3> QED BY <3>1, <3>2
  <2> QED BY <2>9, <2>10
<1>8. View(d) = new
  <2> HIDE DEF In, top, bottom, west, east, k
  <2> QED BY <1>2, <1>6, <1>7, SheetsEqual
<1> QED BY <1>8 DEF d, new, old

(* The scroll at the last row is the line feed of a terminal.              *)
LEMMA ViewFed ==
  ASSUME NEW m \in Buffers
  PROVE  View(ScrollScreen(m)) = Append(Tail(View(m)), [c \in 1..COLS |-> Blank(7)])
<1> DEFINE old == View(m)
           d == ScrollScreen(m)
           line == [c \in 1..COLS |-> Blank(7)]
           rest == Tail(old)
           new == Append(rest, line)
           one == 1
           seven == 7
<1>0. ROWS \in Nat /\ COLS \in Nat /\ ROWS >= 1 /\ COLS >= 1 /\ 7 \in ATTRS
  BY Sizes, ScreenAssumptions
<1>1. WholeScreen \in Windows
  BY Sizes DEF WholeScreen, Windows
<1>2. /\ d \in Buffers
      /\ \A r \in 0..ROWS - 1, c \in 0..COLS - 1 :
           d[CellOffset(r, c)] = CellMoved(m, WholeScreen, 1, 7, r, c)
  <2>1. one \in Nat /\ seven \in ATTRS
    BY <1>0
  <2> HIDE DEF one, seven
  <2>2. /\ ScrollUp(m, WholeScreen, one, seven, 0) \in Buffers
        /\ \A r \in 0..ROWS - 1, c \in 0..COLS - 1 :
             ScrollUp(m, WholeScreen, one, seven, 0)[CellOffset(r, c)]
               = CellMoved(m, WholeScreen, one, seven, r, c)
    BY <1>1, <2>1, ScrollUpIs
  <2> QED BY <2>2 DEF ScrollScreen, one, seven
<1>3. old \in Sheets /\ View(d) \in Sheets /\ Blank(7) \in Cell
  <2> HIDE DEF d
  <2> QED BY <1>0, <1>2, ViewSheet, Blanks
<1>4. line \in [1..COLS -> Cell]
  BY <1>3
<1> DEFINE Line == [1..COLS -> Cell]
<1> HIDE DEF old, d, line
<1>5. old \in Seq(Line) /\ Len(old) = ROWS /\ old # <<>>
  <2> HIDE DEF Line
  <2>1. old \in [1..ROWS -> Line]
    BY <1>3 DEF Sheets, Line
  <2> QED BY <1>0, <2>1
<1> HIDE DEF Line
<1>6. /\ rest \in Seq(Line) /\ Len(rest) = ROWS - 1
      /\ \A i \in 1..ROWS - 1 : rest[i] = old[i + 1]
  BY <1>5, <1>0, HeadTailProperties
<1> HIDE DEF rest
<1>7. /\ new \in Seq(Line) /\ Len(new) = ROWS
      /\ \A i \in 1..ROWS : new[i] = IF i < ROWS THEN old[i + 1] ELSE line
  <2>1. line \in Line
    BY <1>4 DEF Line
  <2>2. /\ new \in Seq(Line) /\ Len(new) = Len(rest) + 1
        /\ \A i \in 1..Len(rest) : new[i] = rest[i]
        /\ new[Len(rest) + 1] = line
    BY <1>6, <2>1, AppendProperties
  <2> HIDE DEF new
  <2>3. Len(rest) + 1 = ROWS /\ Len(rest) = ROWS - 1
    BY <1>6, <1>0
  <2>4. ASSUME NEW i \in 1..ROWS PROVE new[i] = IF i < ROWS THEN old[i + 1] ELSE line
    <3>1. CASE i < ROWS
      <4>1. i \in 1..ROWS - 1
        BY <1>0, <3>1
      <4> QED BY <1>6, <2>2, <2>3, <3>1, <4>1
    <3>2. CASE ~(i < ROWS)
      <4>1. i = ROWS
        BY <1>0, <3>2
      <4> QED BY <2>2, <2>3, <3>2, <4>1
    <3> QED BY <3>1, <3>2
  <2> QED BY <2>2, <2>3, <2>4
<1> HIDE DEF new
<1>8. new \in Sheets
  <2>1. new \in [1..ROWS -> Line]
    <3>1. new \in [1..Len(new) -> Line]
      BY <1>7
    <3> QED BY <1>7, <3>1
  <2> QED BY <2>1 DEF Sheets, Line
<1>9. ASSUME NEW i \in 1..ROWS, NEW j \in 1..COLS PROVE View(d)[i][j] = new[i][j]
  <2> DEFINE r == i - 1
             c == j - 1
  <2>1. r \in 0..ROWS - 1 /\ c \in 0..COLS - 1 /\ r \in Int /\ r + 1 = i
    BY <1>0
  <2>2. View(d)[i][j] = d[CellOffset(r, c)]
    BY <1>2, ViewSheet
  <2>3. d[CellOffset(r, c)] = IF i < ROWS THEN m[CellOffset(i, c)] ELSE Blank(7)
    <3> HIDE DEF c, r
    <3>1. d[CellOffset(r, c)] = CellMoved(m, WholeScreen, 1, 7, r, c)
      BY <1>2, <2>1
    <3>2. /\ WholeScreen.top = 0 /\ WholeScreen.left = 0
          /\ WholeScreen.bottom = ROWS - 1 /\ WholeScreen.right = COLS - 1
      BY DEF WholeScreen
    <3>3. r \in 0..ROWS - 1 /\ c \in 0..COLS - 1 /\ (r + 1 <= ROWS - 1 <=> i < ROWS)
      BY <1>0, <2>1
    <3>4. CellMoved(m, WholeScreen, 1, 7, r, c)
            = IF r \notin 0..ROWS - 1 \/ c \notin 0..COLS - 1 THEN m[CellOffset(r, c)]
              ELSE IF 1 # 0 /\ r + 1 <= ROWS - 1 THEN m[CellOffset(r + 1, c)] ELSE Blank(7)
      BY <3>2, Zenon DEF CellMoved
    <3> QED BY <2>1, <3>1, <3>3, <3>4
  <2>4. CASE i < ROWS
    <3> DEFINE g == i + 1
    <3>1. g \in 1..ROWS /\ g - 1 = i
      BY <1>0, <2>4
    <3> HIDE DEF g
    <3>2. View(m)[g][j] = m[CellOffset(g - 1, j - 1)]
      BY <3>1, ViewSheet
    <3>3. new[i] = old[g]
      BY <1>7, <2>4 DEF g
    <3> QED BY <2>2, <2>3, <2>4, <3>1, <3>2, <3>3 DEF old
  <2>5. CASE ~(i < ROWS)
    <3>1. new[i] = line /\ line[j] = Blank(7)
      BY <1>7, <2>5 DEF line
    <3> QED BY <2>2, <2>3, <2>5, <3>1
  <2> QED BY <2>4, <2>5
<1>10. View(d) = new
  BY <1>3, <1>8, <1>9, SheetsEqual
<1> QED BY <1>10 DEF d, new, rest, old, line

LEMMA PlaceIs == ScreenInv => CursorPlace = <<row + 1, col + 1>>
<1> SUFFICES ASSUME ScreenInv PROVE CursorPlace = <<row + 1, col + 1>>
  OBVIOUS
<1>1. row \in Nat /\ col \in 0..COLS - 1
  BY Sizes DEF ScreenInv
<1>2. CellOffset(row, col) \div COLS = row /\ CellOffset(row, col) % COLS = col
  BY <1>1, OffsetBack
<1>3. mode = "text" => crtc = CellOffset(row, col)
  BY DEF ScreenInv
<1> QED BY <1>2, <1>3 DEF CursorPlace

LEMMA CallsRefine ==
  ASSUME BLS = {0}, ScreenInv, ScreenInv', ScreenNext,
         CursorPlace = <<row + 1, col + 1>>, CursorPlace' = <<row' + 1, col' + 1>>
  PROVE  T!TNext \/ (View(cells)' = View(cells) /\ CursorPlace' = CursorPlace)
<1>0. /\ cells \in Buffers /\ row \in 0..ROWS - 1 /\ col \in 0..COLS - 1
      /\ ROWS \in Nat /\ COLS \in Nat /\ BYTE \in Nat /\ ROWS < BYTE /\ COLS < BYTE
      /\ ROWS >= 1 /\ COLS >= 1 /\ 7 \in ATTRS
      /\ row' \in 0..ROWS - 1 /\ col' \in 0..COLS - 1
  BY Sizes, ScreenAssumptions DEF ScreenInv
<1>a. (row + 1) % BYTE = row + 1 /\ (col + 1) % BYTE = col + 1
  BY <1>0
<1>b. Blank(7) \in {Blank(a) : a \in ATTRS} /\ Blank(7) \in Cell
  BY <1>0, Blanks
<1>c. CursorPlace[1] = row + 1 /\ CursorPlace[2] = col + 1 /\ CursorPlace'[1] = row' + 1 /\ CursorPlace'[2] = col' + 1
  OBVIOUS
<1>d. ASSUME NEW m \in Buffers, NewLine(m)
      PROVE  /\ View(cells)' = Fed(View(m), CursorPlace, Blank(7))
             /\ row' + 1 = Under(CursorPlace)
  <2>1. IF row + 1 < ROWS THEN row' = row + 1 /\ cells' = m
        ELSE row' = ROWS - 1 /\ cells' = ScrollScreen(m)
    BY <1>a, <1>d DEF NewLine
  <2>2. CASE row + 1 < ROWS
    BY <1>c, <2>1, <2>2, <1>0 DEF Fed, Under
  <2>3. CASE ~(row + 1 < ROWS)
    <3>1. View(cells)' = Append(Tail(View(m)), [c \in 1..COLS |-> Blank(7)])
      BY <2>1, <2>3, ViewFed
    <3>2. row' + 1 = ROWS
      BY <1>0, <2>1, <2>3
    <3> QED BY <1>c, <2>3, <3>1, <3>2 DEF Fed, Under
  <2> QED BY <2>2, <2>3
<1>1. CASE Teletype(TtyReturn)
  <2>1. col' = 0 /\ row' = row /\ cells' = cells
    BY <1>1 DEF Teletype, TtyReturn
  <2>2. CursorPlace' = <<CursorPlace[1], 1>> /\ View(cells)' = View(cells)
    BY <1>c, <2>1
  <2> QED BY <2>2, ReturnFolded DEF T!TNext
<1>2. CASE Teletype(TtyFeed)
  <2>1. NewLine(cells) /\ col' = col
    BY <1>2 DEF Teletype, TtyFeed
  <2>2. View(cells)' = Fed(View(cells), CursorPlace, Blank(7)) /\ row' + 1 = Under(CursorPlace)
    BY <1>0, <1>d, <2>1
  <2>3. CursorPlace' = <<Under(CursorPlace), CursorPlace[2]>>
    BY <1>c, <2>1, <2>2
  <2>4. T!Feed(Blank(7))
    BY <2>2, <2>3, FeedFolded
  <2> QED BY <1>b, <2>4 DEF T!TNext
<1>3. CASE Teletype(TtyBack)
  <2>1. col' = (IF col = 0 THEN 0 ELSE col - 1) /\ row' = row /\ cells' = cells
    BY <1>3 DEF Teletype, TtyBack
  <2>2. View(cells)' = View(cells)
    BY <2>1
  <2>3. CASE col = 0
    BY <2>1, <2>2, <2>3
  <2>4. CASE col # 0
    <3>1. CursorPlace[2] > 1 /\ col' + 1 = (col + 1) - 1
      BY <1>0, <1>c, <2>1, <2>4
    <3>2. CursorPlace' = <<CursorPlace[1], CursorPlace[2] - 1>>
      BY <1>c, <2>1, <3>1
    <3> QED BY <2>2, <3>1, <3>2, BackFolded DEF T!TNext
  <2> QED BY <2>3, <2>4
<1>4. ASSUME NEW c \in CHARS, NEW a \in ATTRS, Teletype(TtyChar(c, a)) PROVE T!TNext
  <2> DEFINE x == [ch |-> c, at |-> a]
             m == Fill(cells, CellOffset(row, col), 1, x)
             right == col + 1
  <2>1. x \in Cell
    BY DEF Cell
  <2>2. IF right < COLS THEN col' = right /\ cells' = m /\ UNCHANGED row
        ELSE col' = 0 /\ NewLine(m)
    BY <1>4, <1>a DEF Teletype, TtyChar
  <2> HIDE DEF x
  <2>3. m \in Buffers
    BY <1>0, <2>1, FillBuffer
  <2>4. View(m) = WrittenAt(View(cells), CursorPlace, x)
    BY <1>0, <2>1, ViewWritten
  <2> HIDE DEF m
  <2>5. T!Put(x, Blank(7))
    <3>1. CASE right < COLS
      <4>1. View(cells)' = WrittenAt(View(cells), CursorPlace, x)
        BY <2>2, <2>4, <3>1
      <4>2. CursorPlace' = <<CursorPlace[1], CursorPlace[2] + 1>> /\ CursorPlace[2] < COLS
        BY <1>c, <2>2, <3>1
      <4> QED BY <4>1, <4>2, PutFolded
    <3>2. CASE ~(right < COLS)
      <4>1. View(cells)' = Fed(View(m), CursorPlace, Blank(7)) /\ row' + 1 = Under(CursorPlace)
        BY <1>d, <2>2, <2>3, <3>2
      <4>2. View(cells)' = Fed(WrittenAt(View(cells), CursorPlace, x), CursorPlace, Blank(7))
        BY <2>4, <4>1
      <4>3. CursorPlace' = <<Under(CursorPlace), 1>> /\ ~(CursorPlace[2] < COLS)
        BY <1>c, <2>2, <3>2, <4>1
      <4> QED BY <4>2, <4>3, PutFolded
    <3> QED BY <3>1, <3>2
  <2> QED BY <1>b, <2>1, <2>5 DEF T!TNext
<1>5. ASSUME NEW r \in 0..ROWS - 1, NEW c \in 0..COLS - 1, SetCursor(r, c) PROVE T!TNext
  <2>1. View(cells)' = View(cells)
    BY <1>5 DEF SetCursor
  <2>2. CursorPlace' \in (1..ROWS) \X (1..COLS)
    BY <1>0
  <2> QED BY <2>1, <2>2, GoFolded DEF T!TNext
<1>6. ASSUME NEW c \in CHARS, NEW a \in ATTRS, NEW n \in 0..2, WriteChar(c, a, n)
      PROVE  T!TNext
  <2> DEFINE x == [ch |-> c, at |-> a]
             count == IF n = 0 THEN 1 ELSE n
  <2>1. x \in Cell
    BY DEF Cell
  <2>2. cells' = Fill(cells, CellOffset(row, col), count, x) /\ row' = row /\ col' = col
    BY <1>6 DEF WriteChar
  <2>3. count \in 1..2
    OBVIOUS
  <2> HIDE DEF x, count
  <2>4. View(cells)' = Repeated(View(cells), CursorPlace, x, count)
    <3>1. count \in Nat
      BY <2>3
    <3>2. View(Fill(cells, CellOffset(row, col), count, x))
            = Repeated(View(cells), <<row + 1, col + 1>>, x, count)
      BY <1>0, <2>1, <3>1, ViewRepeated
    <3> QED BY <2>2, <3>2
  <2>5. CursorPlace' = CursorPlace
    BY <2>2
  <2>6. T!Repeat(x, count)
    BY <2>4, <2>5, RepeatFolded
  <2>7. count \in 1..ROWS * COLS + 1
    <3>1. ROWS * COLS >= 1 /\ ROWS * COLS \in Nat
      BY <1>0
    <3> QED BY <2>3, <3>1
  <2> QED BY <2>1, <2>6, <2>7 DEF T!TNext
<1>7. ASSUME NEW w \in Windows, NEW n \in 0..ROWS + 1, NEW a \in ATTRS, NEW bl \in BLS,
             ScrollCall(w, n, a, bl)
      PROVE  T!TNext
  <2>1. bl = 0 /\ n \in Nat
    BY <1>0
  <2>2. cells' = ScrollUp(cells, w, n, a, 0) /\ row' = row /\ col' = col
    BY <1>7, <2>1 DEF ScrollCall
  <2>3. View(cells)' = Lifted(View(cells), Shifted(w), n, Blank(a))
    BY <1>0, <2>1, <2>2, ViewLifted
  <2>4. CursorPlace' = CursorPlace
    BY <2>2
  <2>5. T!Scroll(Shifted(w), n, Blank(a))
    BY <2>3, <2>4, ScrollFolded
  <2>6. Shifted(w) \in T!Window /\ Blank(a) \in {Blank(b) : b \in ATTRS}
    BY ShiftedWindow, Blanks
  <2> QED BY <2>5, <2>6 DEF T!TNext
<1>8. CASE SetGraphics
  <2>1. row' = 0 /\ col' = 0 /\ cells' = cells
    BY <1>8 DEF SetGraphics
  <2>2. CursorPlace' = <<1, 1>> /\ View(cells)' = View(cells)
    BY <2>1
  <2> QED BY <2>2, HomeFolded DEF T!TNext
<1>9. CASE SetText
  <2>1. row' = 0 /\ col' = 0 /\ cells' = Fill(cells, 0, Extent, Blank(7))
    BY <1>9 DEF SetText
  <2>2. View(cells)' = Plain(Blank(7))
    BY <1>0, <1>b, <2>1, ViewCleared
  <2>3. CursorPlace' = <<1, 1>>
    BY <2>1
  <2>4. T!Clear(Blank(7))
    BY <2>2, <2>3, ClearFolded
  <2> QED BY <1>b, <2>4 DEF T!TNext
<1>10. CASE Draw
  <2>1. row' = row /\ col' = col /\ cells' = cells
    BY <1>10 DEF Draw
  <2> QED BY <2>1
<1> QED BY <1>1, <1>2, <1>3, <1>4, <1>5, <1>6, <1>7, <1>8, <1>9, <1>10 DEF ScreenNext

LEMMA InitRefines ==
  ASSUME ScreenInit
  PROVE  View(cells) = Plain(Blank(7)) /\ CursorPlace = <<1, 1>>
<1>1. ScreenInv /\ row = 0 /\ col = 0
  BY ScreenInvInit DEF ScreenInit
<1>2. CursorPlace = <<1, 1>>
  BY <1>1, PlaceIs
<1>3. cells = [i \in 0..Extent - 1 |-> Blank(7)] /\ cells \in Buffers
  BY <1>1 DEF ScreenInit, ScreenInv
<1>4. cells = Fill(cells, 0, Extent, Blank(7))
  <2>1. Extent \in Nat
    BY Sizes DEF Extent
  <2> HIDE DEF Extent
  <2> QED BY <1>3, <2>1 DEF Fill
<1>5. View(Fill(cells, 0, Extent, Blank(7))) = Plain(Blank(7))
  BY <1>3, ViewCleared, Blanks, ScreenAssumptions
<1> QED BY <1>2, <1>4, <1>5

(* Every call of INT 10h does to the screen and to the place of the next   *)
(* character what one operation of a terminal does, or nothing at all.     *)
THEOREM ScreenImplementsTerminal ==
  ASSUME BLS = {0}
  PROVE  ScreenSpec => ImplementsTerminal
<1>1. ScreenInit => ScreenInv
  BY ScreenInvInit
<1>2. ScreenInv /\ [ScreenNext]_screenVars => ScreenInv'
  BY ScreenInvStep
<1>3. ScreenInit => T!TInit
  <2> SUFFICES ASSUME ScreenInit PROVE T!TInit
    OBVIOUS
  <2>1. View(cells) = Plain(Blank(7)) /\ CursorPlace = <<1, 1>>
    BY InitRefines
  <2>2. Blank(7) \in {Blank(a) : a \in ATTRS}
    BY Blanks, ScreenAssumptions
  <2>3. T!TInit <=> (\E b \in {Blank(a) : a \in ATTRS} : View(cells) = Plain(b)) /\ CursorPlace = <<1, 1>>
    BY Zenon DEF T!TInit, T!Rows, T!Cols, T!BlankLine, Plain, View, CursorPlace
  <2> QED BY <2>1, <2>2, <2>3
<1>4. ScreenInv /\ ScreenInv' /\ [ScreenNext]_screenVars
        => T!TNext \/ (View(cells)' = View(cells) /\ CursorPlace' = CursorPlace)
  <2> SUFFICES ASSUME ScreenInv, ScreenInv', [ScreenNext]_screenVars
               PROVE  T!TNext \/ (View(cells)' = View(cells) /\ CursorPlace' = CursorPlace)
    OBVIOUS
  <2>1. CASE ScreenNext
    <3>1. CursorPlace = <<row + 1, col + 1>>
      BY PlaceIs
    <3>2. CursorPlace' = <<row' + 1, col' + 1>>
      <4>1. (ScreenInv => CursorPlace = <<row + 1, col + 1>>)'
        BY PlaceIs, PTL
      <4> QED BY <4>1
    <3> QED BY <2>1, <3>1, <3>2, CallsRefine
  <2>2. CASE UNCHANGED screenVars
    BY <2>2 DEF screenVars, CursorPlace, View
  <2> QED BY <2>1, <2>2
<1>5. ScreenInv /\ ScreenInv' /\ [ScreenNext]_screenVars
        => [T!TNext]_<<View(cells), CursorPlace>>
  BY <1>4
<1>6. ScreenSpec => T!TInit /\ [][T!TNext]_<<View(cells), CursorPlace>>
  BY <1>1, <1>2, <1>3, <1>5, PTL DEF ScreenSpec
<1> QED BY <1>6, PTL DEF ImplementsTerminal, T!TSpec, View, CursorPlace

-----------------------------------------------------------------------------
(* The services do not disturb each other: a behaviour of the BIOS is one  *)
(* of each of them, so what is proved of a part, fairness aside, holds in   *)
(* the whole.                                                              *)
THEOREM BiosIsItsParts ==
  Spec => TypingInit /\ [][TypingNext]_typingVars /\ ScreenSpec /\ DiskSpec
<1>1. Init => TypingInit /\ ScreenInit /\ DiskInit
  BY DEF Init
<1>2. [Next]_vars => [TypingNext]_typingVars
  BY Zenon DEF Next, vars, TypingStep, ScreenStep, DiskStep
<1>3. [Next]_vars => [ScreenNext]_screenVars
  BY Zenon DEF Next, vars, TypingStep, ScreenStep, DiskStep
<1>4. [Next]_vars => [DiskNext]_diskVars
  BY Zenon DEF Next, vars, TypingStep, ScreenStep, DiskStep
<1> QED BY <1>1, <1>2, <1>3, <1>4, PTL DEF Spec, ScreenSpec, DiskSpec
=============================================================================
