------------------------------- MODULE Typing -------------------------------
(***************************************************************************)
(* From the key switch to the program: the PS/2 keyboard, the receiver's   *)
(* FIFO and its one-byte output latch (keyboard_controller.sv), the BIOS's *)
(* interrupt chain INT0 -> type 12 -> INT 09h, the sixteen-entry ring at   *)
(* 40:1E, and INT 16h, beside the timer tick (INT 08h) and INT 1Ah, which  *)
(* share the processor with it (gen_bios.py).                              *)
(*                                                                         *)
(* The keyboard and the timer run beside the processor.  The processor     *)
(* runs the program or a handler; a handler starts only where IF is set,   *)
(* and INT clears IF, so a service runs to its IRET unless it sets IF      *)
(* itself, which only INT 16h's wait does.                                 *)
(*                                                                         *)
(* Frames are whole: the eleven bits, parity and the idle timeout are      *)
(* left out.  B_EXTEND, which nothing reads, and the profiling ring of     *)
(* the tick handler are left out too.                                      *)
(***************************************************************************)
EXTENDS Integers, Sequences, SequencesExt

CONSTANTS
  KFIFO,      \* entries of the receiver's FIFO (32 in the hardware)
  KRING,      \* entries of the BIOS ring (16), of which one stays empty
  KEYS,       \* the keys of this keyboard
  TWORD,      \* 2^16: the range of one word of the tick counter
  MaxPresses  \* bound: key movements of a behaviour

(* The prefixes are no keys. *)
ASSUME TypingAssumptions ==
  /\ KFIFO \in Nat \ {0} /\ KRING \in Nat \ {0, 1} /\ TWORD \in Nat \ {0}
  /\ KEYS \cap {"E0", "F0"} = {}

VARIABLES
  held,    \* keys down
  moves,   \* key movements so far
  wire,    \* frames of the last movement not sent yet
  brk,     \* the receiver has an F0 pending
  fifo,    \* set 1 bytes waiting
  obuf,    \* the byte port 60h reads
  obf,     \* ... and whether it is new: the interrupt request is this level
  hold,    \* the hold-off after a read of port 60h
  hooked,  \* the program has put a handler in front of INT 09h
  mine,    \* what that handler read, or NoByte
  isr,     \* what the processor does of the keyboard's interrupt
  ie,      \* IF
  tickReq, \* timer 0 is asking
  prog,    \* where the program, or the service it called, is
  khead, ktail, kbuf,   \* 40:1A, 40:1C, 40:1E
  shift,   \* the modifier bits of 40:17
  ax,      \* the key INT 16h took out of the ring
  tlo, thi,\* 40:6C and 40:6E
  dx,      \* the low word INT 1Ah has read
  job,     \* what the program is doing: reading keys or telling the time
  due,     \* history: the keys pressed that the program has not got yet
  lost,    \* history: a full FIFO or a full ring has dropped something
  ticked,  \* history: ticks counted
  clock    \* the last answer of INT 1Ah

board == <<held, moves, wire, brk, due>>
latch == <<fifo, obuf, obf, hold>>
ring == <<khead, ktail, kbuf>>
time == <<tlo, thi, ticked>>
reader == <<job, prog, ax, dx, clock>>
typingVars == <<board, latch, ring, time, reader, hooked, mine, isr, ie,
                tickReq, shift, lost>>

Modifiers == KEYS \cap {"shift", "ctrl"}
Locks == KEYS \cap {"caps"}
Extended == KEYS \cap {"up"}
Byte == [rel : BOOLEAN, key : KEYS \cup {"E0"}]
NoByte == [rel |-> FALSE, key |-> "E0"]
Stroke == [key : KEYS, upper : BOOLEAN]
NoStroke == [key |-> CHOOSE k \in KEYS : TRUE, upper |-> FALSE]

TypingInit ==
  /\ held = {} /\ moves = 0 /\ wire = <<>> /\ brk = FALSE
  /\ fifo = <<>> /\ obuf = NoByte /\ obf = FALSE /\ hold = FALSE
  /\ hooked \in BOOLEAN /\ mine = NoByte /\ isr = "none"
  /\ ie = TRUE /\ tickReq = FALSE /\ prog = "app"
  /\ job \in {"keys", "time"}
  /\ khead = 0 /\ ktail = 0 /\ kbuf = [i \in 0..KRING - 1 |-> NoStroke]
  /\ shift = {} /\ ax = NoStroke
  /\ tlo = 0 /\ thi = 0 /\ dx = 0
  /\ due = <<>> /\ lost = FALSE /\ ticked = 0 /\ clock = 0

-----------------------------------------------------------------------------
(* The keyboard, in set 2: a release is F0 and the code, an extended key   *)
(* has E0 in front.                                                        *)

Frames(k, up) ==
  (IF k \in Extended THEN <<"E0">> ELSE <<>>)
    \o (IF up THEN <<"F0">> ELSE <<>>) \o <<k>>

PressKey(k) ==
  /\ job = "keys" /\ wire = <<>> /\ moves < MaxPresses /\ k \notin held
  /\ held' = held \cup {k} /\ moves' = moves + 1 /\ wire' = Frames(k, FALSE)
  /\ due' = IF k \in Modifiers \cup Locks THEN due
            ELSE Append(due, [key |-> k, upper |-> "shift" \in held])
  /\ UNCHANGED <<brk, latch, ring, time, reader, hooked, mine, isr, ie,
                 tickReq, shift, lost>>

ReleaseKey(k) ==
  /\ wire = <<>> /\ moves < MaxPresses /\ k \in held
  /\ held' = held \ {k} /\ moves' = moves + 1 /\ wire' = Frames(k, TRUE)
  /\ UNCHANGED <<brk, due, latch, ring, time, reader, hooked, mine, isr, ie,
                 tickReq, shift, lost>>

(* The receiver has a whole good frame.  F0 becomes the release bit of the *)
(* code that follows, E0 passes through, and a full FIFO drops the byte.   *)
ReceiveFrame ==
  /\ wire # <<>> /\ wire' = Tail(wire)
  /\ brk' = (Head(wire) = "F0")
  /\ LET k == Head(wire)
         b == [rel |-> brk /\ k # "E0", key |-> k]
         room == Len(fifo) < KFIFO
     IN /\ fifo' = IF k # "F0" /\ room THEN Append(fifo, b) ELSE fifo
        /\ lost' = (lost \/ (k # "F0" /\ ~room))
  /\ UNCHANGED <<held, moves, due, obuf, obf, hold, ring, time, reader,
                 hooked, mine, isr, ie, tickReq, shift>>

LoadLatchAtOnce ==
  /\ ~obf /\ fifo # <<>>
  /\ obuf' = Head(fifo) /\ obf' = TRUE /\ fifo' = Tail(fifo)
  /\ UNCHANGED <<board, hold, ring, time, reader, hooked, mine, isr, ie,
                 tickReq, shift, lost>>

(* The latch is refilled only when it is empty and the hold-off is over.   *)
LoadLatch ==
  /\ ~obf /\ ~hold /\ fifo # <<>>
  /\ obuf' = Head(fifo) /\ obf' = TRUE /\ fifo' = Tail(fifo)
  /\ UNCHANGED <<board, hold, ring, time, reader, hooked, mine, isr, ie,
                 tickReq, shift, lost>>

(* HOLD is a millisecond on the board: it outlasts the two reads that a    *)
(* chained handler makes.                                                  *)
HoldEnds ==
  /\ hold /\ isr # "chain"
  /\ hold' = FALSE
  /\ UNCHANGED <<board, fifo, obuf, obf, ring, time, reader, hooked, mine, isr,
                 ie, tickReq, shift, lost>>

(* A read of the data port takes the byte once; the port keeps showing it. *)
ReadPort60 ==
  /\ obf' = FALSE /\ hold' = (hold \/ obf)
  /\ UNCHANGED <<fifo, obuf>>

-----------------------------------------------------------------------------
(* INT 09h. *)

KNext(i) == (i + 1) % KRING

RingPutUnchecked(s) ==
  /\ kbuf' = [kbuf EXCEPT ![ktail] = s] /\ ktail' = KNext(ktail)
  /\ UNCHANGED <<khead, lost>>

(* kbuf_put: a full ring drops the key. *)
RingPut(s) ==
  IF KNext(ktail) = khead
  THEN lost' = TRUE /\ UNCHANGED ring
  ELSE /\ kbuf' = [kbuf EXCEPT ![ktail] = s]
       /\ ktail' = KNext(ktail)
       /\ UNCHANGED <<khead, lost>>

(* What INT 09h does with the byte it read.  A modifier sets or clears its *)
(* bits; a lock key, a prefix and a release go no further; any other key   *)
(* goes into the ring, in the case the modifiers give it.                  *)
ShiftAfter(b, mods) ==
  IF b.key \notin Modifiers THEN mods
  ELSE IF b.rel THEN mods \ {b.key} ELSE mods \cup {b.key}
IsStroke(b) == b.key \notin Modifiers \cup Locks \cup {"E0"} /\ ~b.rel

Int09(b) ==
  /\ shift' = ShiftAfter(b, shift)
  /\ IF IsStroke(b) THEN RingPut([key |-> b.key, upper |-> "shift" \in shift])
                    ELSE UNCHANGED <<ring, lost>>

(* The interrupt is taken: type 12, which issues INT 09h.                  *)
KbdInterrupt ==
  /\ ie /\ obf /\ isr = "none"
  /\ ie' = FALSE /\ isr' = IF hooked THEN "hook" ELSE "bios"
  /\ UNCHANGED <<board, latch, ring, time, reader, hooked, mine, tickReq,
                 shift, lost>>

(* The program's own handler reads the port and chains to the BIOS's.      *)
HookReads ==
  /\ isr = "hook" /\ isr' = "chain"
  /\ mine' = obuf /\ ReadPort60
  /\ UNCHANGED <<board, ring, time, reader, hooked, ie, tickReq, shift, lost>>

BiosReads ==
  /\ isr \in {"bios", "chain"} /\ isr' = "out"
  /\ ReadPort60 /\ Int09(obuf)
  /\ UNCHANGED <<board, time, reader, hooked, mine, ie, tickReq>>

(* The end-of-interrupt write and the two IRETs.  A halted processor goes  *)
(* on after its HLT.                                                       *)
Awake == IF prog = "asleep" THEN "wait" ELSE prog

KbdReturn ==
  /\ isr = "out" /\ isr' = "none" /\ ie' = TRUE
  /\ prog' = Awake /\ mine' = NoByte
  /\ UNCHANGED <<board, latch, ring, time, hooked, tickReq, shift, lost,
                 job, ax, dx, clock>>

-----------------------------------------------------------------------------
(* INT 08h: the timer latches its request, and the handler counts.         *)

TimerFires ==
  /\ ~tickReq /\ tickReq' = TRUE
  /\ UNCHANGED <<board, latch, ring, time, reader, hooked, mine, isr, ie,
                 shift, lost>>

(* While the program reads keys nobody looks at the count: it stays 0.     *)
Counted(x) == IF job = "time" THEN x ELSE 0

(* A word goes round at its limit, and so do the two together. *)
Round(x, limit) == IF x + 1 = limit THEN 0 ELSE x + 1

TickSleepsOn ==
  /\ ie /\ tickReq /\ isr = "none" /\ tickReq' = FALSE
  /\ UNCHANGED <<board, latch, ring, time, reader, hooked, mine, isr, ie, shift,
                 lost>>

Tick ==
  /\ ie /\ tickReq /\ isr = "none"
  /\ tickReq' = FALSE
  /\ tlo' = Counted(Round(tlo, TWORD))
  /\ thi' = Counted(IF Round(tlo, TWORD) = 0 THEN Round(thi, TWORD) ELSE thi)
  /\ ticked' = Counted(Round(ticked, TWORD * TWORD))
  /\ prog' = Awake
  /\ UNCHANGED <<board, latch, ring, hooked, mine, isr, ie, shift, lost,
                 job, ax, dx, clock>>

-----------------------------------------------------------------------------
(* The program calls INT 16h and INT 1Ah; it runs with interrupts enabled. *)

Calls(from, to) == isr = "none" /\ prog = from /\ prog' = to

(* AH=00.  AH=01 makes the same comparison and changes nothing.            *)
ReadKey ==
  /\ job = "keys" /\ Calls("app", "wait") /\ ie' = FALSE
  /\ UNCHANGED <<board, latch, ring, time, hooked, mine, isr, tickReq, shift,
                 lost, job, ax, dx, clock>>

(* i16_wait: the comparison, then STI and HLT if there is nothing. *)
LookForKey ==
  /\ Calls("wait", IF khead # ktail THEN "have" ELSE "sti")
  /\ UNCHANGED <<board, latch, ring, time, hooked, mine, isr, ie, tickReq,
                 shift, lost, job, ax, dx, clock>>

EnableInterrupts ==
  /\ Calls("sti", "hlt") /\ ie' = TRUE
  /\ UNCHANGED <<board, latch, ring, time, hooked, mine, isr, tickReq, shift,
                 lost, job, ax, dx, clock>>

Sleep ==
  /\ Calls("hlt", "asleep")
  /\ UNCHANGED <<board, latch, ring, time, hooked, mine, isr, ie, tickReq,
                 shift, lost, job, ax, dx, clock>>

(* i16_have: the entry is read, and then the head moves past it. *)
TakeKey ==
  /\ Calls("have", "free") /\ ax' = kbuf[khead]
  /\ UNCHANGED <<board, latch, ring, time, hooked, mine, isr, ie, tickReq,
                 shift, lost, job, dx, clock>>

FreeEntry ==
  /\ Calls("free", "app") /\ khead' = KNext(khead)
  /\ ie' = TRUE /\ ax' = NoStroke /\ due' = IF due = <<>> THEN due ELSE Tail(due)
  /\ UNCHANGED <<held, moves, wire, brk, latch, ktail, kbuf, time, hooked, mine, isr, tickReq,
                 shift, lost, job, dx, clock>>

ReadClockEnabled ==
  /\ job = "time" /\ Calls("app", "timelo") /\ UNCHANGED ie
  /\ UNCHANGED <<board, latch, ring, time, hooked, mine, isr, tickReq, shift,
                 lost, job, ax, dx, clock>>

ReadClock ==
  /\ job = "time" /\ Calls("app", "timelo") /\ ie' = FALSE
  /\ UNCHANGED <<board, latch, ring, time, hooked, mine, isr, tickReq, shift,
                 lost, job, ax, dx, clock>>

ReadClockLow ==
  /\ Calls("timelo", "timehi") /\ dx' = tlo
  /\ UNCHANGED <<board, latch, ring, time, hooked, mine, isr, ie, tickReq,
                 shift, lost, job, ax, clock>>

ReadClockHigh ==
  /\ Calls("timehi", "app") /\ clock' = thi * TWORD + dx /\ ie' = TRUE
  /\ UNCHANGED <<board, latch, ring, time, hooked, mine, isr, tickReq, shift,
                 lost, job, ax, dx>>

-----------------------------------------------------------------------------
ProgramSteps ==
  \/ LookForKey \/ EnableInterrupts \/ Sleep \/ TakeKey \/ FreeEntry
  \/ ReadClockLow \/ ReadClockHigh

TypingNext ==
  \/ \E k \in KEYS : PressKey(k) \/ ReleaseKey(k)
  \/ ReceiveFrame \/ LoadLatch \/ HoldEnds
  \/ KbdInterrupt \/ HookReads \/ BiosReads \/ KbdReturn
  \/ TimerFires \/ Tick
  \/ ReadKey \/ ReadClock \/ ProgramSteps

(* The processor does not stop inside a service or a handler, and the      *)
(* timer never stops.  Nothing makes the program call a service, or a      *)
(* finger move.                                                            *)
TypingFairness ==
  /\ WF_typingVars(ProgramSteps)
  /\ WF_typingVars(HookReads \/ BiosReads \/ KbdReturn)
  /\ WF_typingVars(TimerFires) /\ WF_typingVars(Tick)

TypingSpec == TypingInit /\ [][TypingNext]_typingVars /\ TypingFairness

-----------------------------------------------------------------------------
Waiting == [i \in 1..(ktail - khead) % KRING |-> kbuf[(khead + i - 1) % KRING]]

(* Nothing of the keyboard is on its way to the ring. *)
Settled == wire = <<>> /\ fifo = <<>> /\ ~obf /\ isr = "none"

(* Unless a full buffer dropped something, the program gets the keys that  *)
(* were pressed, in the order and the case they were pressed in: the ring  *)
(* holds the oldest of the keys still due, and INT 16h takes the oldest of *)
(* all.  Once nothing is on its way the ring holds all that are due, and   *)
(* 40:17 shows the modifiers that are down.                                *)
KeysInOrder ==
  ~lost => /\ IsPrefix(Waiting, due)
           /\ prog = "free" => due # <<>> /\ ax = Head(due)
           /\ Settled => Waiting = due /\ shift = held \cap Modifiers

(* A handler that reads port 60h and chains to the BIOS, and the BIOS, see *)
(* the same byte (keyboard_controller.sv, "why port 60h is NOT the FIFO"). *)
ChainSeesOneByte == isr = "chain" => obuf = mine

(* INT 1Ah never returns the words of two different times. *)
ClockNotTorn ==
  [][prog = "timehi" /\ prog' = "app" => clock' = ticked]_typingVars

(* A program that waits in INT 16h gets the key that is in the ring, even  *)
(* one that came between the STI and the HLT: the next tick wakes it.      *)
InService == {"wait", "sti", "hlt", "asleep", "have", "free"}
ReaderServed == (prog \in InService /\ khead # ktail) ~> (prog = "app")
=============================================================================
