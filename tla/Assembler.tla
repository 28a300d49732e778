------------------------------ MODULE Assembler ------------------------------
(***************************************************************************)
(* The assembler the BIOS, the boot sector and the kernel are written in   *)
(* (asm86.py): a program calls a method for each instruction, which emits  *)
(* its bytes at once; a reference to a label leaves a hole that resolve    *)
(* fills when all labels are known.  jcc_far is gen_bios.py's.             *)
(***************************************************************************)
EXTENDS Integers, Sequences, SequencesExt

CONSTANTS
  LABELS,    \* labels of the program: a name and a number
  GAPS,      \* lengths of strings and tables between the instructions
  REGS,      \* register numbers used as operands
  IMMS,      \* immediate operands
  DISPS,     \* displacements of memory operands
  ASIZE,     \* bytes of the image
  ORIGIN,    \* the IP of its first byte
  MaxItems   \* bound: calls of the assembler, an instruction with operands
             \* counting for two

ASSUME AssemblerAssumptions ==
  /\ ASIZE \in Nat /\ ORIGIN \in Nat /\ GAPS \subseteq Nat
  /\ REGS \subseteq 0..7 /\ IMMS \subseteq Int /\ DISPS \subseteq Int
  /\ \A l \in LABELS : l[1] # "over"  \* names jcc_far makes up

VARIABLES
  buf,     \* the bytes that instructions have put into the image
  pos,     \* where the next one goes
  labels,  \* label -> place
  fixups,  \* the holes: place, kind, label, end
  status,  \* "open", or what resolve came to: "done" or "error"
  over,    \* history: org has moved back over code
  placed,  \* history: what was asked for, and where it was put
  items    \* calls so far

asmVars == <<buf, pos, labels, fixups, status, over, placed, items>>

Two8 == 256
Two16 == 65536
Word16(x) == <<x % Two8, (x \div Two8) % Two8>>

(* Operands.  A register has a number and its bit w of the opcode (1 for a *)
(* word), a memory operand one of the eight address forms or "direct", and *)
(* a displacement; it counts as a word.                                    *)
Forms == <<"BX+SI", "BX+DI", "BP+SI", "BP+DI", "SI", "DI", "BP", "BX">>
RmOf(form) == (CHOOSE i \in DOMAIN Forms : Forms[i] = form) - 1
RegOps == [form : {"reg"}, n : REGS, w : {0, 1}]
MemOps == [form : Range(Forms) \cup {"direct"}, n : DISPS, w : {1}]

-----------------------------------------------------------------------------
(* Encoding. *)

(* [BP] without a displacement would be the direct form, so it takes the   *)
(* eight-bit displacement zero.                                            *)
ModRM(field, rm) ==
  IF rm.form = "reg" THEN <<192 + 8 * field + rm.n>>
  ELSE IF rm.form = "direct" THEN <<6 + 8 * field>> \o Word16(rm.n)
  ELSE IF rm.n = 0 /\ rm.form # "BP" THEN <<8 * field + RmOf(rm.form)>>
  ELSE IF rm.n \in -128..127
       THEN <<64 + 8 * field + RmOf(rm.form), rm.n % Two8>>
       ELSE <<128 + 8 * field + RmOf(rm.form)>> \o Word16(rm.n)

Imm(x, w) == IF w = 1 THEN Word16(x) ELSE <<x % Two8>>

MovImm(r, x) == <<(176 + 8 * r.w) + r.n>> \o Imm(x, r.w)
MovLoad(r, m) == <<138 + r.w>> \o ModRM(r.n, m)
MovStore(m, r) == <<136 + r.w>> \o ModRM(r.n, m)

Accumulator(d) == d.form = "reg" /\ d.n = 0
AluImmUnsigned(code, d, x) ==
  IF Accumulator(d) THEN <<8 * code + 4 + d.w>> \o Imm(x, d.w)
  ELSE IF d.w = 1 /\ x \in -128..255 THEN <<131>> \o ModRM(code, d) \o <<x % Two8>>
  ELSE <<128 + d.w>> \o ModRM(code, d) \o Imm(x, d.w)

(* The accumulator has a short form, a small immediate of a word operand   *)
(* another; a memory operand is a word.                                    *)
AluImm(code, d, x) ==
  IF Accumulator(d) THEN <<8 * code + 4 + d.w>> \o Imm(x, d.w)
  ELSE IF d.w = 1 /\ x \in -128..127 THEN <<131>> \o ModRM(code, d) \o <<x % Two8>>
  ELSE <<128 + d.w>> \o ModRM(code, d) \o Imm(x, d.w)

(* INC is 0 and DEC is 1; a word register has a form of one byte. *)
IncDec(sub, d) ==
  IF d.form = "reg" /\ d.w = 1 THEN <<64 + 8 * sub + d.n>>
  ELSE <<254 + d.w>> \o ModRM(sub, d)

(* MUL is 4 and DIV is 6; SHL is 4 and SHR is 5. *)
Unary(sub, d) == <<246 + d.w>> \o ModRM(sub, d)
Shift(sub, d, count) ==
  IF count = 1 THEN <<208 + d.w>> \o ModRM(sub, d)
  ELSE <<192 + d.w>> \o ModRM(sub, d) \o <<count>>

Nowhere == [form |-> "direct", n |-> 0, w |-> 1]
Ins(op, d, x) == [op |-> op, d |-> d, m |-> Nowhere, x |-> x]
MemIns(op, d, m) == [op |-> op, d |-> d, m |-> m, x |-> 0]
DataIns ==
  {MemIns(op, d, m) : op \in {"load", "store"}, d \in RegOps, m \in MemOps} \cup
  {Ins("mov", d, x) : d \in RegOps, x \in IMMS} \cup
  {Ins("cmp", d, x) : d \in RegOps \cup MemOps, x \in IMMS} \cup
  {Ins(op, d, 0) : op \in {"dec", "mul"}, d \in RegOps \cup MemOps} \cup
  {Ins("shr", d, x) : d \in RegOps, x \in {1, 4}}

Encoded(i) ==
  IF i.op = "mov" THEN MovImm(i.d, i.x)
  ELSE IF i.op = "load" THEN MovLoad(i.d, i.m)
  ELSE IF i.op = "store" THEN MovStore(i.m, i.d)
  ELSE IF i.op = "cmp" THEN AluImm(7, i.d, i.x)
  ELSE IF i.op = "dec" THEN IncDec(1, i.d)
  ELSE IF i.op = "mul" THEN Unary(4, i.d)
  ELSE Shift(5, i.d, i.x)

(* An instruction with a reference: its opcode, and the kind of its hole   *)
RefOps == {"jc", "jnc", "jmp", "jmps", "call", "loop", "offset"}
Refer(op, l) == [op |-> op, label |-> l]
Opcode(op) ==
  IF op = "jc" THEN 114 ELSE IF op = "jnc" THEN 115 ELSE IF op = "jmp" THEN 233
  ELSE IF op = "jmps" THEN 235 ELSE IF op = "call" THEN 232
  ELSE IF op = "loop" THEN 226 ELSE 184
Short == {"jc", "jnc", "jmps", "loop"}
Kind(op) == IF op \in Short THEN "rel8"
            ELSE IF op = "offset" THEN "abs16" ELSE "rel16"
HoleOf(kind) == IF kind = "rel8" THEN 1 ELSE 2

-----------------------------------------------------------------------------
AsmInit ==
  /\ buf = <<>> /\ pos = 0 /\ labels = <<>> /\ fixups = <<>>
  /\ status = "open" /\ over = FALSE /\ placed = <<>> /\ items = 0

Here == ORIGIN + pos

(* What is put at a place, over what was there *)
WriteAt(f, at, bytes) ==
  [a \in DOMAIN f \cup at..at + Len(bytes) - 1 |->
     IF a \in at..at + Len(bytes) - 1 THEN bytes[a - at + 1] ELSE f[a]]

Calling(n) ==
  status = "open" /\ items + n <= MaxItems /\ items' = items + n

(* db: an image that is full raises. *)
EmitAll(bytes) ==
  /\ pos + Len(bytes) <= ASIZE
  /\ buf' = WriteAt(buf, pos, bytes) /\ pos' = pos + Len(bytes)

Emit(i) ==
  /\ Calling(2) /\ EmitAll(Encoded(i))
  /\ placed' = Append(placed, [at |-> pos, i |-> i])
  /\ UNCHANGED <<labels, fixups, status, over>>

Hole(at, op, l) ==
  [at |-> at + 1, kind |-> Kind(op), label |-> l,
   end |-> ORIGIN + at + 1 + HoleOf(Kind(op))]
RefBytes(op) == <<Opcode(op)>> \o [k \in 1..HoleOf(Kind(op)) |-> 0]

EmitRef(op, l) ==
  /\ Calling(1) /\ EmitAll(RefBytes(op))
  /\ fixups' = Append(fixups, Hole(pos, op, l))
  /\ placed' = Append(placed, [at |-> pos, i |-> Refer(op, l)])
  /\ UNCHANGED <<labels, status, over>>

(* A label has one place. *)
Labelled(l, ip) ==
  /\ l \notin DOMAIN labels
  /\ labels' = [m \in DOMAIN labels \cup {l} |-> IF m = l THEN ip ELSE labels[m]]

(* jcc_far: the inverse condition jumps over a near jump. *)
Opposite(cc) == IF cc = "jc" THEN "jnc" ELSE "jc"
EmitFar(cc, l) ==
  LET skip == <<"over", Here>>
  IN /\ Calling(1) /\ EmitAll(RefBytes(Opposite(cc)) \o RefBytes("jmp"))
     /\ fixups' = fixups \o <<Hole(pos, Opposite(cc), skip), Hole(pos + 2, "jmp", l)>>
     /\ Labelled(skip, Here + 5)
     /\ placed' = placed \o <<[at |-> pos, i |-> Refer(Opposite(cc), skip)],
                              [at |-> pos + 2, i |-> Refer("jmp", l)]>>
     /\ UNCHANGED <<status, over>>

Label(l) ==
  /\ Calling(1) /\ Labelled(l, Here)
  /\ UNCHANGED <<buf, pos, fixups, status, over, placed>>

(* dz, dw and db of n bytes *)
Gap(n) ==
  /\ Calling(1) /\ pos + n <= ASIZE /\ pos' = pos + n
  /\ UNCHANGED <<buf, labels, fixups, status, over, placed>>

(* org goes anywhere in the image, over what is there too. *)
Org(o) ==
  /\ Calling(1) /\ o \in 0..ASIZE /\ pos' = o /\ over' = (over \/ o < pos)
  /\ UNCHANGED <<buf, labels, fixups, status, placed>>

(* resolve: the holes are filled one after the other; the first label that *)
(* is missing and the first short jump that is too long end it.            *)
Fits(h) == h.label \in DOMAIN labels
           /\ (h.kind = "rel8" => labels[h.label] - h.end \in -128..127)
Filling(h) ==
  IF h.kind = "rel8" THEN <<(labels[h.label] - h.end) % Two8>>
  ELSE Word16(IF h.kind = "rel16" THEN labels[h.label] - h.end ELSE labels[h.label])
Patched(n) ==
  LET after[k \in 0..n] ==
        IF k = 0 THEN buf ELSE WriteAt(after[k - 1], fixups[k].at, Filling(fixups[k]))
  IN after[n]
Resolve ==
  /\ status = "open"
  /\ \E n \in 0..Len(fixups) :
       /\ \A k \in 1..n : Fits(fixups[k])
       /\ n < Len(fixups) => ~Fits(fixups[n + 1])
       /\ status' = IF n = Len(fixups) THEN "done" ELSE "error"
       /\ buf' = Patched(n)
  /\ UNCHANGED <<pos, labels, fixups, over, placed, items>>

AsmNext ==
  \/ \E i \in DataIns : Emit(i)
  \/ \E op \in RefOps, l \in LABELS : EmitRef(op, l)
  \/ \E cc \in {"jc", "jnc"}, l \in LABELS : EmitFar(cc, l)
  \/ \E l \in LABELS : Label(l)
  \/ \E n \in GAPS : Gap(n) \/ Org(n)
  \/ Resolve

AsmSpec == AsmInit /\ [][AsmNext]_asmVars

-----------------------------------------------------------------------------
(* The 80186's own reading of an image f: the reference.                   *)

Signed8(b) == IF b < 128 THEN b ELSE b - Two8
WordAt(f, a) == f[a] + Two8 * f[a + 1]
ImmAt(f, a, w) == IF w = 1 THEN WordAt(f, a) ELSE f[a]

(* The operand a ModRM byte at a stands for, and the bytes it takes *)
Read(form, n, w, len) == [o |-> [form |-> form, n |-> n, w |-> w], len |-> len]
OperandAt(f, a, w) ==
  LET mod == f[a] \div 64
      rm == f[a] % 8
  IN IF mod = 3 THEN Read("reg", rm, w, 1)
     ELSE IF mod = 0 /\ rm = 6 THEN Read("direct", WordAt(f, a + 1), w, 3)
     ELSE IF mod = 0 THEN Read(Forms[rm + 1], 0, w, 1)
     ELSE IF mod = 1 THEN Read(Forms[rm + 1], Signed8(f[a + 1]) % Two16, w, 2)
     ELSE Read(Forms[rm + 1], WordAt(f, a + 1), w, 3)
FieldAt(f, a) == (f[a] \div 8) % 8

Register(n, w) == [form |-> "reg", n |-> n, w |-> w]
To(op, ip) == [op |-> op, target |-> ip % Two16]
Unknown == [op |-> "unknown"]

(* An instruction whose operand has the field given, or none *)
Group(f, a, field, ins) == IF FieldAt(f, a + 1) = field THEN ins ELSE Unknown

DecodedAt(f, a) ==
  LET b == f[a]
      w == b % 2
      m == OperandAt(f, a + 1, w)
      after == a + 1 + m.len
      reg == Register(FieldAt(f, a + 1), w)
      near == ORIGIN + a + 2 + Signed8(f[a + 1])
  IN IF b \in 176..183 THEN Ins("mov", Register(b - 176, 0), f[a + 1])
     ELSE IF b \in 184..191 THEN Ins("mov", Register(b - 184, 1), WordAt(f, a + 1))
     ELSE IF b \in 138..139 THEN MemIns("load", reg, m.o)
     ELSE IF b \in 136..137 THEN MemIns("store", reg, m.o)
     ELSE IF b \in 60..61 THEN Ins("cmp", Register(0, w), ImmAt(f, a + 1, w))
     ELSE IF b = 131 THEN Group(f, a, 7, Ins("cmp", m.o, Signed8(f[after]) % Two16))
     ELSE IF b \in 128..129 THEN Group(f, a, 7, Ins("cmp", m.o, ImmAt(f, after, w)))
     ELSE IF b \in 72..79 THEN Ins("dec", Register(b - 72, 1), 0)
     ELSE IF b \in 254..255 THEN Group(f, a, 1, Ins("dec", m.o, 0))
     ELSE IF b \in 246..247 THEN Group(f, a, 4, Ins("mul", m.o, 0))
     ELSE IF b \in 208..209 THEN Group(f, a, 5, Ins("shr", m.o, 1))
     ELSE IF b \in 192..193 THEN Group(f, a, 5, Ins("shr", m.o, f[after]))
     ELSE IF b = 114 THEN To("jc", near)
     ELSE IF b = 115 THEN To("jnc", near)
     ELSE IF b = 235 THEN To("jmps", near)
     ELSE IF b = 226 THEN To("loop", near)
     ELSE IF b = 233 THEN To("jmp", ORIGIN + a + 3 + WordAt(f, a + 1))
     ELSE IF b = 232 THEN To("call", ORIGIN + a + 3 + WordAt(f, a + 1))
     ELSE Unknown

(* What was asked for, with labels and numbers as the processor sees them *)
OperandMeant(o, w) ==
  [form |-> o.form, n |-> IF o.form = "reg" THEN o.n ELSE o.n % Two16, w |-> w]
Meant(i) ==
  IF i.op = "offset" THEN Ins("mov", Register(0, 1), labels[i.label] % Two16)
  ELSE IF i.op \in RefOps THEN To(i.op, labels[i.label])
  ELSE IF i.op \in {"load", "store"}
       THEN MemIns(i.op, i.d, OperandMeant(i.m, i.d.w))
  ELSE Ins(i.op, OperandMeant(i.d, i.d.w),
           IF i.op = "shr" THEN i.x ELSE i.x % (IF i.d.w = 1 THEN Two16 ELSE Two8))

(* The processor reads, at the place of each call, the instruction that    *)
(* was asked for, with its jumps going to their labels, however labels,    *)
(* holes and gaps lie, unless org went back over code.  When every label   *)
(* is there, resolve refuses nothing but a short jump that the program     *)
(* wrote as one: jcc_far always reaches (gen_bios.py, "A conditional       *)
(* branch beyond rel8 range").                                             *)
TooFar(p) == /\ p.i.op \in Short /\ p.i.label \in LABELS
             /\ labels[p.i.label] - (ORIGIN + p.at + 2) \notin -128..127
Disassembles ==
  /\ status = "done" /\ ~over =>
       \A k \in DOMAIN placed : DecodedAt(buf, placed[k].at) = Meant(placed[k].i)
  /\ status = "error" /\ (\A h \in Range(fixups) : h.label \in DOMAIN labels) =>
       \E k \in DOMAIN placed : TooFar(placed[k])
=============================================================================
