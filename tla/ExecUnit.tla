------------------------------ MODULE ExecUnit ------------------------------
(***************************************************************************)
(* The sequencer of src/modules/execUnit.sv: where instructions start and  *)
(* end, what is fetched next, when an interrupt is let in.                 *)
(*                                                                         *)
(* EuClock is one clock of the sequencer, one action per state.  Bytes     *)
(* arriving in the prefetch queue, interrupt requests and NMI edges are    *)
(* actions of their own: a clock reads only what was registered before it, *)
(* so an arrival at the same edge is one just before or just after.        *)
(*                                                                         *)
(* Any program is run: what the bytes at the head of the queue say is      *)
(* chosen when they are looked at.  What an instruction computes is left   *)
(* out, except CX, which REP counts down, and IF.  Kept from the queue is  *)
(* the address of its first byte and how many there are; that they are the *)
(* bytes at that address is CpuBus's InstructionStream.                    *)
(***************************************************************************)
EXTENDS Integers, Sequences

CONSTANTS
  SPACE,               \* number of instruction addresses; they wrap
  QUEUE,               \* bytes the prefetch queue holds (6)
  CX_MAX,              \* the count a program loads for REP
  MAX_NEST,            \* bound: interrupts pending or being handled at once
  None                 \* no prediction, no jump

ASSUME ExecAssumptions ==
  /\ SPACE \in Nat \ {0} /\ QUEUE \in Nat \ {0}
  /\ CX_MAX \in Nat /\ MAX_NEST \in Nat
  /\ None \notin 0 .. SPACE - 1

Addrs      == 0 .. SPACE - 1
plus(a, n) == (a + n) % SPACE

(* A register is given a fixed value where nothing will read it again.     *)

(* The shapes of instruction the sequencer tells apart: a prefix or none,  *)
(* then an opcode, then for some a second byte.                            *)
Ops    == {"mov", "movcx", "jcc", "jmp", "lds", "str", "hlt", "cli", "sti",
           "iret", "int"}
Instrs == [pfx : {"none", "seg", "rep"}, op : Ops]
has_modrm(op) == op \in {"jcc", "jmp", "lds"}
dl_len(i)     == (IF i.pfx = "none" THEN 1 ELSE 2) + (IF has_modrm(i.op) THEN 1 ELSE 0)

VARIABLES
  state, ip_next, instr_start_ip, prefix_seen, block_int_once,
  iclass, rep_en,      \* the instruction in the machine
  spec,                \* spec_taken and spec_target
  early_fetch,
  jump,                \* do_jump and jump_target
  int_ret_ip, int_from_intr, nmi_pending, intr_req,
  IF_flag,
  cx, cx_r, str_dirty,
  q,                   \* the prefetch queue: address of its head, length
  stack,               \* the return frames on the program's stack
  nextInstr,           \* history: where the program goes on
  moved,               \* history: string elements moved since CX was loaded
  shadow               \* history: a segment register was loaded, and no
                       \* instruction has started since

strVars  == <<cx, cx_r, str_dirty, moved>>
intVars  == <<int_ret_ip, int_from_intr, nmi_pending, intr_req, IF_flag, stack>>
decode   == <<instr_start_ip, prefix_seen, iclass, rep_en>>
flow     == <<spec, early_fetch, jump>>
vars     == <<state, ip_next, block_int_once, decode, flow, intVars, strVars,
              q, nextInstr, shadow>>
-----------------------------------------------------------------------------
hw_int_ready == nmi_pending \/ (intr_req /\ IF_flag)

fetch_valid == q.count > 0
dl_valid(i) == q.count >= dl_len(i)

(* A prefix counts only if a byte is there to be one.  IRET ends a handler.*)
prefixAhead(i) == fetch_valid /\ i.pfx # "none"
ahead == {i \in Instrs : i.op = "iret" => stack # <<>>}

fast_hereMissingInterrupts(i) == dl_valid(i) /\ ~prefix_seen /\ ~block_int_once
fast_here(i) == dl_valid(i) /\ ~prefix_seen /\ ~block_int_once /\ ~hw_int_ready

mayOverlap == jump = None /\ spec = None

(* No interrupt between a prefix, or a segment load, and what follows it.  *)
shieldedByLoadOnly == block_int_once
shielded == block_int_once \/ prefix_seen

redirectTo(a) == q' = [head |-> a, count |-> 0]
popped(n)     == q' = [head |-> plus(q.head, n), count |-> q.count - n]

(* A whole instruction taken from the queue, with whatever the predictor   *)
(* has for its address: any target, or none (bpred.sv is only a hint).     *)
StartInstr(i) ==
  /\ state' = "S_PREP"
  /\ iclass' = i.op /\ rep_en' = (i.pfx = "rep")
  /\ instr_start_ip' = ip_next /\ ip_next' = plus(ip_next, dl_len(i))
  /\ prefix_seen' = FALSE /\ int_from_intr' = FALSE /\ jump' = None
  /\ spec' \in Addrs \cup {None}
  /\ IF spec' # None THEN redirectTo(spec') ELSE popped(dl_len(i))
  /\ nextInstr' = IF i.op = "str" /\ rep_en' THEN ip_next ELSE ip_next'
  /\ shadow' = FALSE

(* S_START: the first fetch after reset.                                   *)
Start ==
  /\ state = "S_START" /\ state' = "S_FETCH_OP"
  /\ ip_next' = 0 /\ redirectTo(0)
  /\ UNCHANGED <<block_int_once, decode, flow, intVars, strVars, nextInstr, shadow>>

(* S_FETCH_OP, lines 1395-1496.  Its branches share these resets.          *)
FetchKeepsPrediction == UNCHANGED spec /\ jump' = None
FetchResets == spec' = None /\ jump' = None

boundary == instr_start_ip' = IF prefix_seen THEN instr_start_ip ELSE ip_next

FetchWhole(i) ==
  /\ state = "S_FETCH_OP" /\ fast_here(i) /\ StartInstr(i)
  /\ UNCHANGED <<block_int_once, early_fetch, int_ret_ip, nmi_pending, intr_req,
                 IF_flag, stack, strVars>>

slow(i) == state = "S_FETCH_OP" /\ ~fast_here(i)

fetchKept == <<early_fetch, int_ret_ip, nmi_pending, intr_req, IF_flag, stack, strVars>>

FetchPrefix(i) ==
  /\ slow(i) /\ prefixAhead(i)
  /\ FetchResets /\ boundary /\ int_from_intr' = FALSE
  /\ ip_next' = plus(ip_next, 1) /\ popped(1)
  /\ prefix_seen' = TRUE
  /\ rep_en' = (i.pfx = "rep" \/ (prefix_seen /\ rep_en))
  /\ UNCHANGED <<state, block_int_once, iclass, fetchKept, nextInstr, shadow>>

(* The opcode byte is taken and the rest of the instruction follows it.    *)
takeOpcode(i) ==
  /\ iclass' = i.op
  /\ ip_next' = plus(ip_next, 1) /\ popped(1)
  /\ nextInstr' = IF i.op = "str" /\ rep_en' THEN instr_start_ip'
                  ELSE plus(ip_next, IF has_modrm(i.op) THEN 2 ELSE 1)
  /\ shadow' = FALSE

notTaken == UNCHANGED <<state, ip_next, iclass, q, nextInstr, shadow>>

FetchShadowed(i) ==
  /\ slow(i) /\ ~prefixAhead(i) /\ shielded
  /\ FetchResets /\ boundary /\ int_from_intr' = FALSE
  /\ rep_en' = (prefix_seen /\ rep_en)
  /\ block_int_once' = FALSE /\ UNCHANGED prefix_seen
  /\ IF fetch_valid THEN takeOpcode(i) /\ state' = "S_MODRM" ELSE notTaken
  /\ UNCHANGED fetchKept

(* NMI outranks INTR.  A byte at the head is popped all the same (line     *)
(* 1003); the redirect to the handler discards what is left.               *)
acceptInterrupt ==
  /\ int_ret_ip' = ip_next
  /\ nmi_pending' = FALSE /\ int_from_intr' = ~nmi_pending
  /\ state' = "S_INT_PREP"

FetchInterrupt(i) ==
  /\ slow(i) /\ ~prefixAhead(i) /\ ~shielded
  /\ hw_int_ready /\ acceptInterrupt
  /\ FetchResets /\ boundary /\ rep_en' = FALSE
  /\ popped(IF fetch_valid THEN 1 ELSE 0)
  /\ UNCHANGED <<ip_next, block_int_once, prefix_seen, iclass, early_fetch,
                 intr_req, IF_flag, stack, strVars, nextInstr, shadow>>

FetchPlain(i) ==
  /\ slow(i) /\ ~prefixAhead(i) /\ ~shielded /\ ~hw_int_ready
  /\ FetchResets /\ boundary /\ int_from_intr' = FALSE /\ rep_en' = FALSE
  /\ IF fetch_valid
       THEN takeOpcode(i) /\ state' = IF has_modrm(i.op) THEN "S_MODRM" ELSE "S_PREP"
       ELSE notTaken
  /\ UNCHANGED <<block_int_once, prefix_seen, fetchKept>>

Modrm ==
  /\ state = "S_MODRM" /\ prefix_seen' = FALSE
  /\ IF ~has_modrm(iclass) \/ fetch_valid
       THEN LET n == IF has_modrm(iclass) THEN 1 ELSE 0 IN
            state' = "S_PREP" /\ ip_next' = plus(ip_next, n) /\ popped(n)
       ELSE UNCHANGED <<state, ip_next, q>>
  /\ UNCHANGED <<instr_start_ip, iclass, rep_en, block_int_once, flow, intVars,
                 strVars, nextInstr, shadow>>
-----------------------------------------------------------------------------
(* S_PREP.  The target of an unconditional near jump is known here, and    *)
(* fetching starts there (lines 525-550, 1121-1127); it is registered as   *)
(* jump_target one state later, before anything looks.                     *)
Prep ==
  /\ state = "S_PREP" /\ state' = "S_EXEC"
  /\ \/ /\ iclass = "jmp"
        /\ jump' \in Addrs /\ redirectTo(jump') /\ early_fetch' = TRUE
     \/ iclass # "jmp" /\ UNCHANGED <<jump, early_fetch, q>>
  /\ UNCHANGED <<ip_next, block_int_once, decode, spec, intVars, strVars,
                 nextInstr, shadow>>

(* S_EXEC, with the states that follow it up to the next decision.         *)
executing(op, then) ==
  /\ state = "S_EXEC" /\ iclass = op /\ state' = then
  /\ UNCHANGED <<ip_next, block_int_once, decode, spec, early_fetch, int_from_intr,
                 nmi_pending, IF_flag, q, shadow>>

(* Only the instruction being executed can mask a request that is pending. *)
MayMask == intr_req' \in {intr_req, FALSE}

ExecPlain ==
  /\ \E op \in {"mov", "cli", "sti"} : executing(op, "S_RETIRE")
  /\ MayMask /\ UNCHANGED <<jump, int_ret_ip, stack, strVars, nextInstr>>

ExecLoadCx ==
  /\ executing("movcx", "S_RETIRE")
  /\ cx' = CX_MAX /\ moved' = 0
  /\ UNCHANGED <<jump, int_ret_ip, intr_req, stack, cx_r, str_dirty, nextInstr>>

ExecBranch ==
  /\ \/ executing("jcc", "S_RETIRE") /\ jump' \in Addrs \cup {None}
     \/ executing("jmp", "S_RETIRE") /\ UNCHANGED jump
  /\ nextInstr' = IF jump' = None THEN nextInstr ELSE jump'
  /\ UNCHANGED <<int_ret_ip, intr_req, stack, strVars>>

ExecSegment ==
  /\ executing("lds", "S_SREG_WB")
  /\ UNCHANGED <<jump, int_ret_ip, intr_req, stack, strVars, nextInstr>>

ExecHlt ==
  /\ executing("hlt", "S_HALT")
  /\ UNCHANGED <<jump, int_ret_ip, intr_req, stack, strVars, nextInstr>>

(* A software interrupt or a trap, or the trap's condition does not hold.  *)
ExecTrap ==
  /\ \/ executing("int", "S_RETIRE") /\ UNCHANGED int_ret_ip
     \/ executing("int", "S_INT_PREP") /\ int_ret_ip' = ip_next
  /\ UNCHANGED <<jump, intr_req, stack, strVars, nextInstr>>

(* IRET: the frame is read, then applied (lines 2297-2339).                *)
ExecIret ==
  /\ executing("iret", "S_IRET_APPL")
  /\ jump' = Head(stack).ip
  /\ UNCHANGED <<int_ret_ip, intr_req, stack, strVars, nextInstr>>

IretApply ==
  /\ state = "S_IRET_APPL" /\ state' = "S_REDIRECT"
  /\ IF_flag' = Head(stack).IF_flag /\ stack' = Tail(stack)
  /\ nextInstr' = Head(stack).ip
  /\ UNCHANGED <<ip_next, block_int_once, decode, flow, int_ret_ip, int_from_intr,
                 nmi_pending, intr_req, strVars, q, shadow>>

(* Loading CS restarts the stream at the same offset.                      *)
SregWb ==
  /\ state = "S_SREG_WB" /\ state' = "S_RETIRE"
  /\ block_int_once' = TRUE /\ shadow' = TRUE
  /\ jump' \in {None, ip_next}
  /\ UNCHANGED <<ip_next, decode, spec, early_fetch, intVars, strVars, q, nextInstr>>
-----------------------------------------------------------------------------
(* The string engine.  SI, DI and AX go with CX.                           *)
strStep(from) ==
  /\ state = from
  /\ UNCHANGED <<ip_next, block_int_once, decode, spec, early_fetch, intVars, q, shadow>>

ExecString ==
  /\ executing("str", "S_STR_CHECK")
  /\ cx_r' = cx /\ str_dirty' = FALSE
  /\ UNCHANGED <<jump, int_ret_ip, intr_req, stack, cx, moved, nextInstr>>

leave ==
  /\ IF str_dirty THEN state' = "S_STR_WB" /\ UNCHANGED cx_r
                  ELSE state' = "S_RETIRE" /\ cx_r' = 0
  /\ UNCHANGED <<cx, str_dirty, moved>>

StrExhausted ==
  /\ strStep("S_STR_CHECK") /\ rep_en /\ cx_r = 0
  /\ leave /\ nextInstr' = ip_next /\ UNCHANGED jump

StrInterruptedPastPrefix ==
  /\ strStep("S_STR_CHECK") /\ rep_en /\ cx_r # 0 /\ hw_int_ready
  /\ leave /\ jump' = plus(instr_start_ip, 1) /\ UNCHANGED nextInstr

(* Between iterations an interrupt is let in: the instruction ends early   *)
(* and will be executed again from its first prefix.                       *)
StrInterrupted ==
  /\ strStep("S_STR_CHECK") /\ rep_en /\ cx_r # 0 /\ hw_int_ready
  /\ leave /\ jump' = instr_start_ip /\ UNCHANGED nextInstr

StrElement ==
  /\ strStep("S_STR_CHECK") /\ ~(rep_en /\ (cx_r = 0 \/ hw_int_ready))
  /\ state' = "S_STR_EXEC"
  /\ UNCHANGED <<jump, strVars, nextInstr>>

(* Compares may stop before the count runs out.                            *)
StrExecClean ==
  /\ strStep("S_STR_EXEC")
  /\ cx_r' = (IF rep_en THEN cx_r - 1 ELSE cx_r)
  /\ moved' = (IF rep_en THEN moved + 1 ELSE moved)
  /\ \/ rep_en /\ cx_r' # 0 /\ state' = "S_STR_CHECK" /\ UNCHANGED nextInstr
     \/ state' = "S_STR_WB" /\ nextInstr' = ip_next
  /\ UNCHANGED <<jump, cx, str_dirty>>

StrExec ==
  /\ strStep("S_STR_EXEC")
  /\ cx_r' = (IF rep_en THEN cx_r - 1 ELSE cx_r)
  /\ moved' = (IF rep_en THEN moved + 1 ELSE moved)
  /\ str_dirty' = TRUE
  /\ \/ rep_en /\ cx_r' # 0 /\ state' = "S_STR_CHECK" /\ UNCHANGED nextInstr
     \/ state' = "S_STR_WB" /\ nextInstr' = ip_next
  /\ UNCHANGED <<jump, cx>>

StrWriteback ==
  /\ strStep("S_STR_WB") /\ state' = "S_RETIRE"
  /\ cx' = cx_r /\ cx_r' = 0 /\ str_dirty' = FALSE
  /\ UNCHANGED <<jump, moved, nextInstr>>
-----------------------------------------------------------------------------
(* S_RETIRE, lines 2197-2222; flags are written in it.                     *)
spec_ok == spec # None /\ jump # None /\ iclass = "jcc" /\ spec = jump

Retiring ==
  /\ state = "S_RETIRE"
  /\ IF_flag' = (iclass = "sti" \/ (IF_flag /\ iclass # "cli"))
  /\ UNCHANGED <<block_int_once, int_ret_ip, nmi_pending, intr_req, stack, strVars>>

retireKept == <<instr_start_ip, prefix_seen, int_from_intr, q, nextInstr, shadow>>
retired == iclass' = "mov" /\ rep_en' = FALSE

RetirePredicted ==
  /\ Retiring /\ spec_ok
  /\ spec' = None /\ early_fetch' = FALSE /\ UNCHANGED jump
  /\ ip_next' = jump /\ state' = "S_FETCH_OP"
  /\ retired /\ UNCHANGED retireKept

RetireMispredicted ==
  /\ Retiring /\ spec # None /\ jump = None
  /\ spec' = None /\ jump' = ip_next /\ state' = "S_REDIRECT"
  /\ retired /\ UNCHANGED <<ip_next, early_fetch, retireKept>>

RetireOverlapped(i) ==
  /\ Retiring /\ mayOverlap /\ fast_here(i)
  /\ StartInstr(i) /\ UNCHANGED early_fetch

RetirePlain(i) ==
  /\ Retiring /\ ~spec_ok /\ ~(spec # None /\ jump = None)
  /\ ~(mayOverlap /\ fast_here(i))
  /\ spec' = None /\ state' = IF jump # None THEN "S_REDIRECT" ELSE "S_FETCH_OP"
  /\ retired /\ UNCHANGED <<ip_next, jump, early_fetch, retireKept>>

Redirect ==
  /\ state = "S_REDIRECT" /\ state' = "S_FETCH_OP"
  /\ IF early_fetch THEN UNCHANGED q ELSE redirectTo(jump)
  /\ early_fetch' = FALSE /\ ip_next' = jump
  /\ UNCHANGED <<block_int_once, decode, spec, jump, intVars, strVars, nextInstr, shadow>>
-----------------------------------------------------------------------------
(* HALT and interrupt entry.                                               *)
Halt ==
  /\ state = "S_HALT" /\ hw_int_ready /\ acceptInterrupt
  /\ UNCHANGED <<ip_next, block_int_once, decode, flow, intr_req, IF_flag, stack,
                 strVars, q, nextInstr, shadow>>

(* The controller hears of the acceptance now, and withdraws the request.  *)
IntPrep ==
  /\ state = "S_INT_PREP" /\ state' = "S_INT_WR"
  /\ intr_req' = (intr_req /\ ~int_from_intr)
  /\ UNCHANGED <<ip_next, block_int_once, decode, flow, int_ret_ip, int_from_intr,
                 nmi_pending, IF_flag, stack, strVars, q, nextInstr, shadow>>

IntWrite ==
  /\ state = "S_INT_WR" /\ state' = "S_INT_APPLY"
  /\ stack' = <<[ip |-> int_ret_ip, IF_flag |-> IF_flag]>> \o stack
  /\ int_ret_ip' = 0 /\ int_from_intr' = FALSE
  /\ UNCHANGED <<ip_next, block_int_once, decode, flow, nmi_pending, intr_req,
                 IF_flag, strVars, q, nextInstr, shadow>>

IntApply ==
  /\ state = "S_INT_APPLY" /\ state' = "S_REDIRECT"
  /\ IF_flag' = FALSE
  /\ jump' \in Addrs /\ nextInstr' = jump'
  /\ UNCHANGED <<ip_next, block_int_once, decode, spec, early_fetch, int_ret_ip,
                 int_from_intr, nmi_pending, intr_req, stack, strVars, q, shadow>>
-----------------------------------------------------------------------------
Init ==
  /\ state = "S_START" /\ ip_next = 0 /\ instr_start_ip = 0
  /\ prefix_seen = FALSE /\ block_int_once = FALSE
  /\ iclass = "mov" /\ rep_en = FALSE
  /\ spec = None /\ early_fetch = FALSE /\ jump = None
  /\ int_ret_ip = 0 /\ int_from_intr = FALSE
  /\ nmi_pending = FALSE /\ intr_req = FALSE /\ IF_flag = FALSE
  /\ cx = 0 /\ cx_r = 0 /\ str_dirty = FALSE
  /\ q = [head |-> 0, count |-> 0] /\ stack = <<>>
  /\ nextInstr = 0 /\ moved = CX_MAX /\ shadow = FALSE

Fetch(i) == FetchWhole(i) \/ FetchPrefix(i) \/ FetchShadowed(i)
              \/ FetchInterrupt(i) \/ FetchPlain(i)
Execute  == Prep \/ ExecPlain \/ ExecLoadCx \/ ExecBranch \/ ExecSegment \/ ExecHlt
              \/ ExecTrap \/ ExecIret \/ IretApply \/ SregWb
Strings  == ExecString \/ StrExhausted \/ StrInterrupted \/ StrElement \/ StrExec
              \/ StrWriteback
Retire   == RetirePredicted \/ RetireMispredicted \/ Redirect
              \/ \E i \in ahead : RetireOverlapped(i) \/ RetirePlain(i)
Enter    == Halt \/ IntPrep \/ IntWrite \/ IntApply

EuClock == Start \/ (\E i \in ahead : Fetch(i)) \/ Modrm \/ Execute \/ Strings
             \/ Retire \/ Enter

environment == <<state, ip_next, block_int_once, decode, flow, int_ret_ip,
                 int_from_intr, IF_flag, stack, strVars, nextInstr, shadow>>

Arrive == /\ state # "S_START" /\ q.count < QUEUE
          /\ q' = [head |-> q.head, count |-> q.count + 1]
          /\ UNCHANGED <<environment, intr_req, nmi_pending>>

Request == intr_req' = TRUE /\ UNCHANGED <<environment, q, nmi_pending>>

NmiEdge == nmi_pending' = TRUE /\ UNCHANGED <<environment, q, intr_req>>

(* The bound MAX_NEST: frames on the stack and those on their way there.   *)
entries == Len(stack) + (IF nmi_pending THEN 1 ELSE 0) + (IF intr_req THEN 1 ELSE 0)
             + (IF state = "S_INT_WR" \/ (state = "S_INT_PREP" /\ ~int_from_intr)
                  THEN 1 ELSE 0)

Next == (EuClock \/ Arrive \/ Request \/ NmiEdge) /\ entries' <= MAX_NEST

Spec == Init /\ [][Next]_vars

(* The clock runs, and the bus brings bytes while there is room (CpuBus).  *)
FairSpec == Spec /\ WF_vars(EuClock /\ entries' <= MAX_NEST) /\ WF_vars(Arrive)
-----------------------------------------------------------------------------
States == {"S_START", "S_FETCH_OP", "S_MODRM", "S_PREP", "S_EXEC", "S_SREG_WB",
           "S_STR_CHECK", "S_STR_EXEC", "S_STR_WB", "S_RETIRE", "S_REDIRECT",
           "S_HALT", "S_INT_PREP", "S_INT_WR", "S_INT_APPLY", "S_IRET_APPL"}

(* Types; no more bytes are taken from the queue than it has.              *)
Frames == [ip : Addrs, IF_flag : BOOLEAN]

RegistersOK ==
  /\ state \in States /\ iclass \in Ops
  /\ ip_next \in Addrs /\ instr_start_ip \in Addrs
  /\ int_ret_ip \in Addrs /\ nextInstr \in Addrs
  /\ spec \in Addrs \cup {None} /\ jump \in Addrs \cup {None}

FlagsOK ==
  /\ prefix_seen \in BOOLEAN /\ block_int_once \in BOOLEAN /\ shadow \in BOOLEAN
  /\ rep_en \in BOOLEAN /\ str_dirty \in BOOLEAN /\ early_fetch \in BOOLEAN
  /\ int_from_intr \in BOOLEAN /\ nmi_pending \in BOOLEAN
  /\ intr_req \in BOOLEAN /\ IF_flag \in BOOLEAN

StoresOK ==
  /\ q \in [head : Addrs, count : 0 .. QUEUE]
  /\ stack \in Seq(Frames)

TypeOK == RegistersOK /\ FlagsOK /\ StoresOK

(* A byte is taken for the instruction at ip_next only when it is the byte *)
(* at ip_next, whatever was predicted, fetched early or flushed meanwhile  *)
(* (lines 488-494: "a CORRECTNESS hazard rather than a performance one").  *)
takesBytes == state \in {"S_FETCH_OP", "S_MODRM"}
                \/ (state = "S_RETIRE" /\ mayOverlap)

BytesInOrder == takesBytes => q.head = ip_next

(* An instruction starts only where the program goes on, one after another,*)
(* with no prediction, interrupt or restart leaving one out.               *)
ProgramOrder ==
  (state = "S_FETCH_OP" /\ ~prefix_seen) \/ (state = "S_RETIRE" /\ mayOverlap)
    => ip_next = nextInstr

(* The return address an interrupt saves is that of the next instruction   *)
(* to execute: never past a prefix, the first prefix for an unfinished REP,*)
(* the one after a HLT (lines 318-325, 2584-2590).                         *)
ReturnsToNext ==
  state = "S_INT_PREP" => int_ret_ip = nextInstr

(* Outside the string engine CX in the register file says exactly how many *)
(* elements are left, interrupted or not (lines 1165-1180).                *)
RepCounted ==
  state \notin {"S_STR_CHECK", "S_STR_EXEC", "S_STR_WB"} => moved + cx = CX_MAX

(* A pending NMI is taken at the next boundary, out of HALT and out of a   *)
(* REP too, unless a prefix or a segment load comes first.                 *)
NmiServed == nmi_pending ~> (~nmi_pending \/ prefix_seen \/ block_int_once)

(* Lines 2566-2567: "Loading a segment register shadows the next           *)
(* instruction from interrupts."                                           *)
SegmentShadow == state = "S_INT_PREP" => ~shadow
=============================================================================
