--------------------------- MODULE ExecUnitProofs ---------------------------
(***************************************************************************)
(* The sequencer keeps to the program, for every size of the address space *)
(* and of the prefetch queue.                                              *)
(*                                                                         *)
(* BytesInOrder, ProgramOrder and ReturnsToNext speak of the states where  *)
(* something is decided.  Between two of them the facts they rest on are   *)
(* carried by the instruction in the machine, and that is what the         *)
(* inductive invariant adds: what the head of the queue is the address of  *)
(* (Aligned), how nextInstr is reached from where the sequencer stands     *)
(* (Accounted), and where the string engine's count is kept (Counted), for *)
(* each state; Settled has what a state may take for granted.              *)
(***************************************************************************)
EXTENDS ExecUnit, TLAPS, SequenceTheorems

(* States in which an instruction is in the machine.                       *)
Body == {"S_PREP", "S_EXEC", "S_SREG_WB", "S_STR_CHECK", "S_STR_EXEC",
         "S_STR_WB", "S_RETIRE"}

Aligned ==
  /\ state \in {"S_FETCH_OP", "S_MODRM"} => q.head = ip_next
  /\ state = "S_MODRM" => spec = None
  /\ early_fetch => /\ state \in {"S_EXEC", "S_RETIRE", "S_REDIRECT"}
                    /\ q.head = jump /\ jump # None
                    /\ state # "S_REDIRECT" => iclass = "jmp"
  /\ state \in Body /\ ~early_fetch
       => q.head = IF spec = None THEN ip_next ELSE spec

(* A repeated string instruction goes on with itself.                      *)
afterThis == IF iclass = "str" /\ rep_en THEN instr_start_ip ELSE ip_next

Accounted ==
  /\ state = "S_START" => nextInstr = 0
  /\ state = "S_FETCH_OP" => nextInstr = IF prefix_seen THEN instr_start_ip
                                         ELSE ip_next
  /\ state = "S_MODRM" =>
       nextInstr = IF iclass = "str" /\ rep_en THEN instr_start_ip
                   ELSE IF has_modrm(iclass) THEN plus(ip_next, 1) ELSE ip_next
  /\ state \in {"S_PREP", "S_EXEC", "S_STR_CHECK", "S_STR_EXEC"}
       => nextInstr = afterThis
  /\ state \in {"S_SREG_WB", "S_HALT"} => nextInstr = ip_next
  /\ state \in {"S_STR_WB", "S_RETIRE"}
       => nextInstr = IF jump = None THEN ip_next ELSE jump
  /\ state = "S_REDIRECT" => jump # None /\ nextInstr = jump
  /\ state = "S_INT_PREP" => nextInstr = int_ret_ip
  /\ state = "S_IRET_APPL" => jump = Head(stack).ip

(* What each state may rely on.                                            *)
Settled ==
  /\ state \in {"S_MODRM", "S_PREP", "S_STR_CHECK", "S_STR_EXEC"} => jump = None
  /\ state = "S_EXEC" /\ iclass # "jmp" => jump = None
  /\ state = "S_EXEC" /\ iclass = "jmp" => early_fetch
  /\ state \in {"S_STR_CHECK", "S_STR_EXEC"} => iclass = "str"
  /\ prefix_seen => state \in {"S_FETCH_OP", "S_MODRM"}
  /\ state \in {"S_MODRM", "S_PREP", "S_EXEC"} /\ iclass = "iret" => stack # <<>>
  /\ state = "S_IRET_APPL" => stack # <<>>

(* While the string engine runs its own copy of CX carries the account.    *)
Counted ==
  /\ cx \in Int /\ cx_r \in Int /\ moved \in Int
  /\ IF state \in {"S_STR_CHECK", "S_STR_EXEC", "S_STR_WB"}
       THEN moved + cx_r = CX_MAX
       ELSE moved + cx = CX_MAX
  /\ state = "S_STR_CHECK" /\ ~str_dirty => cx_r = cx

IInv == TypeOK /\ Aligned /\ Accounted /\ Settled /\ Counted
-----------------------------------------------------------------------------
(* Addresses wrap, so an address plus anything is an address.              *)
LEMMA PlusType == ASSUME NEW a \in Addrs, NEW n \in 0 .. 3 PROVE plus(a, n) \in Addrs
  BY ExecAssumptions, SMT DEF plus, Addrs

(* Adding nothing changes nothing.                                         *)
LEMMA PlusZero == ASSUME NEW a \in Addrs PROVE plus(a, 0) = a
  BY ExecAssumptions, SMT DEF plus, Addrs

(* Two bytes taken one by one are two bytes taken.                         *)
LEMMA PlusOneOne == ASSUME NEW a \in Addrs PROVE plus(plus(a, 1), 1) = plus(a, 2)
<1>1. CASE a + 1 < SPACE
  <2>1. plus(a, 1) = a + 1  BY <1>1, ExecAssumptions, SMT DEF plus, Addrs
  <2>2. QED  BY <2>1, ExecAssumptions, SMT DEF plus, Addrs
<1>2. CASE a + 1 = SPACE
  <2>1. plus(a, 1) = 0  BY <1>2, ExecAssumptions, SMT DEF plus, Addrs
  <2>2. (a + 2) % SPACE = 1 % SPACE
    <3>1. CASE SPACE = 1  BY <3>1, <1>2, SMT DEF Addrs
    <3>2. CASE SPACE > 1  BY <3>2, <1>2, ExecAssumptions, SMT DEF Addrs
    <3>3. QED  BY <3>1, <3>2, ExecAssumptions, SMT
  <2>3. QED  BY <2>1, <2>2, SMT DEF plus, Addrs
<1>3. QED  BY <1>1, <1>2, ExecAssumptions, SMT DEF Addrs

(* The stack of return frames.                                             *)
LEMMA PushFrame == ASSUME NEW f \in Frames, NEW s \in Seq(Frames)
                   PROVE  <<f>> \o s \in Seq(Frames)
<1>1. <<f>> \in Seq(Frames)  BY SMT
<1>2. QED  BY <1>1, SMT

LEMMA PopFrame == ASSUME NEW s \in Seq(Frames), s # <<>>
                  PROVE  Head(s) \in Frames /\ Tail(s) \in Seq(Frames)
  BY HeadTailProperties

(* The lengths the decoder finds.                                          *)
LEMMA LengthOfInstr == ASSUME NEW i \in Instrs PROVE dl_len(i) \in 1 .. 3
  BY SMT DEF dl_len
-----------------------------------------------------------------------------
(* There is always a way to say that there is no address.                  *)
LEMMA NoneIsNoAddress == None \notin Addrs
  BY ExecAssumptions, SMT DEF Addrs

(* Every clock of the sequencer and every event around it keeps IInv.      *)
THEOREM StepKeepsIInv == IInv /\ [Next]_vars => IInv'
<1> SUFFICES ASSUME IInv, [Next]_vars PROVE IInv'
  OBVIOUS
<1> USE DEF IInv, TypeOK, RegistersOK, FlagsOK, StoresOK, Aligned, Accounted, Settled,
     Counted, Body, afterThis, States, Ops, decode, flow, intVars, strVars
<1>1. CASE Start
  BY <1>1, ExecAssumptions, NoneIsNoAddress, SMT DEF Start, redirectTo
<1>2. ASSUME NEW i \in ahead, FetchWhole(i) PROVE IInv'
  <2> USE <1>2, ExecAssumptions, NoneIsNoAddress DEF FetchWhole, fast_here, dl_valid,
       StartInstr, redirectTo, popped, ahead, Instrs
  <2>1. RegistersOK'  BY PlusType, LengthOfInstr, SMT
  <2>2. FlagsOK'  OBVIOUS
  <2>3. StoresOK'  BY PlusType, LengthOfInstr, SMT
  <2>4. Aligned'  BY PlusType, LengthOfInstr, SMT
  <2>5. Accounted'  BY PlusType, LengthOfInstr, SMT
  <2>6. Settled'  BY SMT
  <2>7. Counted'  BY SMT
  <2>8. QED  BY <2>1, <2>2, <2>3, <2>4, <2>5, <2>6, <2>7
<1>3. ASSUME NEW i \in ahead, FetchPrefix(i) PROVE IInv'
  <2> USE <1>3, ExecAssumptions, NoneIsNoAddress DEF FetchPrefix, slow, prefixAhead,
       fetch_valid, FetchResets, boundary, popped, fetchKept, ahead, Instrs
  <2>1. RegistersOK'  BY PlusType, SMT
  <2>2. FlagsOK'  OBVIOUS
  <2>3. StoresOK'  BY PlusType, SMT
  <2>4. Aligned'  BY PlusType, SMT
  <2>5. Accounted'  BY PlusType, SMT
  <2>6. Settled'  BY SMT
  <2>7. Counted'  BY SMT
  <2>8. QED  BY <2>1, <2>2, <2>3, <2>4, <2>5, <2>6, <2>7
<1>4. ASSUME NEW i \in ahead, FetchShadowed(i) PROVE IInv'
  <2> USE <1>4, ExecAssumptions, NoneIsNoAddress DEF FetchShadowed, slow, prefixAhead,
       fetch_valid, FetchResets, boundary, popped, fetchKept, takeOpcode, notTaken,
       ahead, Instrs
  <2>1. RegistersOK'  BY PlusType, PlusOneOne, SMT
  <2>2. FlagsOK'  OBVIOUS
  <2>3. StoresOK'  BY PlusType, PlusOneOne, SMT
  <2>4. Aligned'  BY PlusType, PlusOneOne, SMT
  <2>5. Accounted'  BY PlusType, PlusOneOne, SMT
  <2>6. Settled'  BY SMT
  <2>7. Counted'  BY SMT
  <2>8. QED  BY <2>1, <2>2, <2>3, <2>4, <2>5, <2>6, <2>7
<1>5. ASSUME NEW i \in ahead, FetchInterrupt(i) PROVE IInv'
  <2> USE <1>5, ExecAssumptions, NoneIsNoAddress DEF FetchInterrupt, slow, shielded,
       acceptInterrupt, fetch_valid, FetchResets, boundary, popped, ahead, Instrs
  <2>1. RegistersOK'  BY PlusType, PlusZero, SMT
  <2>2. FlagsOK'  OBVIOUS
  <2>3. StoresOK'  BY PlusType, PlusZero, SMT
  <2>4. Aligned'  BY PlusType, PlusZero, SMT
  <2>5. Accounted'  BY PlusType, PlusZero, SMT
  <2>6. Settled'  BY SMT
  <2>7. Counted'  BY SMT
  <2>8. QED  BY <2>1, <2>2, <2>3, <2>4, <2>5, <2>6, <2>7
<1>6. ASSUME NEW i \in ahead, FetchPlain(i) PROVE IInv'
  <2> USE <1>6, ExecAssumptions, NoneIsNoAddress DEF FetchPlain, slow, shielded,
       fetch_valid, FetchResets, boundary, popped, fetchKept, takeOpcode, notTaken,
       ahead, Instrs
  <2>1. RegistersOK'  BY PlusType, PlusOneOne, SMT
  <2>2. FlagsOK'  OBVIOUS
  <2>3. StoresOK'  BY PlusType, PlusOneOne, SMT
  <2>4. Aligned'  BY PlusType, PlusOneOne, SMT
  <2>5. Accounted'  BY PlusType, PlusOneOne, SMT
  <2>6. Settled'  BY SMT
  <2>7. Counted'  BY SMT
  <2>8. QED  BY <2>1, <2>2, <2>3, <2>4, <2>5, <2>6, <2>7
<1>7. CASE Modrm
  <2> USE <1>7, ExecAssumptions, NoneIsNoAddress DEF Modrm, fetch_valid, popped
  <2>1. RegistersOK'  BY PlusType, PlusZero, SMT
  <2>2. FlagsOK'  OBVIOUS
  <2>3. StoresOK'  BY PlusType, PlusZero, SMT
  <2>4. Aligned'  BY PlusType, PlusZero, SMT
  <2>5. Accounted'  BY PlusType, PlusZero, SMT
  <2>6. Settled'  BY SMT
  <2>7. Counted'  BY SMT
  <2>8. QED  BY <2>1, <2>2, <2>3, <2>4, <2>5, <2>6, <2>7
<1>8. CASE Prep
  <2> USE <1>8, ExecAssumptions, NoneIsNoAddress DEF Prep, redirectTo
  <2>1. RegistersOK'  BY SMT
  <2>2. FlagsOK'  OBVIOUS
  <2>3. StoresOK'  BY SMT
  <2>4. Aligned'  BY SMT
  <2>5. Accounted'  BY SMT
  <2>6. Settled'  BY SMT
  <2>7. Counted'  BY SMT
  <2>8. QED  BY <2>1, <2>2, <2>3, <2>4, <2>5, <2>6, <2>7
<1>9. CASE ExecPlain
  <2> USE <1>9, ExecAssumptions, NoneIsNoAddress DEF ExecPlain, executing, MayMask
  <2>1. RegistersOK'  BY SMT
  <2>2. FlagsOK'  OBVIOUS
  <2>3. StoresOK'  BY SMT
  <2>4. Aligned'  BY SMT
  <2>5. Accounted'  BY SMT
  <2>6. Settled'  BY SMT
  <2>7. Counted'  BY SMT
  <2>8. QED  BY <2>1, <2>2, <2>3, <2>4, <2>5, <2>6, <2>7
<1>10. CASE ExecLoadCx
  BY <1>10, ExecAssumptions, NoneIsNoAddress, SMT DEF ExecLoadCx, executing
<1>11. CASE ExecBranch
  BY <1>11, ExecAssumptions, NoneIsNoAddress, SMT DEF ExecBranch, executing
<1>12. CASE ExecSegment
  BY <1>12, ExecAssumptions, NoneIsNoAddress, SMT DEF ExecSegment, executing
<1>13. CASE ExecHlt
  BY <1>13, ExecAssumptions, NoneIsNoAddress, SMT DEF ExecHlt, executing
<1>14. CASE ExecTrap
  BY <1>14, ExecAssumptions, NoneIsNoAddress, SMT DEF ExecTrap, executing
<1>15. CASE ExecIret
  <2> USE <1>15, ExecAssumptions, NoneIsNoAddress DEF ExecIret, executing, Frames
  <2>0. Head(stack) \in Frames /\ Tail(stack) \in Seq(Frames)
    BY PopFrame
  <2>1. RegistersOK'  BY <2>0, SMT
  <2>2. FlagsOK'  OBVIOUS
  <2>3. StoresOK'  BY <2>0, SMT
  <2>4. Aligned'  BY <2>0, SMT
  <2>5. Accounted'  BY <2>0, SMT
  <2>6. Settled'  BY SMT
  <2>7. Counted'  BY SMT
  <2>8. QED  BY <2>1, <2>2, <2>3, <2>4, <2>5, <2>6, <2>7
<1>16. CASE IretApply
  <2> USE <1>16, ExecAssumptions, NoneIsNoAddress DEF IretApply, Frames
  <2>0. Head(stack) \in Frames /\ Tail(stack) \in Seq(Frames)
    BY PopFrame
  <2>1. RegistersOK'  BY <2>0, SMT
  <2>2. FlagsOK'  BY <2>0
  <2>3. StoresOK'  BY <2>0, SMT
  <2>4. Aligned'  BY <2>0, SMT
  <2>5. Accounted'  BY <2>0, SMT
  <2>6. Settled'  BY SMT
  <2>7. Counted'  BY SMT
  <2>8. QED  BY <2>1, <2>2, <2>3, <2>4, <2>5, <2>6, <2>7
<1>17. CASE SregWb
  BY <1>17, ExecAssumptions, NoneIsNoAddress, SMT DEF SregWb
<1>18. CASE ExecString
  <2> USE <1>18, ExecAssumptions, NoneIsNoAddress DEF ExecString, executing
  <2>1. RegistersOK'  BY SMT
  <2>2. FlagsOK'  OBVIOUS
  <2>3. StoresOK'  BY SMT
  <2>4. Aligned'  BY SMT
  <2>5. Accounted'  BY SMT
  <2>6. Settled'  BY SMT
  <2>7. Counted'  BY SMT
  <2>8. QED  BY <2>1, <2>2, <2>3, <2>4, <2>5, <2>6, <2>7
<1>19. CASE StrExhausted
  BY <1>19, ExecAssumptions, NoneIsNoAddress, SMT DEF StrExhausted, strStep, leave
<1>20. CASE StrInterrupted
  <2> USE <1>20, ExecAssumptions, NoneIsNoAddress DEF StrInterrupted, strStep, leave
  <2>1. RegistersOK'  BY SMT
  <2>2. FlagsOK'  OBVIOUS
  <2>3. StoresOK'  BY SMT
  <2>4. Aligned'  BY SMT
  <2>5. Accounted'  BY SMT
  <2>6. Settled'  BY SMT
  <2>7. Counted'  BY SMT
  <2>8. QED  BY <2>1, <2>2, <2>3, <2>4, <2>5, <2>6, <2>7
<1>21. CASE StrElement
  BY <1>21, ExecAssumptions, NoneIsNoAddress, SMT DEF StrElement, strStep
<1>22. CASE StrExec
  BY <1>22, ExecAssumptions, NoneIsNoAddress, SMT DEF StrExec, strStep
<1>23. CASE StrWriteback
  <2> USE <1>23, ExecAssumptions, NoneIsNoAddress DEF StrWriteback, strStep
  <2>1. RegistersOK'  BY SMT
  <2>2. FlagsOK'  OBVIOUS
  <2>3. StoresOK'  BY SMT
  <2>4. Aligned'  BY SMT
  <2>5. Accounted'  BY SMT
  <2>6. Settled'  BY SMT
  <2>7. Counted'  BY SMT
  <2>8. QED  BY <2>1, <2>2, <2>3, <2>4, <2>5, <2>6, <2>7
<1>24. CASE RetirePredicted
  <2> USE <1>24, ExecAssumptions, NoneIsNoAddress DEF RetirePredicted, Retiring,
       retireKept, retired, spec_ok
  <2>1. RegistersOK'  BY SMT
  <2>2. FlagsOK'  OBVIOUS
  <2>3. StoresOK'  BY SMT
  <2>4. Aligned'  BY SMT
  <2>5. Accounted'  BY SMT
  <2>6. Settled'  BY SMT
  <2>7. Counted'  BY SMT
  <2>8. QED  BY <2>1, <2>2, <2>3, <2>4, <2>5, <2>6, <2>7
<1>25. CASE RetireMispredicted
  <2> USE <1>25, ExecAssumptions, NoneIsNoAddress DEF RetireMispredicted, Retiring,
       retireKept, retired
  <2>1. RegistersOK'  BY SMT
  <2>2. FlagsOK'  OBVIOUS
  <2>3. StoresOK'  BY SMT
  <2>4. Aligned'  BY SMT
  <2>5. Accounted'  BY SMT
  <2>6. Settled'  BY SMT
  <2>7. Counted'  BY SMT
  <2>8. QED  BY <2>1, <2>2, <2>3, <2>4, <2>5, <2>6, <2>7
<1>26. ASSUME NEW i \in ahead, RetireOverlapped(i) PROVE IInv'
  <2> USE <1>26, ExecAssumptions, NoneIsNoAddress DEF RetireOverlapped, Retiring,
       mayOverlap, fast_here, dl_valid, StartInstr, redirectTo, popped, ahead, Instrs
  <2>1. RegistersOK'  BY PlusType, LengthOfInstr, SMT
  <2>2. FlagsOK'  OBVIOUS
  <2>3. StoresOK'  BY PlusType, LengthOfInstr, SMT
  <2>4. Aligned'  BY PlusType, LengthOfInstr, SMT
  <2>5. Accounted'  BY PlusType, LengthOfInstr, SMT
  <2>6. Settled'  BY SMT
  <2>7. Counted'  BY SMT
  <2>8. QED  BY <2>1, <2>2, <2>3, <2>4, <2>5, <2>6, <2>7
<1>27. ASSUME NEW i \in ahead, RetirePlain(i) PROVE IInv'
  <2> USE <1>27, ExecAssumptions, NoneIsNoAddress DEF RetirePlain, Retiring,
       retireKept, retired, spec_ok, ahead, Instrs
  <2>1. RegistersOK'  BY SMT
  <2>2. FlagsOK'  OBVIOUS
  <2>3. StoresOK'  BY SMT
  <2>4. Aligned'  BY SMT
  <2>5. Accounted'  BY SMT
  <2>6. Settled'  BY SMT
  <2>7. Counted'  BY SMT
  <2>8. QED  BY <2>1, <2>2, <2>3, <2>4, <2>5, <2>6, <2>7
<1>28. CASE Redirect
  <2> USE <1>28, ExecAssumptions, NoneIsNoAddress DEF Redirect, redirectTo
  <2>1. RegistersOK'  BY SMT
  <2>2. FlagsOK'  OBVIOUS
  <2>3. StoresOK'  BY SMT
  <2>4. Aligned'  BY SMT
  <2>5. Accounted'  BY SMT
  <2>6. Settled'  BY SMT
  <2>7. Counted'  BY SMT
  <2>8. QED  BY <2>1, <2>2, <2>3, <2>4, <2>5, <2>6, <2>7
<1>29. CASE Halt
  <2> USE <1>29, ExecAssumptions, NoneIsNoAddress DEF Halt, acceptInterrupt
  <2>1. RegistersOK'  BY SMT
  <2>2. FlagsOK'  OBVIOUS
  <2>3. StoresOK'  BY SMT
  <2>4. Aligned'  BY SMT
  <2>5. Accounted'  BY SMT
  <2>6. Settled'  BY SMT
  <2>7. Counted'  BY SMT
  <2>8. QED  BY <2>1, <2>2, <2>3, <2>4, <2>5, <2>6, <2>7
<1>30. CASE IntPrep
  BY <1>30, ExecAssumptions, NoneIsNoAddress, SMT DEF IntPrep
<1>31. CASE IntWrite
  <2> USE <1>31, ExecAssumptions, NoneIsNoAddress DEF IntWrite
  <2>0. [ip |-> int_ret_ip, IF_flag |-> IF_flag] \in Frames /\ 0 \in Addrs
    BY SMT DEF Frames, Addrs
  <2>1. RegistersOK'  BY <2>0, PushFrame, SMT
  <2>2. FlagsOK'  OBVIOUS
  <2>3. StoresOK'  BY <2>0, PushFrame, SMT
  <2>4. Aligned'  BY <2>0, PushFrame, SMT
  <2>5. Accounted'  BY <2>0, PushFrame, SMT
  <2>6. Settled'  BY SMT
  <2>7. Counted'  BY SMT
  <2>8. QED  BY <2>1, <2>2, <2>3, <2>4, <2>5, <2>6, <2>7
<1>32. CASE IntApply
  <2> USE <1>32, ExecAssumptions, NoneIsNoAddress DEF IntApply
  <2>1. RegistersOK'  BY SMT
  <2>2. FlagsOK'  OBVIOUS
  <2>3. StoresOK'  BY SMT
  <2>4. Aligned'  BY SMT
  <2>5. Accounted'  BY SMT
  <2>6. Settled'  BY SMT
  <2>7. Counted'  BY SMT
  <2>8. QED  BY <2>1, <2>2, <2>3, <2>4, <2>5, <2>6, <2>7
<1>33. CASE Arrive
  BY <1>33, ExecAssumptions, NoneIsNoAddress, SMT DEF Arrive, environment
<1>34. CASE Request
  BY <1>34, ExecAssumptions, NoneIsNoAddress, SMT DEF Request, environment
<1>35. CASE NmiEdge
  BY <1>35, ExecAssumptions, NoneIsNoAddress, SMT DEF NmiEdge, environment
<1>36. CASE UNCHANGED vars
  BY <1>36 DEF vars
<1>37. QED
  BY <1>1, <1>2, <1>3, <1>4, <1>5, <1>6, <1>7, <1>8, <1>9, <1>10, <1>11, <1>12, <1>13,
       <1>14, <1>15, <1>16, <1>17, <1>18, <1>19, <1>20, <1>21, <1>22, <1>23, <1>24,
       <1>25, <1>26, <1>27, <1>28, <1>29, <1>30, <1>31, <1>32, <1>33, <1>34, <1>35,
       <1>36 DEF Next, EuClock, Fetch, Execute, Strings, Retire, Enter

(* After reset nothing is in the machine.                                  *)
THEOREM InitIsIInv == Init => IInv
<1> SUFFICES ASSUME Init PROVE IInv
  OBVIOUS
<1>1. 0 \in Addrs  BY ExecAssumptions, SMT DEF Addrs
<1>2. RegistersOK  BY <1>1, SMT DEF Init, RegistersOK, States, Ops
<1>3. FlagsOK  BY DEF Init, FlagsOK
<1>4. StoresOK
  <2>1. q \in [head : Addrs, count : 0 .. QUEUE]  BY <1>1, ExecAssumptions, SMT DEF Init
  <2>2. stack \in Seq(Frames)  BY SMT DEF Init
  <2>3. QED  BY <2>1, <2>2 DEF StoresOK
<1>5. Aligned /\ Accounted /\ Settled
  BY SMT DEF Init, Aligned, Accounted, Settled, Counted, Body
<1>6. Counted  BY ExecAssumptions, SMT DEF Init, Counted
<1>7. QED  BY <1>2, <1>3, <1>4, <1>5, <1>6 DEF IInv, TypeOK

(* The strengthened invariant, for every address space and queue length.   *)
THEOREM SequencerInvariant == Spec => []IInv
  BY InitIsIInv, StepKeepsIInv, PTL DEF Spec

(* No register, flag or queue leaves its range; in particular no more      *)
(* bytes are ever popped from the prefetch queue than it holds.            *)
THEOREM SequencerTypes == Spec => []TypeOK
<1>1. IInv => TypeOK  BY DEF IInv
<1>2. QED  BY <1>1, SequencerInvariant, PTL

(* Whatever is predicted, fetched early, flushed or interrupted, no byte   *)
(* is taken for an instruction but the one at its address.                 *)
THEOREM SequencerBytesInOrder == Spec => []BytesInOrder
<1>1. IInv => BytesInOrder
  BY SMT DEF IInv, Aligned, Body, BytesInOrder, takesBytes, mayOverlap
<1>2. QED  BY <1>1, SequencerInvariant, PTL

(* Instructions start in the order the program gives them.                 *)
THEOREM SequencerProgramOrder == Spec => []ProgramOrder
<1>1. IInv => ProgramOrder
  BY SMT DEF IInv, Accounted, ProgramOrder, mayOverlap
<1>2. QED  BY <1>1, SequencerInvariant, PTL

(* An interrupt, wherever it is let in, returns to the next instruction.   *)
THEOREM SequencerReturnsToNext == Spec => []ReturnsToNext
<1>1. IInv => ReturnsToNext
  BY SMT DEF IInv, Accounted, ReturnsToNext
<1>2. QED  BY <1>1, SequencerInvariant, PTL

(* However often a repeated string instruction is interrupted, elements    *)
(* moved and elements left add up to the count the program loaded.         *)
THEOREM SequencerRepCounted == Spec => []RepCounted
<1>1. IInv => RepCounted
  BY SMT DEF IInv, Counted, RepCounted
<1>2. QED  BY <1>1, SequencerInvariant, PTL
=============================================================================
