-------------------------------- MODULE Bios --------------------------------
(***************************************************************************)
(* The BIOS under one program.  The program uses one of its services at a  *)
(* time: the keyboard and the clock (Typing), the screen (Screen) or the   *)
(* disk (DiskService).  The services share nothing -- their variables are  *)
(* different words of the BIOS data area and different devices, and a      *)
(* service runs with interrupts disabled -- so a behaviour is of one part, *)
(* chosen at the start, and the others stand still.                        *)
(***************************************************************************)
EXTENDS Typing, Screen, DiskService

VARIABLE part   \* the part this behaviour is about

vars == <<typingVars, screenVars, diskVars, part>>

Init ==
  /\ part \in {"typing", "screen", "disk"}
  /\ TypingInit /\ ScreenInit /\ DiskInit
  /\ part # "typing" => job = "keys" /\ ~hooked

TypingStep(A) ==
  part = "typing" /\ A /\ UNCHANGED <<screenVars, diskVars, part>>
ScreenStep ==
  part = "screen" /\ ScreenNext /\ UNCHANGED <<typingVars, diskVars, part>>
DiskStep ==
  part = "disk" /\ DiskNext /\ UNCHANGED <<typingVars, screenVars, part>>

Next == TypingStep(TypingNext) \/ ScreenStep \/ DiskStep

(* The fairness of the keyboard's part (TypingFairness): the one liveness  *)
(* property is about it.                                                   *)
Fairness ==
  /\ WF_vars(TypingStep(ProgramSteps))
  /\ WF_vars(TypingStep(HookReads \/ BiosReads \/ KbdReturn))
  /\ WF_vars(TypingStep(TimerFires)) /\ WF_vars(TypingStep(Tick))

Spec == Init /\ [][Next]_vars /\ Fairness
=============================================================================
