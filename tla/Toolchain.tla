------------------------------ MODULE Toolchain ------------------------------
(***************************************************************************)
(* The programs in Python: the disk tools on a volume of any size          *)
(* (Volume), the tools in the order they are run before the machine boots  *)
(* what they made (Boot), and the assembler under the BIOS and the boot    *)
(* sector (Assembler).  A behaviour is of one part, chosen at the start.   *)
(***************************************************************************)
EXTENDS Boot, Assembler

ASSUME ToolchainAssumption == NumbersBelowMarks /\ BelowMarks(TOTAL)

VARIABLE part   \* the part this behaviour is about

vars == <<bootVars, asmVars, part>>

Init == part \in {"volume", "boot", "asm"} /\ BootInit /\ AsmInit

VolumeStep ==
  /\ part = "volume" /\ VolumeNext
  /\ UNCHANGED <<hostVars, boardVars, machineVars, asmVars, part>>
BootStep(A) == part = "boot" /\ A /\ UNCHANGED <<asmVars, part>>
AsmStep == part = "asm" /\ AsmNext /\ UNCHANGED <<bootVars, part>>

Next == VolumeStep \/ BootStep(BootNext) \/ AsmStep

Spec == Init /\ [][Next]_vars /\ WF_vars(BootStep(MachineStep))
=============================================================================
