---------------------------- MODULE DiskService -----------------------------
(***************************************************************************)
(* INT 13h of the BIOS (gen_bios.py) on the block device: the dispatch on  *)
(* AH, the cylinder, head and sector made into a sector number, the loop   *)
(* over the sectors of a call, and the port protocol of read_sector and    *)
(* write_sector.  INT clears IF, so nothing else runs on the processor     *)
(* during a call; the engine does.  Between calls a program may use the    *)
(* ports itself, as long as it waits for BUSY as the BIOS does.            *)
(***************************************************************************)
EXTENDS Storage, Geometry

CONSTANTS
  GSPT, GHEADS,  \* SPT and HEADS the BIOS was built with
  DBUF,          \* the address of the caller's buffer, below BASE
  DCYLS,         \* the cylinders callers name
  DCOUNTS,       \* the sector counts callers ask for
  MaxCalls       \* bound: calls of INT 13h in a behaviour

ASSUME ServiceAssumptions ==
  /\ GSPT \in Nat \ {0} /\ GHEADS \in Nat \ {0} /\ DBUF \in Nat
  /\ DCYLS \subseteq Nat /\ DCOUNTS \subseteq Nat
  /\ \A n \in DCOUNTS : DBUF + n * SWORDS <= BASE

VARIABLES
  dpc,    \* where INT 13h is; "caller" outside it
  dop,    \* the call: operation, sector number, count
  si,     \* the sector number of the next sector
  left,   \* CL: sectors still to do
  di,     \* the place in the caller's buffer
  cx,     \* words still to move in REP INSW or OUTSW
  ah, cf, \* what the last call returned
  before, \* history: the SDRAM when the call began
  calls   \* history: calls made

serviceVars == <<dop, si, left, di, cx, ah, cf, before, calls>>
diskVars == <<storageVars, serviceVars, dpc>>

Built == [spt |-> GSPT, heads |-> GHEADS]

NoCall == [op |-> "none", lba |-> 0, n |-> 0]

DiskInit ==
  /\ StorageInit
  /\ dpc = "caller" /\ dop = NoCall /\ si = 0 /\ left = 0 /\ di = DBUF /\ cx = 0
  /\ ah = 0 /\ cf = FALSE /\ before = sdram /\ calls = 0

Goes(from, to) == dpc = from /\ dpc' = to

-----------------------------------------------------------------------------
(* AH=02 and AH=03. *)
CallDisk(op, ch, dh, cl, al) ==
  /\ ~busy /\ calls < MaxCalls
  /\ Goes("caller", "next") /\ calls' = calls + 1
  /\ si' = LbaOf([ch |-> ch, dh |-> dh, cl |-> cl], Built)
  /\ dop' = [op |-> op, n |-> al, lba |-> (ch * GHEADS + dh) * GSPT + cl - 1]
  /\ left' = al /\ di' = DBUF /\ before' = sdram
  /\ UNCHANGED <<storageVars, cx, ah, cf>>

(* i13_ok and i13_fail put the answer into AH and the caller's CF. *)
Answer(code) ==
  /\ ah' = code /\ cf' = (code # 0)
  /\ UNCHANGED <<dop, si, left, di, cx, before, calls>>

(* AH=00 resets nothing, AH=08 reports the geometry the BIOS was built     *)
(* with, and any other value is refused; none of them touches the device.  *)
OtherCall(f) ==
  /\ Goes("caller", "caller") /\ dop' = NoCall
  /\ LET code == IF f \in {0, 8} THEN 0 ELSE 1
     IN ah' = code /\ cf' = (code # 0)
  /\ UNCHANGED <<storageVars, si, left, di, cx, before, calls>>

(* i13_next and i13_wnext *)
NextSector ==
  /\ dpc = "next"
  /\ IF left = 0
     THEN /\ dpc' = "caller" /\ Answer(0) /\ UNCHANGED storageVars
     ELSE /\ dpc' = IF dop.op = "read" THEN "cmd" ELSE "fill"
          /\ WriteLba(si) /\ cx' = SWORDS
          /\ UNCHANGED <<dop, si, left, di, ah, cf, before, calls>>

(* REP OUTSW: the words go into the buffer before the command. *)
FillWord ==
  /\ Goes("fill", IF cx = 1 THEN "cmd" ELSE "fill")
  /\ WriteData(sdram[di]) /\ cx' = cx - 1 /\ di' = di + 1
  /\ UNCHANGED <<dop, si, left, ah, cf, before, calls>>

Command ==
  /\ Goes("cmd", "poll") /\ WriteCmd(dop.op)
  /\ UNCHANGED serviceVars

SectorDone == left' = left - 1 /\ si' = (si + 1) % 65536

(* rs_wait and ws_wait: until BUSY clears, then ERR decides. *)
Poll ==
  /\ dpc = "poll" /\ ~busy /\ UNCHANGED storageVars
  /\ CASE err -> dpc' = "caller" /\ Answer(IF dop.op = "read" THEN 4 ELSE 3)
       [] ~err /\ dop.op = "read" -> dpc' = "take" /\ UNCHANGED serviceVars
       [] OTHER -> /\ dpc' = "next" /\ SectorDone
                   /\ UNCHANGED <<dop, di, cx, ah, cf, before, calls>>

(* REP INSW *)
TakeWord ==
  /\ Goes("take", IF cx = 1 THEN "next" ELSE "take")
  /\ sdram' = [sdram EXCEPT ![di] = sbuf[windex]] /\ ReadData
  /\ cx' = cx - 1 /\ di' = di + 1
  /\ IF cx = 1 THEN SectorDone ELSE UNCHANGED <<si, left>>
  /\ UNCHANGED <<dop, ah, cf, before, calls>>

(* A program on the ports, between calls: it starts a read, and takes or   *)
(* stores some words.                                                      *)
ProgramPorts ==
  /\ dpc = "caller" /\ ~busy /\ UNCHANGED <<serviceVars, dpc>>
  /\ \/ ReadData /\ UNCHANGED sdram
     \/ WriteData(<<0, 1>>)
     \/ WriteCmd("read")

ServiceStep == NextSector \/ FillWord \/ Command \/ Poll \/ TakeWord

DiskNext ==
  \/ \E op \in {"read", "write"}, ch \in DCYLS, dh \in 0..GHEADS - 1,
        cl \in 1..GSPT, al \in DCOUNTS : CallDisk(op, ch, dh, cl, al)
  \/ \E f \in {0, 1, 8} : OtherCall(f)
  \/ ServiceStep \/ ProgramPorts
  \/ EngineStep /\ UNCHANGED <<serviceVars, dpc>>

DiskSpec == DiskInit /\ [][DiskNext]_diskVars

-----------------------------------------------------------------------------
(* A call moves the sectors the caller named, in order, up to the first    *)
(* one the device does not have, and changes nothing else; it fails just   *)
(* when there is such a sector.  Whatever a program left in the device's   *)
(* buffer and index makes no difference (storage.sv, "WRITING LBA_LO ALSO  *)
(* RESETS THE DATA INDEX").                                                *)
Moved == IF dop.lba >= SECTORS THEN 0
         ELSE IF dop.lba + dop.n > SECTORS THEN SECTORS - dop.lba ELSE dop.n
DiskAt == BASE + dop.lba * SWORDS
Copied(to, from) ==
  [a \in DOMAIN before |->
     IF a \in to..to + Moved * SWORDS - 1 THEN before[from + (a - to)]
     ELSE before[a]]
TransferExact ==
  dpc = "caller" /\ dop.op # "none" =>
    /\ sdram = IF dop.op = "read" THEN Copied(DBUF, DiskAt)
               ELSE Copied(DiskAt, DBUF)
    /\ cf = (Moved < dop.n)
=============================================================================
