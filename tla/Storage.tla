------------------------------ MODULE Storage -------------------------------
(***************************************************************************)
(* The block device (storage.sv) with its SDRAM backend: four registers, a *)
(* buffer of one sector with an index for the processor's side, and an     *)
(* engine that copies the buffer to or from a window of the SDRAM.  The    *)
(* SDRAM is one array of words: conventional memory below BASE, the disk   *)
(* from BASE on.  Addresses count words.                                   *)
(***************************************************************************)
EXTENDS Integers, Sequences

CONSTANTS
  SWORDS,   \* words of a sector (256)
  SECTORS,  \* size of the device, in sectors
  BASE,     \* the address of sector 0
  AMOD      \* 2^23 words: the engine forms its address in 24 bits of bytes

ASSUME StorageAssumptions ==
       /\ SWORDS \in Nat \ {0} /\ SECTORS \in Nat \ {0}
       /\ BASE \in Nat /\ AMOD \in Nat /\ BASE < AMOD

VARIABLES
  sdram,          \* the SDRAM
  lbaSet, lbaCur, \* what software has written; what the transfer uses
  windex,         \* the processor's place in the buffer
  sbuf,           \* the buffer
  drq, err,       \* status bits
  tstate, tidx,   \* the engine's state and place
  isRead          \* the transfer is a read

engineVars == <<lbaCur, tstate, tidx, isRead>>
storageVars == <<sdram, lbaSet, windex, sbuf, drq, err, engineVars>>

Word == {<<a, 0>> : a \in 0..AMOD - 1} \cup {<<a, 1>> : a \in 0..AMOD - 1}
Places == 0..SWORDS - 1

StorageInit ==
  /\ sdram = [a \in 0..AMOD - 1 |-> <<a, 0>>]
  /\ lbaSet = 0 /\ lbaCur = 0 /\ windex = 0
  /\ sbuf = [i \in Places |-> <<0, 1>>]
  /\ drq = FALSE /\ err = FALSE
  /\ tstate = "IDLE" /\ tidx = 0 /\ isRead = TRUE

busy == tstate # "IDLE"
XferAddr == (BASE + lbaCur * SWORDS + tidx) % AMOD

-----------------------------------------------------------------------------
(* The engine.  A request stands until the SDRAM answers, however long.    *)

EngineNext(again) ==
  IF tidx = SWORDS - 1 THEN tstate' = "DONE" /\ UNCHANGED tidx
  ELSE tstate' = again /\ tidx' = tidx + 1

ReadWord ==
  /\ tstate = "RD_RQ" /\ tstate' = "RD_NX"
  /\ sbuf' = [sbuf EXCEPT ![tidx] = sdram[XferAddr]]
  /\ UNCHANGED <<sdram, lbaSet, windex, drq, err, lbaCur, tidx, isRead>>

ReadOn ==
  /\ tstate = "RD_NX" /\ EngineNext("RD_RQ")
  /\ UNCHANGED <<sdram, lbaSet, windex, sbuf, drq, err, lbaCur, isRead>>

(* T_WR_SU lets the buffer's output register catch up before the request.  *)
WriteWord ==
  /\ tstate = "WR_RQ" /\ tstate' = "WR_NX"
  /\ sdram' = [sdram EXCEPT ![XferAddr] = sbuf[tidx]]
  /\ UNCHANGED <<lbaSet, windex, sbuf, drq, err, lbaCur, tidx, isRead>>

WriteOn ==
  /\ \/ tstate = "WR_NX" /\ EngineNext("WR_SU")
     \/ tstate = "WR_SU" /\ tstate' = "WR_RQ" /\ UNCHANGED tidx
  /\ UNCHANGED <<sdram, lbaSet, windex, sbuf, drq, err, lbaCur, isRead>>

(* A read leaves the sector on offer; a write does not. *)
TransferDone ==
  /\ tstate = "DONE" /\ tstate' = "IDLE"
  /\ drq' = isRead /\ windex' = 0
  /\ UNCHANGED <<sdram, lbaSet, sbuf, err, lbaCur, tidx, isRead>>

EngineStep ==
  ReadWord \/ ReadOn \/ WriteWord \/ WriteOn \/ TransferDone

-----------------------------------------------------------------------------
(* The registers.  A write while the engine is busy is ignored.            *)

WriteLbaIndexKept(lba) ==
  /\ lbaSet' = IF busy THEN lbaSet ELSE lba
  /\ UNCHANGED <<sdram, sbuf, windex, drq, err, engineVars>>

(* LBA_LO and LBA_HI; writing the low half also resets the index. *)
WriteLba(lba) ==
  /\ IF busy THEN UNCHANGED <<lbaSet, windex>>
     ELSE lbaSet' = lba /\ windex' = 0
  /\ UNCHANGED <<sdram, sbuf, drq, err, engineVars>>

(* CMD: the range is checked before anything moves. *)
WriteCmd(cmd) ==
  /\ IF busy THEN UNCHANGED <<drq, err, engineVars>>
     ELSE /\ drq' = FALSE
          /\ err' = ~(lbaSet < SECTORS)
          /\ IF lbaSet < SECTORS
             THEN /\ lbaCur' = lbaSet /\ tidx' = 0
                  /\ isRead' = (cmd = "read")
                  /\ tstate' = IF cmd = "read" THEN "RD_RQ" ELSE "WR_SU"
             ELSE UNCHANGED engineVars
  /\ UNCHANGED <<sdram, lbaSet, windex, sbuf>>

WNext(i) == (i + 1) % SWORDS

(* A read of DATA shows the word at the index, and moves on only while a   *)
(* sector is on offer.                                                     *)
ReadData ==
  /\ windex' = IF ~busy /\ drq THEN WNext(windex) ELSE windex
  /\ drq' = (drq /\ (busy \/ windex # SWORDS - 1))
  /\ UNCHANGED <<lbaSet, sbuf, err, engineVars>>

WriteData(x) ==
  /\ IF busy THEN UNCHANGED <<sbuf, windex, drq>>
     ELSE /\ sbuf' = [sbuf EXCEPT ![windex] = x]
          /\ windex' = WNext(windex)
          /\ drq' = (drq /\ windex # SWORDS - 1)
  /\ UNCHANGED <<sdram, lbaSet, err, engineVars>>

(* The disk is out of the processor's reach: "conventional memory and the  *)
(* disk cannot collide however wrong the software gets" (storage.sv, "WHY  *)
(* THE DISK LIVES ABOVE 1 MB").                                            *)
DiskApart == tstate \in {"RD_RQ", "WR_RQ"} => XferAddr >= BASE
=============================================================================
