------------------------------ MODULE Geometry ------------------------------
(***************************************************************************)
(* Sector numbers and cylinder, head, sector: the conversion INT 13h makes *)
(* with the geometry the BIOS was built with (gen_bios.py), the one the    *)
(* boot sector makes with the geometry of its volume (gen_disk.py).        *)
(***************************************************************************)
EXTENDS Integers

CONSTANT CBYTE  \* 256: the cylinders a byte can name

ASSUME GeometryAssumption == CBYTE \in Nat \ {0}

(* LBA = (cylinder * HEADS + head) * SPT + (sector - 1), in 16 bits; the   *)
(* head is taken before a multiplication can destroy it.                   *)
LbaOf(chs, geo) ==
  ((chs.ch * geo.heads + chs.dh) * geo.spt + (chs.cl % 64) - 1) % 65536

(* read_one: the cylinder is cut to the byte CH. *)
ChsOf(lba, geo) ==
  [ch |-> ((lba \div geo.spt) \div geo.heads) % CBYTE,
   dh |-> (lba \div geo.spt) % geo.heads,
   cl |-> (lba % geo.spt) + 1]
=============================================================================
