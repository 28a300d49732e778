-------------------------------- MODULE Boot --------------------------------
(***************************************************************************)
(* From the tools to a running kernel.  On the host: gen_disk.py makes the *)
(* image, addfile.py changes a file in it, img2hex.py writes the geometry  *)
(* of an image to rom/geometry.py, gen_bios.py builds a ROM for it.  On    *)
(* the board: a ROM and a disk are loaded, the machine is reset, INT 19h   *)
(* reads the boot sector, which reads the FAT and the root directory and   *)
(* follows the chain of KERNEL.BIN, which checks its last word and then    *)
(* writes a sector of its own.                                             *)
(*                                                                         *)
(* A read of INT 13h is one step (module DiskService has the steps).  What *)
(* the memory held before a reset it still holds after it.                 *)
(***************************************************************************)
EXTENDS Volume, Geometry

CONSTANTS
  DEFAULT,   \* the geometry of gen_bios.py and gen_disk.py without a file
  GEOS,      \* geometries of other images, and of --geometry
  TOTAL,     \* sectors of the image gen_disk makes
  DEVSIZE,   \* DISK_SECTORS of the board
  KSECS,     \* KERNEL_SECTORS
  KWRAP,     \* sectors of the kernel's segment (128): BX has 16 bits
  WLBA       \* the sector the kernel writes (20)

ASSUME BootAssumptions ==
  /\ KWRAP \in Nat /\ KSECS \in 1..KWRAP /\ TOTAL \in Nat
  /\ GEOS \cup {DEFAULT} \subseteq [spt : Nat, heads : Nat, from : {0}]

VARIABLES
  bpb,     \* the geometry in the image, and the run that made it
  geopy,   \* rom/geometry.py
  romfile, \* the geometry of the last ROM built
  rom,     \* the geometry of the ROM on the board
  disk, dbpb, \* the image on the board, and its geometry
  mpc,     \* where the machine is
  unit,    \* sectors read by this read_many
  cluster, \* V_CLUSTER
  low,     \* the memory from FAT_BUF on, by sectors
  kptr,    \* BX, in sectors
  kmem     \* the memory at KERNEL_SEG:0000

hostVars == <<bpb, geopy, romfile>>
boardVars == <<rom, disk, dbpb>>
machineVars == <<mpc, unit, cluster, low, kptr, kmem>>
bootVars == <<volumeVars, hostVars, boardVars, machineVars>>

(* A geometry is a record of spt and heads, and from: the run of a tool    *)
(* that made the image it describes, or 0.                                 *)
NoGeometry == [spt |-> 0, heads |-> 0, from |-> 0]
Chosen == IF geopy = NoGeometry THEN DEFAULT ELSE geopy

Kernel == "KERNEL.BIN"
LowSize == 2 + CHOOSE n \in ROOTS : \A m \in ROOTS : m <= n

BootInit ==
  /\ VolumeInit
  /\ bpb = NoGeometry /\ geopy = NoGeometry /\ romfile = DEFAULT
  /\ rom = DEFAULT /\ disk = NoImage /\ dbpb = NoGeometry
  /\ mpc = "off" /\ unit = 0 /\ cluster = 0 /\ kptr = 0
  /\ low = [i \in 0..LowSize |-> <<"junk", 0, 0>>]
  /\ kmem = [i \in 0..KWRAP - 1 |-> <<"junk", 0, 0>>]

Failures == {"read error", "no signature", "no file", "broken", "wild"}
Ends == Failures \cup {"checked"}

-----------------------------------------------------------------------------
(* The host.  Its files and the board share nothing until something is     *)
(* loaded, so its tools run while the machine is at rest; a load comes at  *)
(* any time.                                                               *)

(* gen_disk: padding so that the kernel crosses a head boundary, the       *)
(* kernel, and one more file; it refuses a layout without the crossing.    *)
GenDisk(rootn) ==
  LET spf == SizeFat(TOTAL, rootn, 1)
      start == DataStart(rootn, spf)
      pad == 2 * Chosen.spt - 2 - start
      kernelAt == start + (IF pad > 0 THEN pad ELSE 0)
      order == (IF pad > 0 THEN <<"PADDING.BIN">> ELSE <<>>)
                 \o <<Kernel, "README.TXT">>
      bodies == [name \in Named(order) |->
                   Body(name, CASE name = Kernel -> KSECS
                                [] name = "README.TXT" -> 1
                                [] OTHER -> pad)]
      v == Build(TOTAL, rootn, 1, order, bodies)
  IN /\ Run /\ Accepts(TOTAL, rootn, 1) /\ kernelAt + KSECS > Chosen.spt
     /\ v # NoImage /\ Saves(v, bodies, FALSE)
     /\ bpb' = [Chosen EXCEPT !.from = edits + 1]
     /\ UNCHANGED <<geopy, romfile, boardVars, machineVars>>

(* addfile: a new README, of another length, or a newly built kernel *)
ChangeFile ==
  /\ Replaced(Kernel, KSECS) \/ \E n \in LENGTHS : Replaced("README.TXT", n)
  /\ UNCHANGED <<hostVars, boardVars, machineVars>>

(* img2hex reads the geometry of this image, or of another one. *)
Img2Hex ==
  /\ \/ img # NoImage /\ geopy' = bpb
     \/ geopy' \in GEOS
  /\ UNCHANGED <<volumeVars, bpb, romfile, boardVars, machineVars>>

(* gen_bios takes --geometry, the file, or its own numbers. *)
GenBios ==
  /\ romfile' \in GEOS \cup {Chosen}
  /\ UNCHANGED <<volumeVars, bpb, geopy, boardVars, machineVars>>

-----------------------------------------------------------------------------
(* The board, from power-on.  A new ROM takes a reset by hand; loading a   *)
(* disk holds the processor in reset to the end.                           *)

Restart == /\ mpc # "off" /\ mpc' = "post"
           /\ UNCHANGED <<unit, cluster, low, kptr, kmem>>

PowerOn ==
  /\ mpc = "off" /\ mpc' = "post"
  /\ UNCHANGED <<volumeVars, hostVars, boardVars, unit, cluster, low, kptr, kmem>>

LoadRom ==
  /\ rom # romfile /\ rom' = romfile /\ Run /\ Restart
  /\ UNCHANGED <<img, files, system, hostVars, disk, dbpb>>

LoadDisk ==
  /\ img # NoImage /\ Run /\ Restart
  /\ disk' = img /\ dbpb' = bpb
  /\ UNCHANGED <<img, files, system, hostVars, rom>>

Reset ==
  /\ mpc = "checked" /\ Run /\ Restart
  /\ UNCHANGED <<img, files, system, hostVars, boardVars>>

-----------------------------------------------------------------------------
(* The sector the device has at lba. *)
SectorAt(v, lba) ==
  IF v = NoImage THEN <<"junk", 0, 0>>
  ELSE LET root == 1 + 2 * v.spf
           data == DataStart(v.rootn, v.spf)
       IN CASE lba = 0 -> <<"boot", 0, 0>>
            [] lba \in 1..root - 1 -> <<"fat", (lba - 1) % v.spf, 0>>
            [] lba \in root..data - 1 -> <<"root", lba - root, 0>>
            [] lba - data \in DOMAIN v.sect -> v.sect[lba - data]
            [] OTHER -> <<"junk", 0, 0>>

(* Where INT 13h ends up for the sector the boot sector wants *)
Asked(lba) == LbaOf(ChsOf(lba, dbpb), rom)

(* read_one: a sector the device does not have is an error, and the end.   *)
ReadOne(lba, place) ==
  IF Asked(lba) >= DEVSIZE
  THEN mpc' = "read error" /\ UNCHANGED <<unit, cluster, low, kptr, kmem>>
  ELSE place

(* Cold start: the BIOS data area and the vectors are set up before the    *)
(* interrupts are enabled; then INT 19h. *)
ColdStart ==
  /\ mpc = "post" /\ mpc' = "int19"
  /\ UNCHANGED <<unit, cluster, low, kptr, kmem>>

Int19 ==
  /\ mpc = "int19"
  /\ mpc' = IF LbaOf([ch |-> 0, dh |-> 0, cl |-> 1], rom) >= DEVSIZE
            THEN "read error"
            ELSE IF SectorAt(disk, 0) # <<"boot", 0, 0>> THEN "no signature"
            ELSE "fat"
  /\ unit' = 0 /\ UNCHANGED <<cluster, low, kptr, kmem>>

(* read_many, for the FAT and then for the root directory, which lands     *)
(* where all but the first sector of the FAT was.                          *)
ReadMany(here, first, count, slot, then) ==
  /\ mpc = here
  /\ ReadOne(first + unit,
       /\ low' = [low EXCEPT ![slot + unit] = SectorAt(disk, Asked(first + unit))]
       /\ IF unit + 1 = count THEN unit' = 0 /\ mpc' = then
          ELSE unit' = unit + 1 /\ UNCHANGED mpc
       /\ UNCHANGED <<cluster, kptr, kmem>>)

ReadFat == ReadMany("fat", 1, disk.spf, 0, "root")
ReadRoot == ReadMany("root", 1 + 2 * disk.spf, RootSectors(disk.rootn), 1, "scan")

(* The search compares every slot of the directory. *)
PerSector == SECTOR \div 32
SlotIs(i) ==
  LET s == low[1 + (i \div PerSector)]
  IN s[1] = "root" /\ disk.root[s[2] * PerSector + (i % PerSector)].name = Kernel
Scan ==
  /\ mpc = "scan"
  /\ LET hits == {i \in 0..disk.rootn - 1 : SlotIs(i)}
         i == CHOOSE j \in hits : \A k \in hits : j <= k
         e == disk.root[low[1 + (i \div PerSector)][2] * PerSector + (i % PerSector)]
     IN IF hits = {} THEN mpc' = "no file" /\ UNCHANGED cluster
        ELSE mpc' = "load" /\ cluster' = e.first
  /\ kptr' = 0 /\ UNCHANGED <<unit, low, kmem>>

(* One cluster is one sector to this loader. *)
LoadCluster ==
  /\ mpc = "load" /\ cluster < ENDMARKS
  /\ LET lba == cluster + DataStart(disk.rootn, disk.spf) - 2
     IN ReadOne(lba,
          /\ kmem' = [kmem EXCEPT ![kptr] = SectorAt(disk, Asked(lba))]
          /\ kptr' = (kptr + 1) % KWRAP
          /\ IF low[0] = <<"fat", 0, 0>> /\ cluster + (cluster \div 2) + 1 < SECTOR
             THEN cluster' = FatNext(disk.fats[1], cluster) /\ UNCHANGED mpc
             ELSE UNCHANGED cluster /\ mpc' = "wild"
          /\ UNCHANGED <<unit, low>>)

IsKernel(s, j) == s[1] = Kernel /\ s[3] = j

(* The far jump to what is at KERNEL_SEG:0000 *)
Jump ==
  /\ mpc = "load" /\ cluster >= ENDMARKS
  /\ mpc' = IF IsKernel(kmem[0], 1) THEN "tail" ELSE "wild"
  /\ UNCHANGED <<unit, cluster, low, kptr, kmem>>

HeadIsThere == IsKernel(kmem[0], 1)

(* "This turns 'the kernel ran' into 'the whole file is here'" *)
TailIsThere == IsKernel(kmem[KSECS - 1], KSECS)
CheckTail ==
  /\ mpc = "tail" /\ mpc' = IF TailIsThere THEN "running" ELSE "broken"
  /\ UNCHANGED <<unit, cluster, low, kptr, kmem>>

(* The kernel writes sector WLBA, in the geometry its image was made for,  *)
(* and reads it back.                                                      *)
Marked(v, lba) ==
  LET s == lba - DataStart(v.rootn, v.spf)
  IN IF s \in DOMAIN v.sect THEN [v EXCEPT !.sect[s] = <<"mark", 0, 0>>]
     ELSE NoImage
KernelWrites ==
  /\ mpc = "running" /\ mpc' = "checked"
  /\ IF Asked(WLBA) >= DEVSIZE THEN UNCHANGED disk
     ELSE disk' = Marked(disk, Asked(WLBA))
  /\ UNCHANGED <<rom, dbpb, unit, cluster, low, kptr, kmem>>

MachineStep ==
  /\ \/ UNCHANGED boardVars
        /\ (ColdStart \/ Int19 \/ ReadFat \/ ReadRoot \/ Scan \/ LoadCluster
             \/ Jump \/ CheckTail)
     \/ KernelWrites
  /\ UNCHANGED <<volumeVars, hostVars>>

BootNext ==
  \/ mpc \in Ends /\ \/ \E rootn \in ROOTS : GenDisk(rootn)
                     \/ ChangeFile \/ Img2Hex \/ GenBios
  \/ PowerOn \/ LoadRom \/ LoadDisk \/ Reset
  \/ MachineStep

(* The processor goes on. *)
BootFairness == WF_bootVars(MachineStep)
BootSpec == BootInit /\ [][BootNext]_bootVars /\ BootFairness

-----------------------------------------------------------------------------
(* A kernel that announces itself is whole, whatever geometry the BIOS was *)
(* built for and whatever an earlier boot left in memory (gen_disk.py,     *)
(* "This turns 'the kernel ran' into 'the whole file is here'").           *)
KernelWhole ==
  mpc = "running" =>
    [j \in 1..KSECS |-> kmem[j - 1]]
      = ReadFile(disk, disk.root[EntryOf(disk, Kernel)])

(* When the ROM was built after img2hex had read the image on the board,   *)
(* the machine boots it, as often as it is reset.  Nothing but the order   *)
(* of the tools makes the two geometries agree.                            *)
StepsBoot ==
  rom.from # 0 /\ rom.from = dbpb.from => mpc \notin Failures

(* Every reset ends in a running kernel or in a message and a halt, unless *)
(* the processor has run into something that is no code.                   *)
BootDecides == mpc = "post" ~> mpc \in Ends
=============================================================================
