------------------------------- MODULE Volume -------------------------------
(***************************************************************************)
(* FAT12 volumes as the disk tools make and change them: the builder       *)
(* (fat12.py), the rebuild of a volume at another size (mkdisk.py) and the *)
(* replacement of one file in place (addfile.py).  Each program reads its  *)
(* input, works in memory and writes the image at the end, so a run of one *)
(* is a step.  MS-DOS, which deletes files on the machine, is outside.     *)
(*                                                                         *)
(* A file is a sequence of sectors; the bytes of the FAT are modelled one  *)
(* by one (FatEntries), and a change is taken from the first copy and goes *)
(* into every copy.                                                        *)
(***************************************************************************)
EXTENDS FatEntries, Sequences, FiniteSets

CONSTANTS
  SECTOR,      \* bytes of a sector (512)
  MAXCLUSTERS, \* MAX_CLUSTERS (4084)
  ENDMARKS,    \* 0FF0h: the first value that ends a chain
  SIZES,       \* volume sizes, in sectors
  ROOTS,       \* root directory sizes, in entries
  LENGTHS,     \* file lengths, in sectors
  FILES,       \* file names
  MaxEdits     \* bound: programs run in a behaviour

ASSUME VolumeAssumptions ==
  /\ SECTOR \in Nat /\ SECTOR % 32 = 0 /\ SECTOR > 0
  /\ ENDMARKS \in 3..4088 /\ MAXCLUSTERS \in Nat
  /\ SIZES \subseteq Nat /\ ROOTS \subseteq Nat /\ LENGTHS \subseteq Nat
  /\ IsFiniteSet(FILES)

VARIABLES
  img,    \* the image file
  files,  \* history: what should be in it, by name
  system, \* history: it was rebuilt, and its system files never deleted
  edits   \* programs run so far

volumeVars == <<img, files, system, edits>>

CeilDiv(n, d) == (n + d - 1) \div d
AtLeast1(n) == IF n < 1 THEN 1 ELSE n

-----------------------------------------------------------------------------
(* The layout: one reserved sector, two FATs, the root, the clusters.      *)

RootSectors(rootn) == (rootn * 32) \div SECTOR
DataStart(rootn, spf) == 1 + 2 * spf + RootSectors(rootn)
ClusterCount(total, rootn, spc, spf) ==
  (total - DataStart(rootn, spf)) \div spc
FatSectorsFor(clusters) == CeilDiv(((clusters + 2) * 3 + 1) \div 2, SECTOR)

(* The FAT grows until it holds the clusters it leaves room for.  That is  *)
(* once at most: a larger FAT leaves no more clusters.  0 when there is no *)
(* room for a cluster.                                                     *)
Grown(total, rootn, spc, spf) ==
  LET need == FatSectorsFor(ClusterCount(total, rootn, spc, spf))
  IN IF need <= spf THEN spf ELSE need
SizeFat(total, rootn, spc) ==
  LET spf == Grown(total, rootn, spc, 1)
  IN IF total > DataStart(rootn, 1) /\ total > DataStart(rootn, spf)
     THEN spf ELSE 0

(* Fat12.__init__ accepts the volume. *)
Accepts(total, rootn, spc) ==
  LET spf == SizeFat(total, rootn, spc)
  IN /\ total >= 16 /\ rootn % (SECTOR \div 32) = 0 /\ spf > 0
     /\ ClusterCount(total, rootn, spc, spf) <= MAXCLUSTERS

PickClusterSize(total, rootn) ==
  LET ok == {spc \in {1, 2, 4, 8, 16, 32, 64} : Accepts(total, rootn, spc)}
  IN IF ok = {} THEN 0 ELSE CHOOSE spc \in ok : \A more \in ok : spc <= more

(* What the programs take for granted: no cluster of a volume that is      *)
(* accepted has a number that ends a chain.                                *)
BelowMarks(total) ==
  \A rootn \in ROOTS, spc \in {1, 2, 4, 8, 16, 32, 64} :
    Accepts(total, rootn, spc) =>
      ClusterCount(total, rootn, spc, SizeFat(total, rootn, spc)) + 1 < ENDMARKS
NumbersBelowMarks == \A total \in SIZES : BelowMarks(total)

-----------------------------------------------------------------------------
(* The builder. *)

Zero == <<"zero", 0, 0>>
NoFs == [total |-> 0]

NewFs(total, rootn, spc) ==
  LET spf == SizeFat(total, rootn, spc)
      n == ClusterCount(total, rootn, spc, spf)
  IN [total |-> total, rootn |-> rootn, spc |-> spc, spf |-> spf, count |-> n,
      fat |-> [c \in 0..n + 1 |-> IF c = 0 THEN 4088 ELSE IF c = 1 THEN 4095
                                  ELSE 0],
      dirents |-> <<>>, next |-> 2, sect |-> [s \in 0..n * spc - 1 |-> Zero]]

(* A file gets the next clusters in a row; a volume that cannot take it is *)
(* no volume.                                                              *)
AddFile(fs, name, body) ==
  LET first == fs.next
      need == AtLeast1(CeilDiv(Len(body), fs.spc))
      last == first + need - 1
      at == (first - 2) * fs.spc
      Taken == \E i \in DOMAIN fs.dirents : fs.dirents[i].name = name
  IN IF fs = NoFs THEN NoFs
     ELSE IF Taken \/ Len(fs.dirents) >= fs.rootn \/ last > fs.count + 1 THEN NoFs
     ELSE [fs EXCEPT
             !.next = last + 1,
             !.dirents = Append(@, [name |-> name, first |-> first,
                                    size |-> Len(body)]),
             !.fat = [c \in DOMAIN @ |-> IF c \notin first..last THEN @[c]
                                         ELSE IF c < last THEN c + 1 ELSE 4095],
             !.sect = [s \in DOMAIN @ |-> IF s - at \in 0..Len(body) - 1
                                          THEN body[s - at + 1] ELSE @[s]]]

FatBytes(fs) == Pack(fs.fat, fs.spf * SECTOR)

(* The packing loop writes three bytes for the last pair, though a lone    *)
(* last entry needs two: it raises when the third is past the end.         *)
Packs(fs) == 3 * ((fs.count + 1) \div 2) + 2 < fs.spf * SECTOR

Vacant == [name |-> "vacant", first |-> 0, size |-> 0]
Deleted == [name |-> "deleted", first |-> 0, size |-> 0]
NoImage == [total |-> 0]

Image(fs) ==
  IF fs = NoFs THEN NoImage ELSE IF ~Packs(fs) THEN NoImage
  ELSE [total |-> fs.total, rootn |-> fs.rootn, spc |-> fs.spc, spf |-> fs.spf,
        fats |-> <<FatBytes(fs), FatBytes(fs)>>,
        root |-> [i \in 0..fs.rootn - 1 |->
                    IF i < Len(fs.dirents) THEN fs.dirents[i + 1] ELSE Vacant],
        sect |-> fs.sect]

(* order is a sequence of names, bodies what each holds *)
Build(total, rootn, spc, order, bodies) ==
  LET built[k \in 0..Len(order)] ==
        IF k = 0 THEN NewFs(total, rootn, spc)
        ELSE AddFile(built[k - 1], order[k], bodies[order[k]])
  IN Image(built[Len(order)])

-----------------------------------------------------------------------------
(* Reading a volume (read_fat12) and changing one (addfile). *)

(* At most n clusters from c on. *)
Chain(f, c, n) ==
  LET read[k \in 0..n] ==
        IF k = 0 THEN <<>>
        ELSE LET s == read[k - 1]
                 d == IF k = 1 THEN c ELSE Get(f, s[k - 1])
             IN IF Len(s) = k - 1 /\ d \in 2..ENDMARKS - 1 THEN Append(s, d) ELSE s
  IN read[n]

ClustersOf(v) == 2..ClusterCount(v.total, v.rootn, v.spc, v.spf) + 1
WholeChain(v, c) == Chain(v.fats[1], c, Cardinality(ClustersOf(v)))

(* Where sector j of a file with this chain is. *)
Spot(spc, chain, j) ==
  (chain[((j - 1) \div spc) + 1] - 2) * spc + ((j - 1) % spc)

ReadFile(v, e) ==
  LET chain == Chain(v.fats[1], e.first, CeilDiv(e.size, v.spc) + 1)
      got == Len(chain) * v.spc
  IN [j \in 1..(IF e.size < got THEN e.size ELSE got) |->
        v.sect[Spot(v.spc, chain, j)]]

(* The directory is read up to the first entry that was never used. *)
Entries(v) ==
  {i \in 0..v.rootn - 1 : /\ v.root[i] # Deleted
                          /\ \A j \in 0..i : v.root[j] # Vacant}
NamesIn(v) == {v.root[i].name : i \in Entries(v)}
EntryOf(v, name) == CHOOSE i \in Entries(v) : v.root[i].name = name
Listing(v) == [name \in NamesIn(v) |-> ReadFile(v, v.root[EntryOf(v, name)])]

PutAll(v, f) == [v EXCEPT !.fats = <<f, f>>]
FreeChainHead(v, c) == PutAll(v, Put12(v.fats[1], c, 0))

FreeChain(v, c) ==
  LET chain == WholeChain(v, c)
      freed[k \in 0..Len(chain)] ==
        IF k = 0 THEN v.fats[1] ELSE Put12(freed[k - 1], chain[k], 0)
  IN PutAll(v, freed[Len(chain)])

(* The free clusters, from the lowest on. *)
FreeClusters(f, n) ==
  LET found[k \in 0..n] ==
        IF k = 0 THEN <<>>
        ELSE IF Get(f, k + 1) = 0 THEN Append(found[k - 1], k + 1) ELSE found[k - 1]
  IN found[n]

(* The clusters in use become a chain. *)
Linked(f, use, n) ==
  LET linked[i \in 0..n] ==
        IF i = 0 THEN f
        ELSE Put12(linked[i - 1], use[i], IF i = n THEN 4095 ELSE use[i + 1])
  IN linked[n]

(* addfile: a file of that name gives its clusters back first, and then    *)
(* the lowest free clusters are taken.                                     *)
Replace(v, name, body) ==
  LET old == name \in NamesIn(v)
      blank == {i \in 0..v.rootn - 1 : v.root[i] \in {Vacant, Deleted}}
      slot == IF old THEN EntryOf(v, name)
              ELSE CHOOSE i \in blank : \A j \in blank : i <= j
      w == IF old THEN FreeChain(v, v.root[slot].first) ELSE v
      free == FreeClusters(w.fats[1], ClusterCount(v.total, v.rootn, v.spc, v.spf))
      need == AtLeast1(CeilDiv(Len(body), v.spc))
      use == SubSeq(free, 1, need)
      Place(s) == {i \in 1..need : s \div v.spc = use[i] - 2}
      Written(s) == ((CHOOSE i \in Place(s) : TRUE) - 1) * v.spc + (s % v.spc) + 1
  IN IF (~old /\ blank = {}) \/ Len(free) < need THEN NoImage
     ELSE [PutAll(w, Linked(w.fats[1], use, need)) EXCEPT
             !.root[slot] = [name |-> name, first |-> use[1], size |-> Len(body)],
             !.sect = [s \in DOMAIN @ |->
                IF Place(s) = {} THEN @[s]
                ELSE IF Written(s) <= Len(body) THEN body[Written(s)] ELSE Zero]]

-----------------------------------------------------------------------------
Body(name, n) == [j \in 1..n |-> <<name, edits, j>>]
Empty == [name \in {} |-> <<>>]
Named(order) == {order[i] : i \in DOMAIN order}

VolumeInit == img = NoImage /\ files = Empty /\ system = FALSE /\ edits = 0

Run == edits < MaxEdits /\ edits' = edits + 1

(* A program that raises leaves the image as it was. *)
Saves(v, wanted, sys) ==
  IF v = NoImage THEN UNCHANGED <<img, files, system>>
  ELSE img' = v /\ files' = wanted /\ system' = sys

(* A new volume with some files, in some order (gen_disk's use). *)
Format(total, rootn, order, n) ==
  LET bodies == [name \in Named(order) |-> Body(name, n)]
      spc == PickClusterSize(total, rootn)
  IN /\ img = NoImage /\ spc # 0 /\ Run
     /\ Saves(Build(total, rootn, spc, order, bodies), bodies, FALSE)

Replaced(name, n) ==
  /\ img # NoImage /\ Run
  /\ LET body == Body(name, n)
     IN Saves(Replace(img, name, body),
              [f \in DOMAIN files \cup {name} |->
                 IF f = name THEN body ELSE files[f]], system)

(* The names in the order of the directory, without some. *)
NamesFound(v, without) ==
  LET names[k \in 0..v.rootn] ==
        IF k = 0 THEN <<>>
        ELSE IF k - 1 \in Entries(v) /\ v.root[k - 1].name \notin without
             THEN Append(names[k - 1], v.root[k - 1].name) ELSE names[k - 1]
  IN names[v.rootn]

(* mkdisk: the system files first, the others as they came. *)
SystemFiles == <<"IO.SYS", "MSDOS.SYS">>
NamesAsFound(v) == NamesFound(v, {})
Reordered(v) == SystemFiles \o NamesFound(v, Named(SystemFiles))
Rebuild(total) ==
  LET spc == PickClusterSize(total, img.rootn)
  IN /\ img # NoImage /\ Named(SystemFiles) \subseteq NamesIn(img) /\ spc # 0
     /\ Run
     /\ Saves(Build(total, img.rootn, spc, Reordered(img), Listing(img)),
              files, TRUE)

(* MS-DOS, on the machine, deletes a file. *)
DosDelete(name) ==
  /\ img # NoImage /\ name \in DOMAIN files /\ Run
  /\ LET i == EntryOf(img, name)
         v == FreeChain(img, img.root[i].first)
     IN Saves([v EXCEPT !.root[i] = Deleted],
              [f \in DOMAIN files \ {name} |-> files[f]],
              system /\ name \notin Named(SystemFiles))

Orders == UNION {{s \in [1..k -> FILES] : \A i, j \in 1..k : s[i] = s[j] => i = j}
                 : k \in 1..Cardinality(FILES)}

VolumeNext ==
  \/ \E total \in SIZES, rootn \in ROOTS, order \in Orders, n \in LENGTHS :
       Format(total, rootn, order, n)
  \/ \E name \in FILES, n \in LENGTHS : Replaced(name, n)
  \/ \E total \in SIZES : Rebuild(total)
  \/ \E name \in FILES : DosDelete(name)

VolumeSpec == VolumeInit /\ [][VolumeNext]_volumeVars

-----------------------------------------------------------------------------
(* Whatever was built, replaced, deleted and rebuilt, in whatever order,   *)
(* the volume reads back as the files that should be in it.                *)
ReadsBack == img # NoImage => Listing(img) = files

(* A cluster is in use exactly when one file has it, and one only, and the *)
(* two copies of the FAT agree: "editing the image by hand is how a        *)
(* directory entry ends up disagreeing with its FAT chain" (addfile.py).   *)
NoLostClusters ==
  img # NoImage =>
    /\ img.fats[1] = img.fats[2]
    /\ \A c \in ClustersOf(img) :
         Cardinality({i \in Entries(img) :
                        c \in Named(WholeChain(img, img.root[i].first))})
           = IF Get(img.fats[1], c) = 0 THEN 0 ELSE 1

(* IO.SYS is the first root entry and MSDOS.SYS the second (mkdisk.py),    *)
(* and stay so when they are replaced and files around them come and go.   *)
SystemFilesFirst ==
  system => /\ img.root[0].name = "IO.SYS"
            /\ img.root[1].name = "MSDOS.SYS"
=============================================================================
