----------------------------- MODULE FatEntries -----------------------------
(***************************************************************************)
(* The entries of a FAT12: twelve bits each, two in every three bytes, so  *)
(* neighbours share a byte.  Four pieces of code have to agree on it: the  *)
(* builder packs them (fat12.py), mkdisk and addfile read them, addfile    *)
(* changes one in place, and the boot sector follows a chain of them in    *)
(* machine code (gen_disk.py).  A FAT is a function from 0 on to bytes.    *)
(***************************************************************************)
EXTENDS Integers

(* The builder: two entries make three bytes; a lone last one is beside 0. *)
Entry(fat, c) == IF c \in DOMAIN fat THEN fat[c] % 4096 ELSE 0
LowByte(lo, hi) == lo % 256
MiddleByte(lo, hi) == lo \div 256 + 16 * (hi % 16)
HighByte(lo, hi) == hi \div 16
Pack(fat, len) ==
  [b \in 0..len - 1 |->
     LET lo == Entry(fat, 2 * (b \div 3))
         hi == Entry(fat, 2 * (b \div 3) + 1)
     IN CASE b % 3 = 0 -> LowByte(lo, hi)
          [] b % 3 = 1 -> MiddleByte(lo, hi)
          [] OTHER -> HighByte(lo, hi)]

(* Entry c is in the two bytes from here on, and so is half a neighbour.   *)
EntryAt(c) == (c * 3) \div 2
PairAt(f, o) == f[o] + 256 * f[o + 1]
Low(w) == w % 256
High(w) == (w \div 256) % 256
PutWord(f, o, w) == [f EXCEPT ![o] = Low(w), ![o + 1] = High(w)]

(* entry, and addfile's get *)
Get(f, c) ==
  LET v == PairAt(f, EntryAt(c)) IN IF c % 2 = 1 THEN v \div 16 ELSE v % 4096

Put12Nibble(f, c, x) ==
  PutWord(f, EntryAt(c), IF c % 2 = 1 THEN x * 16 + (f[EntryAt(c)] % 16)
                       ELSE x % 4096)

(* addfile's put: the entry goes in among the bits of its neighbour. *)
Put12(f, c, x) ==
  LET v == PairAt(f, EntryAt(c))
  IN PutWord(f, EntryAt(c), IF c % 2 = 1 THEN x * 16 + (v % 16)
                          ELSE (v \div 4096) * 4096 + (x % 4096))

FatNextEven(f, n) ==
  PairAt(f, n + (n \div 2)) % 4096
FatNextNotStored(f, n) == n

(* fat_next of the boot sector: two bytes from n + n/2 on, and the half    *)
(* that is n's.                                                            *)
FatNext(f, n) ==
  LET v == PairAt(f, n + (n \div 2))
  IN IF n % 2 = 0 THEN v % 4096 ELSE v \div 16
=============================================================================
