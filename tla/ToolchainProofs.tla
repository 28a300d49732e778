--------------------------- MODULE ToolchainProofs ---------------------------
(***************************************************************************)
(* What the assembler emits and what the disk tools write, for every       *)
(* program, FAT and geometry.                                              *)
(*                                                                         *)
(* Assembler: each instruction's bytes decode as the instruction, whatever *)
(* follows them (the Reads... lemmas, one for each class); every call adds *)
(* its instructions behind those that are there (LaidOut), with a hole for *)
(* each reference (Holed) and a label of its own for each jump that        *)
(* jcc_far makes up (Skips).  Together these are inductive (AsmInv).  When *)
(* resolve comes, no hole lies in another instruction, so filling one      *)
(* keeps what the others read (HoleClear), and by induction over the holes *)
(* every reference reads as the way to its label (ResolveReads).           *)
(*                                                                         *)
(* Entries of the FAT: writing one and reading it back, what happens to    *)
(* its neighbour, packing, and the boot sector's own reading.  Geometry:   *)
(* the BIOS undoes what the boot sector does to a sector number.           *)
(*                                                                         *)
(* Volumes: what is built, replaced, deleted and rebuilt reads back, with  *)
(* no cluster lost, as long as the sizes leave the numbers of clusters     *)
(* below the marks that end a chain (NumbersBelowMarks).                   *)
(***************************************************************************)
EXTENDS Toolchain, SequenceTheorems, FiniteSetTheorems, WellFoundedInduction, TLAPS

-----------------------------------------------------------------------------
(* Induction over the naturals, for a set, and the function that a step    *)
(* defines: what the library's schemes say of an operator, said of sets.   *)

LEMMA Induction ==
  ASSUME NEW S, 0 \in S, \A n \in Nat : n \in S => n + 1 \in S
  PROVE  \A n \in Nat : n \in S
<1> DEFINE Less == {p \in Nat \X Nat : p[1] < p[2]}
           Missed == Nat \ S
<1>1. IsWellFoundedOn(Less, Nat)
  BY NatLessThanWellFounded, Zenon DEF OpToRel
<1>2. SUFFICES ASSUME Missed # {} PROVE FALSE
  OBVIOUS
<1>3. PICK x \in Missed : \A y \in Missed : <<y, x>> \notin Less
  <2> HIDE DEF Less
  <2>1. Missed \subseteq Nat
    OBVIOUS
  <2> HIDE DEF Missed
  <2> QED BY <1>1, <1>2, <2>1, WFMin, Zenon
<1>4. x \in Nat /\ x # 0 /\ x - 1 \in Nat
  OBVIOUS
<1>5. x - 1 \notin S
  <2>1. (x - 1) + 1 = x
    BY <1>4
  <2> QED BY <1>4, <2>1
<1>6. <<x - 1, x>> \in Less
  BY <1>4
<1> QED BY <1>3, <1>4, <1>5, <1>6

(* A function can be defined by recursion: the step may depend on the      *)
(* argument.                                                               *)
Unrolls(f, x, F, n) ==
  f[0] = x /\ \A i \in Nat : i < n => f[i + 1] = F[<<i, f[i]>>]

Recurs(f, x, F) == f[0] = x /\ \A n \in Nat : f[n + 1] = F[<<n, f[n]>>]

LEMMA Recursion ==
  ASSUME NEW S, NEW x \in S, NEW F \in [Nat \X S -> S]
  PROVE  \E f \in [Nat -> S] : Recurs(f, x, F)
<1> DEFINE Upto(n) == {g \in [0..n -> S] : Unrolls(g, x, F, n)}
           Some == {n \in Nat : Upto(n) # {}}
<1>1. \A n \in Nat : n \in Some
  <2>1. 0 \in Some
    <3>1. [i \in 0..0 |-> x] \in Upto(0)
      BY DEF Unrolls
    <3> QED BY <3>1
  <2>2. ASSUME NEW n \in Nat, n \in Some PROVE n + 1 \in Some
    <3>1. PICK g \in [0..n -> S] : Unrolls(g, x, F, n)
      BY <2>2
    <3> DEFINE h == [i \in 0..n + 1 |-> IF i \in 0..n THEN g[i] ELSE F[<<n, g[n]>>]]
    <3>2. n \in 0..n /\ 0 \in 0..n /\ n + 1 \notin 0..n /\ n + 1 \in 0..n + 1
      OBVIOUS
    <3>3. g[n] \in S /\ F[<<n, g[n]>>] \in S
      BY <3>1, <3>2
    <3>4. h \in [0..n + 1 -> S]
      BY <3>1, <3>3
    <3>5. ASSUME NEW i \in Nat, i < n + 1 PROVE h[i + 1] = F[<<i, h[i]>>]
      <4>1. CASE i = n
        BY <4>1, <3>2
      <4>2. CASE i # n
        <5>1. i < n /\ i \in 0..n /\ i + 1 \in 0..n /\ i + 1 \in 0..n + 1 /\ i \in 0..n + 1
          BY <3>5, <4>2
        <5>2. g[i + 1] = F[<<i, g[i]>>]
          BY <5>1, <3>1 DEF Unrolls
        <5> QED BY <5>1, <5>2
      <4> QED BY <4>1, <4>2
    <3>6. h[0] = x
      BY <3>1, <3>2 DEF Unrolls
    <3>7. h \in Upto(n + 1)
      <4> HIDE DEF h
      <4> QED BY <3>4, <3>5, <3>6 DEF Unrolls
    <3> QED BY <3>7
  <2> HIDE DEF Some
  <2> QED BY <2>1, <2>2, Induction
<1>2. ASSUME NEW n \in Nat, NEW m \in Nat, NEW g \in Upto(n), NEW h \in Upto(m)
      PROVE  \A i \in Nat : i <= n /\ i <= m => g[i] = h[i]
  <2> DEFINE Same == {i \in Nat : i <= n /\ i <= m => g[i] = h[i]}
  <2>1. 0 \in Same
    BY DEF Unrolls
  <2>2. ASSUME NEW i \in Nat, i \in Same PROVE i + 1 \in Same
    <3> SUFFICES ASSUME i + 1 <= n, i + 1 <= m PROVE g[i + 1] = h[i + 1]
      OBVIOUS
    <3>1. i < n /\ i < m /\ g[i] = h[i]
      BY <2>2
    <3> QED BY <3>1 DEF Unrolls
  <2>3. \A i \in Nat : i \in Same
    <3> HIDE DEF Same
    <3> QED BY <2>1, <2>2, Induction
  <2> QED BY <2>3
<1> DEFINE pick(n) == CHOOSE g \in Upto(n) : TRUE
           f == [n \in Nat |-> pick(n)[n]]
<1>3. ASSUME NEW n \in Nat PROVE pick(n) \in Upto(n)
  BY <1>1
<1>4. ASSUME NEW n \in Nat PROVE pick(n)[n] \in S
  BY <1>3
<1>5. f \in [Nat -> S]
  BY <1>4
<1>6. f[0] = x
  BY <1>3 DEF Unrolls
<1>7. ASSUME NEW n \in Nat PROVE f[n + 1] = F[<<n, f[n]>>]
  <2>1. n + 1 \in Nat /\ n < n + 1 /\ n <= n /\ n <= n + 1
    OBVIOUS
  <2>2. pick(n + 1) \in Upto(n + 1) /\ pick(n) \in Upto(n)
    BY <1>3, <2>1
  <2>3. pick(n)[n] = pick(n + 1)[n]
    <3> HIDE DEF pick, Upto
    <3> QED BY <1>2, <2>1, <2>2
  <2>4. pick(n + 1)[n + 1] = F[<<n, pick(n + 1)[n]>>]
    BY <2>1, <2>2 DEF Unrolls
  <2> HIDE DEF pick
  <2> QED BY <2>1, <2>3, <2>4
<1> HIDE DEF f
<1> QED BY <1>5, <1>6, <1>7 DEF Recurs

-----------------------------------------------------------------------------
(* Bytes in an image.                                                      *)

(* The bytes s are in the image f from a on. *)
Holds(f, a, s) == \A k \in 1..Len(s) : f[a + k - 1] = s[k]

LEMMA HoldsOne ==
  ASSUME NEW f, NEW a \in Int, NEW x, Holds(f, a, <<x>>)
  PROVE  f[a] = x
<1>1. 1 \in 1..Len(<<x>>) /\ <<x>>[1] = x /\ a + 1 - 1 = a
  OBVIOUS
<1> QED BY <1>1 DEF Holds

LEMMA HoldsTwo ==
  ASSUME NEW f, NEW a \in Int, NEW x, NEW y, Holds(f, a, <<x, y>>)
  PROVE  f[a] = x /\ f[a + 1] = y
<1>1. /\ 1 \in 1..Len(<<x, y>>) /\ <<x, y>>[1] = x /\ a + 1 - 1 = a
      /\ 2 \in 1..Len(<<x, y>>) /\ <<x, y>>[2] = y /\ a + 2 - 1 = a + 1
  OBVIOUS
<1> QED BY <1>1 DEF Holds

LEMMA HoldsThree ==
  ASSUME NEW f, NEW a \in Int, NEW x, NEW y, NEW z, Holds(f, a, <<x, y, z>>)
  PROVE  f[a] = x /\ f[a + 1] = y /\ f[a + 2] = z
<1> DEFINE s == <<x, y, z>>
<1>1. /\ 1 \in 1..Len(s) /\ s[1] = x /\ a + 1 - 1 = a
      /\ 2 \in 1..Len(s) /\ s[2] = y /\ a + 2 - 1 = a + 1
      /\ 3 \in 1..Len(s) /\ s[3] = z /\ a + 3 - 1 = a + 2
  OBVIOUS
<1>2. Holds(f, a, s)
  OBVIOUS
<1> HIDE DEF s
<1> QED BY <1>1, <1>2 DEF Holds

LEMMA HoldsBoth ==
  ASSUME NEW f, NEW a \in Int, NEW S, NEW s \in Seq(S), NEW t \in Seq(S),
         Holds(f, a, s \o t)
  PROVE  Holds(f, a, s) /\ Holds(f, a + Len(s), t)
<1>1. /\ Len(s \o t) = Len(s) + Len(t) /\ Len(s) \in Nat /\ Len(t) \in Nat
      /\ \A k \in 1..Len(s) + Len(t) :
           (s \o t)[k] = IF k <= Len(s) THEN s[k] ELSE t[k - Len(s)]
  BY ConcatProperties, LenProperties
<1>2. ASSUME NEW k \in 1..Len(s) PROVE f[a + k - 1] = s[k]
  <2>1. k \in 1..Len(s \o t) /\ (s \o t)[k] = s[k]
    BY <1>1
  <2> QED BY <2>1 DEF Holds
<1>3. ASSUME NEW k \in 1..Len(t) PROVE f[(a + Len(s)) + k - 1] = t[k]
  <2> DEFINE m == Len(s) + k
  <2>1. /\ m \in 1..Len(s \o t) /\ m \in 1..Len(s) + Len(t) /\ ~(m <= Len(s))
        /\ m - Len(s) = k /\ (a + Len(s)) + k - 1 = a + m - 1
    BY <1>1
  <2>2. (s \o t)[m] = t[k]
    <3> HIDE DEF m
    <3> QED BY <1>1, <2>1
  <2>3. f[a + m - 1] = (s \o t)[m]
    <3> HIDE DEF m
    <3> QED BY <2>1 DEF Holds
  <2> HIDE DEF m
  <2> QED BY <2>1, <2>2, <2>3
<1> QED BY <1>2, <1>3 DEF Holds

LEMMA ByteParts ==
  ASSUME NEW mod \in 0..3, NEW field \in 0..7, NEW rm \in 0..7,
         NEW b, b = 64 * mod + 8 * field + rm
  PROVE  b \in 0..255 /\ b \div 64 = mod /\ b % 8 = rm /\ (b \div 8) % 8 = field
<1>1. b \in Int /\ b \div 8 = 8 * mod + field
  BY SMT
<1> QED BY <1>1, SMT

LEMMA WordRead ==
  ASSUME NEW x \in Int
  PROVE  /\ x % Two8 \in 0..255 /\ (x \div Two8) % Two8 \in 0..255
         /\ (x % Two8) + Two8 * ((x \div Two8) % Two8) = x % Two16
  BY SMT DEF Two8, Two16

LEMMA SignedRead ==
  ASSUME NEW x \in -128..127 PROVE Signed8(x % Two8) = x
  BY SMT DEF Two8, Signed8

(* The number of an address form. *)
LEMMA FormNumber ==
  ASSUME NEW form \in Range(Forms)
  PROVE  /\ RmOf(form) \in 0..7 /\ Forms[RmOf(form) + 1] = form
         /\ form = "BP" <=> RmOf(form) = 6
         /\ form # "reg" /\ form # "direct"
<1>1. DOMAIN Forms = 1..8
  BY DEF Forms
<1>2. PICK i \in 1..8 : Forms[i] = form
  BY <1>1 DEF Range
<1>3. ASSUME NEW j \in 1..8, Forms[j] = form PROVE j = i
  BY <1>2, <1>3 DEF Forms
<1>4. RmOf(form) = i - 1
  <2>1. (CHOOSE j \in DOMAIN Forms : Forms[j] = form) = i
    BY <1>1, <1>2, <1>3
  <2> QED BY <2>1 DEF RmOf
<1>5. form = "BP" <=> i = 7
  BY <1>2 DEF Forms
<1>6. form # "reg" /\ form # "direct"
  BY <1>2 DEF Forms
<1>7. RmOf(form) + 1 = i /\ RmOf(form) \in 0..7
  BY <1>4
<1> QED BY <1>2, <1>5, <1>6, <1>7

Bytes == Seq(Int)

LEMMA OneAndWord ==
  ASSUME NEW x \in Int, NEW n \in Int
  PROVE  /\ Word16(n) \in Bytes /\ Len(Word16(n)) = 2
         /\ <<x>> \o Word16(n) = <<x, n % Two8, (n \div Two8) % Two8>>
         /\ <<x>> \o Word16(n) \in Bytes /\ Len(<<x>> \o Word16(n)) = 3
<1>1. n % Two8 \in Int /\ (n \div Two8) % Two8 \in Int
  BY WordRead
<1> DEFINE y == n % Two8
           z == (n \div Two8) % Two8
<1>2. Word16(n) = <<y, z>>
  BY DEF Word16
<1> HIDE DEF y, z
<1>3. <<y, z>> \in Bytes /\ Len(<<y, z>>) = 2
  BY <1>1 DEF Bytes, y, z
<1>4. <<x>> \o <<y, z>> = <<x, y, z>>
  <2> DEFINE s == <<x>>
             t == <<y, z>>
             u == <<x, y, z>>
  <2>1. s \in Seq(Int) /\ t \in Seq(Int) /\ u \in Seq(Int)
    BY <1>1 DEF y, z
  <2>2. /\ Len(s) = 1 /\ Len(t) = 2 /\ Len(u) = 3 /\ s[1] = x
        /\ t[1] = y /\ t[2] = z /\ u[1] = x /\ u[2] = y /\ u[3] = z
    OBVIOUS
  <2> HIDE DEF s, t, u
  <2>3. /\ s \o t \in Seq(Int) /\ Len(s \o t) = 3
        /\ \A k \in 1..3 : (s \o t)[k] = IF k <= 1 THEN s[k] ELSE t[k - 1]
    <3>1. /\ s \o t \in Seq(Int) /\ Len(s \o t) = Len(s) + Len(t)
          /\ \A k \in 1..Len(s) + Len(t) :
               (s \o t)[k] = IF k <= Len(s) THEN s[k] ELSE t[k - Len(s)]
      BY <2>1, ConcatProperties
    <3>2. Len(s) + Len(t) = 3
      BY <2>2
    <3> QED BY <2>2, <3>1, <3>2
  <2>4. \A k \in 1..3 : (s \o t)[k] = u[k]
    BY <2>2, <2>3
  <2>5. s \o t = u
    BY <2>1, <2>2, <2>3, <2>4, SeqEqual
  <2> QED BY <2>5 DEF s, t, u
<1>5. <<x, y, z>> \in Bytes /\ Len(<<x, y, z>>) = 3
  BY <1>1 DEF Bytes, y, z
<1> QED BY <1>2, <1>3, <1>4, <1>5 DEF y, z

-----------------------------------------------------------------------------
(* What the processor reads where an operand is, and behind it.            *)

Operands == RegOps \cup MemOps

Taken(field, o) == Len(ModRM(field, o))

(* The processor reads the operand that ModRM encodes, and what is behind  *)
(* it starts where it should.                                              *)
LEMMA OperandRead ==
  ASSUME NEW f, NEW a \in Int, NEW field \in 0..7, NEW o \in Operands,
         NEW w, Holds(f, a, ModRM(field, o))
  PROVE  /\ ModRM(field, o) \in Bytes
         /\ FieldAt(f, a) = field
         /\ OperandAt(f, a, w).o = OperandMeant(o, w)
         /\ OperandAt(f, a, w).len = Taken(field, o)
<1> DEFINE r == RmOf(o.form)
<1>1. CASE o \in RegOps
  <2>1. o.form = "reg" /\ o.n \in 0..7
    BY <1>1, AssemblerAssumptions DEF RegOps
  <2>2. ModRM(field, o) = <<192 + 8 * field + o.n>>
    BY <2>1 DEF ModRM
  <2>3. f[a] = 64 * 3 + 8 * field + o.n
    BY <2>2, HoldsOne
  <2>4. f[a] \div 64 = 3 /\ f[a] % 8 = o.n /\ (f[a] \div 8) % 8 = field
    <3> DEFINE n == o.n
               b == f[a]
    <3>1. n \in 0..7 /\ b = 64 * 3 + 8 * field + n /\ 3 \in 0..3
      BY <2>1, <2>3
    <3> HIDE DEF n, b
    <3>2. b \div 64 = 3 /\ b % 8 = n /\ (b \div 8) % 8 = field
      BY <3>1, ByteParts
    <3> QED BY <3>2 DEF n, b
  <2>5. OperandAt(f, a, w) = Read("reg", o.n, w, 1)
    BY <2>4 DEF OperandAt
  <2>6. ModRM(field, o) \in Bytes /\ Len(ModRM(field, o)) = 1
    BY <2>1, <2>2 DEF Bytes
  <2> QED BY <2>1, <2>4, <2>5, <2>6 DEF Read, OperandMeant, FieldAt, Taken
<1>2. CASE o \in MemOps
  <2>1. o.n \in Int /\ (o.form \in Range(Forms) \/ o.form = "direct")
    BY <1>2, AssemblerAssumptions DEF MemOps
  <2> DEFINE word == Word16(o.n)
             lo == o.n % Two8
             hi == (o.n \div Two8) % Two8
             v == o.n % Two16
  <2>2. lo + Two8 * hi = v
    BY <2>1, WordRead
  <2>3. CASE o.form = "direct"
    <3>1. ModRM(field, o) = <<6 + 8 * field>> \o word
      BY <2>3 DEF ModRM
    <3>2. /\ ModRM(field, o) = <<6 + 8 * field, lo, hi>>
          /\ ModRM(field, o) \in Bytes /\ Len(ModRM(field, o)) = 3
      <4> DEFINE x == 6 + 8 * field
                 n == o.n
      <4>1. x \in Int /\ n \in Int
        BY <2>1
      <4> HIDE DEF x, n
      <4>2. /\ <<x>> \o Word16(n) = <<x, n % Two8, (n \div Two8) % Two8>>
            /\ <<x>> \o Word16(n) \in Bytes /\ Len(<<x>> \o Word16(n)) = 3
        BY <4>1, OneAndWord
      <4> QED BY <3>1, <4>2 DEF x, n
    <3>3. f[a] = 64 * 0 + 8 * field + 6 /\ f[a + 1] = lo /\ f[a + 2] = hi
      <4> DEFINE x == 6 + 8 * field
      <4>1. Holds(f, a, <<x, lo, hi>>)
        BY <3>2
      <4>2. x = 64 * 0 + 8 * field + 6
        OBVIOUS
      <4> HIDE DEF x, lo, hi
      <4> QED BY <4>1, <4>2, HoldsThree
    <3>4. f[a] \div 64 = 0 /\ f[a] % 8 = 6 /\ (f[a] \div 8) % 8 = field
      BY <3>3, ByteParts
    <3>5. WordAt(f, a + 1) = v
      <4>1. (a + 1) + 1 = a + 2
        OBVIOUS
      <4> QED BY <2>2, <3>3, <4>1 DEF WordAt
    <3>6. OperandAt(f, a, w) = Read("direct", v, w, 3)
      BY <3>4, <3>5 DEF OperandAt
    <3> QED BY <2>3, <3>2, <3>4, <3>6 DEF Read, OperandMeant, FieldAt, Taken
  <2>4. CASE o.form \in Range(Forms)
    <3>1. /\ r \in 0..7 /\ Forms[r + 1] = o.form
          /\ o.form = "BP" <=> r = 6
          /\ o.form # "reg" /\ o.form # "direct"
      BY <2>4, FormNumber
    <3> HIDE DEF r
    <3>2. CASE o.n = 0 /\ o.form # "BP"
      <4>1. ModRM(field, o) = <<8 * field + r>>
        BY <3>1, <3>2 DEF ModRM, r
      <4>2. f[a] = 64 * 0 + 8 * field + r
        BY <4>1, HoldsOne
      <4>3. f[a] \div 64 = 0 /\ f[a] % 8 = r /\ (f[a] \div 8) % 8 = field
        BY <4>2, <3>1, ByteParts
      <4>4. OperandAt(f, a, w) = Read(Forms[r + 1], 0, w, 1)
        BY <4>3, <3>1, <3>2 DEF OperandAt
      <4>5. ModRM(field, o) \in Bytes /\ Len(ModRM(field, o)) = 1
        BY <3>1, <4>1 DEF Bytes
      <4>6. v = 0
        BY <3>2, SMT DEF Two16
      <4> QED BY <3>1, <4>3, <4>4, <4>5, <4>6, <3>2 DEF Read, OperandMeant, FieldAt, Taken
    <3>3. CASE ~(o.n = 0 /\ o.form # "BP") /\ o.n \in -128..127
      <4>1. ModRM(field, o) = <<64 + 8 * field + r, lo>>
        BY <3>1, <3>3 DEF ModRM, r
      <4>2. f[a] = 64 * 1 + 8 * field + r /\ f[a + 1] = lo
        BY <4>1, HoldsTwo
      <4>3. f[a] \div 64 = 1 /\ f[a] % 8 = r /\ (f[a] \div 8) % 8 = field
        BY <4>2, <3>1, ByteParts
      <4>4. Signed8(f[a + 1]) = o.n
        BY <4>2, <3>3, SignedRead
      <4>5. OperandAt(f, a, w) = Read(Forms[r + 1], v, w, 2)
        BY <4>3, <4>4 DEF OperandAt
      <4>6. ModRM(field, o) \in Bytes /\ Len(ModRM(field, o)) = 2
        <5>1. lo \in Int
          BY <2>1, WordRead
        <5> HIDE DEF lo
        <5> QED BY <3>1, <4>1, <5>1 DEF Bytes
      <4> QED BY <3>1, <4>3, <4>5, <4>6 DEF Read, OperandMeant, FieldAt, Taken
    <3>4. CASE ~(o.n = 0 /\ o.form # "BP") /\ o.n \notin -128..127
      <4>1. ModRM(field, o) = <<128 + 8 * field + r>> \o word
        BY <3>1, <3>4 DEF ModRM, r
      <4>2. /\ ModRM(field, o) = <<128 + 8 * field + r, lo, hi>>
            /\ ModRM(field, o) \in Bytes /\ Len(ModRM(field, o)) = 3
        <5> DEFINE x == 128 + 8 * field + r
                   n == o.n
        <5>1. x \in Int /\ n \in Int
          BY <2>1, <3>1
        <5> HIDE DEF x, n
        <5>2. /\ <<x>> \o Word16(n) = <<x, n % Two8, (n \div Two8) % Two8>>
              /\ <<x>> \o Word16(n) \in Bytes /\ Len(<<x>> \o Word16(n)) = 3
          BY <5>1, OneAndWord
        <5> QED BY <4>1, <5>2 DEF x, n
      <4>3. f[a] = 64 * 2 + 8 * field + r /\ f[a + 1] = lo /\ f[a + 2] = hi
        BY <4>2, HoldsThree
      <4>4. f[a] \div 64 = 2 /\ f[a] % 8 = r /\ (f[a] \div 8) % 8 = field
        BY <4>3, <3>1, ByteParts
      <4>5. WordAt(f, a + 1) = v
        <5>1. (a + 1) + 1 = a + 2
          OBVIOUS
        <5> QED BY <2>2, <4>3, <5>1 DEF WordAt
      <4>6. OperandAt(f, a, w) = Read(Forms[r + 1], v, w, 3)
        BY <4>4, <4>5 DEF OperandAt
      <4> QED BY <3>1, <4>2, <4>4, <4>6 DEF Read, OperandMeant, FieldAt, Taken
    <3> QED BY <3>2, <3>3, <3>4
  <2> QED BY <2>1, <2>3, <2>4
<1> QED BY <1>1, <1>2 DEF Operands

LEMMA SingleByte ==
  ASSUME NEW x \in Int PROVE <<x>> \in Bytes /\ Len(<<x>>) = 1
  BY DEF Bytes

LEMMA ModRMBytes ==
  ASSUME NEW field \in 0..7, NEW o \in Operands
  PROVE  ModRM(field, o) \in Bytes
<1> DEFINE s == ModRM(field, o)
           f == [k \in Int |-> s[k]]
<1>1. ASSUME NEW k \in 1..Len(s) PROVE f[1 + k - 1] = s[k]
  OBVIOUS
<1>2. Holds(f, 1, s)
  <2> HIDE DEF f
  <2> QED BY <1>1 DEF Holds
<1> HIDE DEF f
<1>3. Holds(f, 1, ModRM(field, o)) /\ 1 \in Int
  BY <1>2
<1> QED BY <1>3, OperandRead

LEMMA OperandLength ==
  ASSUME NEW e \in Int, NEW field \in 0..7, NEW o \in Operands
  PROVE  Len(<<e>> \o ModRM(field, o)) = 1 + Taken(field, o)
<1> DEFINE s == <<e>>
           t == ModRM(field, o)
<1>1. s \in Seq(Int) /\ Len(s) = 1 /\ t \in Seq(Int)
  BY SingleByte, ModRMBytes DEF Bytes
<1> HIDE DEF s, t
<1>2. Len(s \o t) = Len(s) + Len(t)
  BY <1>1, ConcatProperties
<1> QED BY <1>1, <1>2 DEF s, t, Taken

(* An opcode and its operand, and then what is behind them. *)
Coded(e, field, o) == <<e>> \o ModRM(field, o)
After(a) == a + 1
Behind(c, m) == c + m.len

(* At c the processor reads a ModRM byte with this field and this operand. *)
Reads(f, c, field, o) ==
  /\ FieldAt(f, c) = field
  /\ \A w \in {0, 1} : /\ OperandAt(f, c, w).o = OperandMeant(o, w)
                        /\ OperandAt(f, c, w).len = Taken(field, o)

LEMMA OperandReads ==
  ASSUME NEW f, NEW a \in Int, NEW field \in 0..7, NEW o \in Operands,
         Holds(f, a, ModRM(field, o))
  PROVE  Reads(f, a, field, o)
<1>1. ASSUME NEW w \in {0, 1}
      PROVE  /\ FieldAt(f, a) = field
             /\ OperandAt(f, a, w).o = OperandMeant(o, w)
             /\ OperandAt(f, a, w).len = Taken(field, o)
  BY OperandRead
<1> QED BY <1>1 DEF Reads

LEMMA OperandBehind ==
  ASSUME NEW f, NEW a \in Int, NEW e \in Int, NEW field \in 0..7, NEW o \in Operands,
         Holds(f, a, Coded(e, field, o))
  PROVE  f[a] = e /\ Reads(f, After(a), field, o)
<1> DEFINE s == <<e>>
           t == ModRM(field, o)
<1>1. s \in Seq(Int) /\ Len(s) = 1 /\ t \in Seq(Int)
  BY SingleByte, ModRMBytes DEF Bytes
<1> HIDE DEF t
<1>2. Holds(f, a, s) /\ Holds(f, a + Len(s), t)
  <2> HIDE DEF s
  <2>1. Holds(f, a, s \o t)
    BY DEF s, t, Coded
  <2> QED BY <1>1, <2>1, HoldsBoth
<1>3. f[a] = e
  BY <1>2, HoldsOne
<1>4. After(a) \in Int /\ Holds(f, After(a), ModRM(field, o))
  BY <1>1, <1>2 DEF t, After
<1>5. Reads(f, After(a), field, o)
  BY <1>4, OperandReads
<1> QED BY <1>3, <1>5

(* The tail is behind the operand that the processor reads at c. *)
TailAt(f, c, tail) ==
  \A w \in {0, 1} : /\ Behind(c, OperandAt(f, c, w)) \in Int
                     /\ Holds(f, Behind(c, OperandAt(f, c, w)), tail)

LEMMA TailBehind ==
  ASSUME NEW f, NEW a \in Int, NEW e \in Int, NEW field \in 0..7, NEW o \in Operands,
         NEW tail \in Bytes, Holds(f, a, Coded(e, field, o) \o tail)
  PROVE  f[a] = e /\ Reads(f, After(a), field, o) /\ TailAt(f, After(a), tail)
<1> DEFINE s == Coded(e, field, o)
<1>1. s \in Bytes
  <2>1. <<e>> \in Seq(Int) /\ ModRM(field, o) \in Seq(Int)
    BY SingleByte, ModRMBytes DEF Bytes
  <2> QED BY <2>1, ConcatProperties DEF Bytes, Coded
<1>2. Holds(f, a, s) /\ Holds(f, a + Len(s), tail)
  <2> HIDE DEF s
  <2>1. s \in Seq(Int) /\ tail \in Seq(Int) /\ Holds(f, a, s \o tail)
    BY <1>1 DEF s, Bytes
  <2> QED BY <2>1, HoldsBoth
<1>3. Len(s) = 1 + Taken(field, o)
  BY OperandLength DEF Coded
<1>4. f[a] = e /\ Reads(f, After(a), field, o)
  BY <1>2, OperandBehind
<1>5. Taken(field, o) \in Nat
  BY ModRMBytes, LenProperties DEF Bytes, Taken
<1>6. ASSUME NEW w \in {0, 1}
      PROVE  Behind(After(a), OperandAt(f, After(a), w)) = a + Len(s)
  <2>1. Behind(After(a), OperandAt(f, After(a), w)) = (a + 1) + Taken(field, o)
    BY <1>4 DEF Behind, After, Reads
  <2> HIDE DEF s
  <2> QED BY <2>1, <1>3, <1>5
<1>7. a + Len(s) \in Int
  <2> HIDE DEF s
  <2> QED BY <1>3, <1>5
<1>8. TailAt(f, After(a), tail)
  <2> HIDE DEF s
  <2> QED BY <1>2, <1>6, <1>7 DEF TailAt
<1> QED BY <1>4, <1>8

(* An immediate operand. *)
Cut(x, w) == x % (IF w = 1 THEN Two16 ELSE Two8)

LEMMA ImmRead ==
  ASSUME NEW f, NEW a \in Int, NEW x \in Int, NEW w \in {0, 1}, Holds(f, a, Imm(x, w))
  PROVE  ImmAt(f, a, w) = Cut(x, w)
<1>1. CASE w = 1
  <2>1. Imm(x, w) = <<x % Two8, (x \div Two8) % Two8>>
    BY <1>1 DEF Imm, Word16
  <2>2. f[a] = x % Two8 /\ f[a + 1] = (x \div Two8) % Two8
    BY <2>1, HoldsTwo
  <2>3. WordAt(f, a) = x % Two16
    BY <2>2, WordRead DEF WordAt
  <2> QED BY <1>1, <2>3 DEF ImmAt, Cut
<1>2. CASE w # 1
  <2>1. Imm(x, w) = <<x % Two8>>
    BY <1>2 DEF Imm
  <2>2. f[a] = x % Two8
    BY <2>1, HoldsOne
  <2> QED BY <1>2, <2>2 DEF ImmAt, Cut
<1> QED BY <1>1, <1>2

LEMMA ImmBytes ==
  ASSUME NEW x \in Int, NEW w \in {0, 1}
  PROVE  Imm(x, w) \in Bytes
<1>1. x % Two8 \in Int
  BY WordRead
<1> QED BY <1>1, OneAndWord, SingleByte DEF Imm

(* One byte and an immediate operand. *)
Valued(e, x, w) == <<e>> \o Imm(x, w)

LEMMA ImmBehind ==
  ASSUME NEW f, NEW a \in Int, NEW e \in Int, NEW x \in Int, NEW w \in {0, 1},
         Holds(f, a, Valued(e, x, w))
  PROVE  f[a] = e /\ ImmAt(f, After(a), w) = Cut(x, w)
<1> DEFINE s == <<e>>
           t == Imm(x, w)
<1>1. s \in Seq(Int) /\ Len(s) = 1 /\ t \in Seq(Int)
  BY SingleByte, ImmBytes DEF Bytes
<1> HIDE DEF t
<1>2. Holds(f, a, s) /\ Holds(f, a + Len(s), t)
  <2> HIDE DEF s
  <2>1. Holds(f, a, s \o t)
    BY DEF s, t, Valued
  <2> QED BY <1>1, <2>1, HoldsBoth
<1>3. f[a] = e
  BY <1>2, HoldsOne
<1>4. After(a) \in Int /\ Holds(f, After(a), Imm(x, w))
  BY <1>1, <1>2 DEF t, After
<1> QED BY <1>3, <1>4, ImmRead

-----------------------------------------------------------------------------
(* One lemma for each class of instruction: its bytes decode as it is      *)
(* meant.  ReadsData puts them together.                                   *)

LEMMA RegMeant ==
  ASSUME NEW d \in RegOps
  PROVE  /\ d \in Operands /\ d.form = "reg" /\ d.n \in 0..7 /\ d.w \in {0, 1}
         /\ OperandMeant(d, d.w) = Register(d.n, d.w)
  BY AssemblerAssumptions DEF RegOps, OperandMeant, Register, Operands

LEMMA ReadsMov ==
  ASSUME NEW f, NEW a \in Int, NEW d \in RegOps, NEW x \in Int,
         Holds(f, a, MovImm(d, x))
  PROVE  DecodedAt(f, a) = Ins("mov", OperandMeant(d, d.w), Cut(x, d.w))
<1>1. /\ d.n \in 0..7 /\ d.w \in {0, 1}
      /\ OperandMeant(d, d.w) = Register(d.n, d.w)
  BY RegMeant
<1> DEFINE e == (176 + 8 * d.w) + d.n
<1>2. e \in Int /\ Holds(f, a, Valued(e, x, d.w))
  BY <1>1 DEF MovImm, Valued
<1>3. f[a] = e /\ ImmAt(f, After(a), d.w) = Cut(x, d.w)
  <2> HIDE DEF e
  <2> QED BY <1>1, <1>2, ImmBehind
<1>4. CASE d.w = 1
  <2>1. f[a] \in 184..191 /\ f[a] - 184 = d.n /\ d.w = 1
    BY <1>1, <1>3, <1>4
  <2>2. DecodedAt(f, a) = Ins("mov", Register(f[a] - 184, 1), WordAt(f, a + 1))
    BY <2>1 DEF DecodedAt
  <2>3. WordAt(f, a + 1) = Cut(x, d.w)
    BY <1>3, <1>4 DEF ImmAt, After
  <2> QED BY <1>1, <2>1, <2>2, <2>3
<1>5. CASE d.w # 1
  <2>1. f[a] \in 176..183 /\ f[a] - 176 = d.n /\ d.w = 0
    BY <1>1, <1>3, <1>5
  <2>2. DecodedAt(f, a) = Ins("mov", Register(f[a] - 176, 0), f[a + 1])
    BY <2>1 DEF DecodedAt
  <2>3. f[a + 1] = Cut(x, d.w)
    BY <1>3, <1>5 DEF ImmAt, After
  <2> QED BY <1>1, <2>1, <2>2, <2>3
<1> QED BY <1>4, <1>5

LEMMA ReadsMem ==
  ASSUME NEW f, NEW a \in Int, NEW d \in RegOps, NEW m \in MemOps
  PROVE  /\ Holds(f, a, MovLoad(d, m)) =>
              DecodedAt(f, a) = MemIns("load", d, OperandMeant(m, d.w))
         /\ Holds(f, a, MovStore(m, d)) =>
              DecodedAt(f, a) = MemIns("store", d, OperandMeant(m, d.w))
<1> DEFINE w == d.w
<1>1. /\ d.n \in 0..7 /\ d.w \in {0, 1} /\ d = Register(d.n, d.w)
      /\ m \in Operands
  BY RegMeant DEF RegOps, Register, Operands
<1>2. ASSUME Holds(f, a, MovLoad(d, m))
      PROVE  DecodedAt(f, a) = MemIns("load", d, OperandMeant(m, d.w))
  <2> DEFINE e == 138 + w
  <2>1. e % 2 = w /\ e \in 138..139 /\ e \in Int
    BY <1>1
  <2>2. Holds(f, a, Coded(e, d.n, m))
    BY <1>2 DEF MovLoad, Coded
  <2>3. f[a] = e /\ Reads(f, After(a), d.n, m)
    <3> HIDE DEF e
    <3> QED BY <1>1, <2>1, <2>2, OperandBehind
  <2>4. DecodedAt(f, a) = MemIns("load", Register(FieldAt(f, After(a)), w),
                                 OperandAt(f, After(a), w).o)
    <3> HIDE DEF e
    <3> QED BY <2>1, <2>3 DEF DecodedAt, After
  <2> QED BY <1>1, <2>3, <2>4 DEF Reads
<1>3. ASSUME Holds(f, a, MovStore(m, d))
      PROVE  DecodedAt(f, a) = MemIns("store", d, OperandMeant(m, d.w))
  <2> DEFINE e == 136 + w
  <2>1. e % 2 = w /\ e \in 136..137 /\ e \in Int
    BY <1>1
  <2>2. Holds(f, a, Coded(e, d.n, m))
    BY <1>3 DEF MovStore, Coded
  <2>3. f[a] = e /\ Reads(f, After(a), d.n, m)
    <3> HIDE DEF e
    <3> QED BY <1>1, <2>1, <2>2, OperandBehind
  <2>4. DecodedAt(f, a) = MemIns("store", Register(FieldAt(f, After(a)), w),
                                 OperandAt(f, After(a), w).o)
    <3> HIDE DEF e
    <3> QED BY <2>1, <2>3 DEF DecodedAt, After
  <2> QED BY <1>1, <2>3, <2>4 DEF Reads
<1> QED BY <1>2, <1>3

LEMMA OperandKind ==
  ASSUME NEW d \in Operands
  PROVE  /\ d.w \in {0, 1} /\ (d.form # "reg" => d.w = 1)
         /\ d.form = "reg" => d.n \in 0..7
         /\ Accumulator(d) => OperandMeant(d, d.w) = Register(0, d.w)
<1>1. CASE d \in RegOps
  BY <1>1, RegMeant DEF Accumulator, OperandMeant, Register
<1>2. CASE d \in MemOps
  <2>1. d.form # "reg" /\ d.w = 1
    BY <1>2, FormNumber DEF MemOps
  <2> QED BY <2>1 DEF Accumulator
<1> QED BY <1>1, <1>2 DEF Operands

LEMMA ReadsCmp ==
  ASSUME NEW f, NEW a \in Int, NEW d \in Operands, NEW x \in Int,
         Holds(f, a, AluImm(7, d, x))
  PROVE  DecodedAt(f, a) = Ins("cmp", OperandMeant(d, d.w), Cut(x, d.w))
<1> DEFINE w == d.w
           m == OperandAt(f, After(a), w)
           after == Behind(After(a), m)
<1>1. w \in {0, 1} /\ 7 \in 0..7
  BY OperandKind
<1>2. CASE Accumulator(d)
  <2> DEFINE e == 8 * 7 + 4 + w
  <2>1. e \in 60..61 /\ e \in Int /\ e % 2 = w
    BY <1>1
  <2>2. Holds(f, a, Valued(e, x, w))
    BY <1>2 DEF AluImm, Valued
  <2>3. f[a] = e /\ ImmAt(f, After(a), w) = Cut(x, w)
    <3> HIDE DEF e, w
    <3> QED BY <1>1, <2>1, <2>2, ImmBehind
  <2>4. DecodedAt(f, a) = Ins("cmp", Register(0, w), ImmAt(f, After(a), w))
    <3> HIDE DEF e, w
    <3> QED BY <2>1, <2>3 DEF DecodedAt, After
  <2>5. OperandMeant(d, d.w) = Register(0, d.w)
    BY <1>2, OperandKind
  <2> QED BY <2>3, <2>4, <2>5
<1>3. CASE ~Accumulator(d) /\ w = 1 /\ x \in -128..127
  <2> DEFINE tail == <<x % Two8>>
  <2>1. tail \in Bytes /\ 131 \in Int
    <3>1. x % Two8 \in Int
      BY WordRead
    <3> QED BY <3>1, SingleByte
  <2>2. Holds(f, a, Coded(131, 7, d) \o tail)
    BY <1>3 DEF AluImm, Coded
  <2>a. f[a] = 131 /\ Reads(f, After(a), 7, d) /\ TailAt(f, After(a), tail)
    <3> DEFINE field == 7
               code == 131
    <3>1. /\ code \in Int /\ field \in 0..7 /\ tail \in Bytes
          /\ Holds(f, a, Coded(code, field, d) \o tail)
      BY <2>1, <2>2
    <3> HIDE DEF field, code, tail
    <3>2. f[a] = code /\ Reads(f, After(a), field, d) /\ TailAt(f, After(a), tail)
      BY <3>1, TailBehind
    <3> QED BY <3>2 DEF field, code
  <2>3. f[a] = 131 /\ Reads(f, After(a), 7, d) /\ after \in Int /\ Holds(f, after, tail)
    BY <1>1, <2>a DEF TailAt
  <2>4. f[after] = x % Two8
    <3> HIDE DEF after
    <3> QED BY <2>3, HoldsOne
  <2>5. Signed8(f[after]) = x
    BY <2>4, <1>3, SignedRead
  <2>6. FieldAt(f, a + 1) = 7 /\ m.o = OperandMeant(d, w)
    BY <2>3, <1>1 DEF Reads, After
  <2>7. w = 131 % 2
    BY <1>3
  <2>8. DecodedAt(f, a) = Ins("cmp", m.o, Signed8(f[after]) % Two16)
    <3> HIDE DEF w
    <3> QED BY <2>3, <2>6, <2>7 DEF DecodedAt, Group, After, Behind
  <2>9. Cut(x, w) = x % Two16
    BY <1>3 DEF Cut
  <2> QED BY <2>5, <2>6, <2>8, <2>9
<1>4. CASE ~Accumulator(d) /\ ~(w = 1 /\ x \in -128..127)
  <2> DEFINE e == 128 + w
             tail == Imm(x, w)
  <2>1. e \in 128..129 /\ e \in Int /\ e % 2 = w /\ tail \in Bytes
    BY <1>1, ImmBytes
  <2>2. Holds(f, a, Coded(e, 7, d) \o tail)
    BY <1>4 DEF AluImm, Coded
  <2>a. f[a] = e /\ Reads(f, After(a), 7, d) /\ TailAt(f, After(a), tail)
    <3> DEFINE field == 7
               code == e
    <3>1. /\ code \in Int /\ field \in 0..7 /\ tail \in Bytes
          /\ Holds(f, a, Coded(code, field, d) \o tail)
      BY <2>1, <2>2
    <3> HIDE DEF field, code, tail
    <3>2. f[a] = code /\ Reads(f, After(a), field, d) /\ TailAt(f, After(a), tail)
      BY <3>1, TailBehind
    <3> QED BY <3>2 DEF field, code
  <2>3. f[a] = e /\ Reads(f, After(a), 7, d) /\ after \in Int /\ Holds(f, after, tail)
    BY <1>1, <2>a DEF TailAt
  <2>4. ImmAt(f, after, w) = Cut(x, w)
    <3> HIDE DEF after, w
    <3> QED BY <1>1, <2>3, ImmRead
  <2>6. FieldAt(f, a + 1) = 7 /\ m.o = OperandMeant(d, w)
    BY <2>3, <1>1 DEF Reads, After
  <2>8. DecodedAt(f, a) = Ins("cmp", m.o, ImmAt(f, after, w))
    <3> HIDE DEF w, e
    <3> QED BY <2>1, <2>3, <2>6 DEF DecodedAt, Group, After, Behind
  <2> QED BY <2>4, <2>6, <2>8
<1> QED BY <1>2, <1>3, <1>4

LEMMA ReadsDec ==
  ASSUME NEW f, NEW a \in Int, NEW d \in Operands, Holds(f, a, IncDec(1, d))
  PROVE  DecodedAt(f, a) = Ins("dec", OperandMeant(d, d.w), 0)
<1> DEFINE w == d.w
<1>1. w \in {0, 1} /\ 1 \in 0..7 /\ (d.form = "reg" => d.n \in 0..7)
  BY OperandKind
<1>2. CASE d.form = "reg" /\ w = 1
  <2> DEFINE e == 64 + 8 * 1 + d.n
  <2>1. e \in 72..79 /\ e - 72 = d.n
    BY <1>1, <1>2
  <2>2. f[a] = e
    <3>1. Holds(f, a, <<e>>)
      BY <1>2 DEF IncDec
    <3> HIDE DEF e
    <3> QED BY <3>1, HoldsOne
  <2>3. DecodedAt(f, a) = Ins("dec", Register(f[a] - 72, 1), 0)
    <3> HIDE DEF e
    <3> QED BY <2>1, <2>2 DEF DecodedAt
  <2> QED BY <1>2, <2>1, <2>2, <2>3 DEF OperandMeant, Register
<1>3. CASE ~(d.form = "reg" /\ w = 1)
  <2> DEFINE e == 254 + w
  <2>1. e \in 254..255 /\ e \in Int /\ e % 2 = w
    BY <1>1
  <2>2. Holds(f, a, Coded(e, 1, d))
    BY <1>3 DEF IncDec, Coded
  <2>3. f[a] = e /\ Reads(f, After(a), 1, d)
    <3> HIDE DEF e, w
    <3> QED BY <1>1, <2>1, <2>2, OperandBehind
  <2>4. FieldAt(f, a + 1) = 1 /\ OperandAt(f, a + 1, w).o = OperandMeant(d, w)
    BY <2>3, <1>1 DEF Reads, After
  <2>5. DecodedAt(f, a) = Ins("dec", OperandAt(f, a + 1, w).o, 0)
    <3> HIDE DEF e, w
    <3> QED BY <2>1, <2>3, <2>4 DEF DecodedAt, Group
  <2> QED BY <2>4, <2>5
<1> QED BY <1>2, <1>3

LEMMA ReadsMul ==
  ASSUME NEW f, NEW a \in Int, NEW d \in Operands, Holds(f, a, Unary(4, d))
  PROVE  DecodedAt(f, a) = Ins("mul", OperandMeant(d, d.w), 0)
<1> DEFINE w == d.w
           e == 246 + w
<1>1. w \in {0, 1} /\ 4 \in 0..7
  BY OperandKind
<1>2. e \in 246..247 /\ e \in Int /\ e % 2 = w
  BY <1>1
<1>3. Holds(f, a, Coded(e, 4, d))
  BY DEF Unary, Coded
<1>4. f[a] = e /\ Reads(f, After(a), 4, d)
  <2> DEFINE field == 4
  <2>1. e \in Int /\ field \in 0..7 /\ Holds(f, a, Coded(e, field, d))
    BY <1>2, <1>3
  <2> HIDE DEF e, w, field
  <2>2. f[a] = e /\ Reads(f, After(a), field, d)
    BY <2>1, OperandBehind
  <2> QED BY <2>2 DEF field
<1>5. FieldAt(f, a + 1) = 4 /\ OperandAt(f, a + 1, w).o = OperandMeant(d, w)
  BY <1>4, <1>1 DEF Reads, After
<1>6. DecodedAt(f, a) = Ins("mul", OperandAt(f, a + 1, w).o, 0)
  <2> HIDE DEF e, w
  <2> QED BY <1>2, <1>4, <1>5 DEF DecodedAt, Group
<1> QED BY <1>5, <1>6

LEMMA ReadsShr ==
  ASSUME NEW f, NEW a \in Int, NEW d \in Operands, NEW x \in Int,
         Holds(f, a, Shift(5, d, x))
  PROVE  DecodedAt(f, a) = Ins("shr", OperandMeant(d, d.w), x)
<1> DEFINE w == d.w
           m == OperandAt(f, After(a), w)
           after == Behind(After(a), m)
<1>1. w \in {0, 1} /\ 5 \in 0..7
  BY OperandKind
<1>2. CASE x = 1
  <2> DEFINE e == 208 + w
  <2>1. e \in 208..209 /\ e \in Int /\ e % 2 = w
    BY <1>1
  <2>2. Holds(f, a, Coded(e, 5, d))
    BY <1>2 DEF Shift, Coded
  <2>3. f[a] = e /\ Reads(f, After(a), 5, d)
    <3> HIDE DEF e, w
    <3> QED BY <1>1, <2>1, <2>2, OperandBehind
  <2>4. FieldAt(f, a + 1) = 5 /\ m.o = OperandMeant(d, w)
    BY <2>3, <1>1 DEF Reads, After
  <2>5. DecodedAt(f, a) = Ins("shr", m.o, 1)
    <3> HIDE DEF e, w
    <3> QED BY <2>1, <2>3, <2>4 DEF DecodedAt, Group, After
  <2> QED BY <1>2, <2>4, <2>5
<1>3. CASE x # 1
  <2> DEFINE e == 192 + w
             tail == <<x>>
  <2>1. e \in 192..193 /\ e \in Int /\ e % 2 = w /\ tail \in Bytes
    BY <1>1, SingleByte
  <2>2. Holds(f, a, Coded(e, 5, d) \o tail)
    BY <1>3 DEF Shift, Coded
  <2>a. f[a] = e /\ Reads(f, After(a), 5, d) /\ TailAt(f, After(a), tail)
    <3> DEFINE field == 5
               code == e
    <3>1. /\ code \in Int /\ field \in 0..7 /\ tail \in Bytes
          /\ Holds(f, a, Coded(code, field, d) \o tail)
      BY <2>1, <2>2
    <3> HIDE DEF field, code, tail
    <3>2. f[a] = code /\ Reads(f, After(a), field, d) /\ TailAt(f, After(a), tail)
      BY <3>1, TailBehind
    <3> QED BY <3>2 DEF field, code
  <2>3. f[a] = e /\ Reads(f, After(a), 5, d) /\ after \in Int /\ Holds(f, after, tail)
    BY <1>1, <2>a DEF TailAt
  <2>4. f[after] = x
    <3> HIDE DEF after
    <3> QED BY <2>3, HoldsOne
  <2>5. FieldAt(f, a + 1) = 5 /\ m.o = OperandMeant(d, w)
    BY <2>3, <1>1 DEF Reads, After
  <2>6. DecodedAt(f, a) = Ins("shr", m.o, f[after])
    <3> HIDE DEF e, w
    <3> QED BY <2>1, <2>3, <2>5 DEF DecodedAt, Group, After, Behind
  <2> QED BY <2>4, <2>5, <2>6
<1> QED BY <1>2, <1>3

LEMMA DataKinds ==
  ASSUME NEW i \in DataIns
  PROVE  \/ /\ i.op \in {"load", "store"} /\ i.d \in RegOps /\ i.m \in MemOps
            /\ i = MemIns(i.op, i.d, i.m)
         \/ i.op = "mov" /\ i.d \in RegOps /\ i.x \in Int /\ i = Ins("mov", i.d, i.x)
         \/ i.op = "cmp" /\ i.d \in Operands /\ i.x \in Int /\ i = Ins("cmp", i.d, i.x)
         \/ i.op \in {"dec", "mul"} /\ i.d \in Operands /\ i.x = 0 /\ i = Ins(i.op, i.d, 0)
         \/ i.op = "shr" /\ i.d \in Operands /\ i.x \in Int /\ i = Ins("shr", i.d, i.x)
<1>1. CASE i \in {MemIns(op, d, m) : op \in {"load", "store"}, d \in RegOps, m \in MemOps}
  <2>1. PICK op \in {"load", "store"}, d \in RegOps, m \in MemOps : i = MemIns(op, d, m)
    BY <1>1
  <2>2. i.op = op /\ i.d = d /\ i.m = m
    BY <2>1 DEF MemIns
  <2> QED BY <2>1, <2>2
<1>2. CASE i \in {Ins("mov", d, x) : d \in RegOps, x \in IMMS}
  <2>1. PICK d \in RegOps, x \in IMMS : i = Ins("mov", d, x)
    BY <1>2
  <2>2. i.op = "mov" /\ i.d = d /\ i.x = x
    BY <2>1 DEF Ins
  <2> QED BY <2>1, <2>2, AssemblerAssumptions
<1>3. CASE i \in {Ins("cmp", d, x) : d \in RegOps \cup MemOps, x \in IMMS}
  <2>1. PICK d \in Operands, x \in IMMS : i = Ins("cmp", d, x)
    BY <1>3 DEF Operands
  <2>2. i.op = "cmp" /\ i.d = d /\ i.x = x
    BY <2>1 DEF Ins
  <2> QED BY <2>1, <2>2, AssemblerAssumptions
<1>4. CASE i \in {Ins(op, d, 0) : op \in {"dec", "mul"}, d \in RegOps \cup MemOps}
  <2>1. PICK op \in {"dec", "mul"}, d \in Operands : i = Ins(op, d, 0)
    BY <1>4 DEF Operands
  <2>2. i.op = op /\ i.d = d /\ i.x = 0
    BY <2>1 DEF Ins
  <2> QED BY <2>1, <2>2
<1>5. CASE i \in {Ins("shr", d, x) : d \in RegOps, x \in {1, 4}}
  <2>1. PICK d \in RegOps, x \in {1, 4} : i = Ins("shr", d, x)
    BY <1>5
  <2>2. i.op = "shr" /\ i.d = d /\ i.x = x
    BY <2>1 DEF Ins
  <2> QED BY <2>1, <2>2 DEF Operands
<1> QED BY <1>1, <1>2, <1>3, <1>4, <1>5 DEF DataIns

(* What is read where the bytes of an instruction are is what it means. *)
LEMMA ReadsData ==
  ASSUME NEW f, NEW a \in Int, NEW i \in DataIns, Holds(f, a, Encoded(i))
  PROVE  DecodedAt(f, a) = Meant(i)
<1>1. CASE i.op \in {"load", "store"}
  <2>1. i.d \in RegOps /\ i.m \in MemOps
    BY <1>1, DataKinds
  <2>2. Meant(i) = MemIns(i.op, i.d, OperandMeant(i.m, i.d.w))
    BY <1>1 DEF Meant, RefOps
  <2>3. CASE i.op = "load"
    <3>1. Holds(f, a, MovLoad(i.d, i.m))
      BY <2>3 DEF Encoded
    <3> QED BY <2>1, <2>2, <2>3, <3>1, ReadsMem
  <2>4. CASE i.op = "store"
    <3>1. Holds(f, a, MovStore(i.m, i.d))
      BY <2>4 DEF Encoded
    <3> QED BY <2>1, <2>2, <2>4, <3>1, ReadsMem
  <2> QED BY <1>1, <2>3, <2>4
<1>2. CASE i.op = "mov"
  <2>1. i.d \in RegOps /\ i.x \in Int
    BY <1>2, DataKinds
  <2>2. Meant(i) = Ins("mov", OperandMeant(i.d, i.d.w), Cut(i.x, i.d.w))
    BY <1>2 DEF Meant, RefOps, Cut
  <2>3. Holds(f, a, MovImm(i.d, i.x))
    BY <1>2 DEF Encoded
  <2> QED BY <2>1, <2>2, <2>3, ReadsMov
<1>3. CASE i.op = "cmp"
  <2>1. i.d \in Operands /\ i.x \in Int
    BY <1>3, DataKinds
  <2>2. Meant(i) = Ins("cmp", OperandMeant(i.d, i.d.w), Cut(i.x, i.d.w))
    BY <1>3 DEF Meant, RefOps, Cut
  <2>3. Holds(f, a, AluImm(7, i.d, i.x))
    BY <1>3 DEF Encoded
  <2> QED BY <2>1, <2>2, <2>3, ReadsCmp
<1>4. CASE i.op \in {"dec", "mul"}
  <2>1. i.d \in Operands /\ i.x = 0
    BY <1>4, DataKinds
  <2>2. 0 % Two16 = 0 /\ 0 % Two8 = 0
    BY DEF Two8, Two16
  <2>3. Meant(i) = Ins(i.op, OperandMeant(i.d, i.d.w), 0)
    BY <1>4, <2>1, <2>2 DEF Meant, RefOps
  <2>4. CASE i.op = "dec"
    <3>1. Holds(f, a, IncDec(1, i.d))
      BY <2>4 DEF Encoded
    <3> QED BY <2>1, <2>3, <2>4, <3>1, ReadsDec
  <2>5. CASE i.op = "mul"
    <3>1. Holds(f, a, Unary(4, i.d))
      BY <2>5 DEF Encoded
    <3> QED BY <2>1, <2>3, <2>5, <3>1, ReadsMul
  <2> QED BY <1>4, <2>4, <2>5
<1>5. CASE i.op = "shr"
  <2>1. i.d \in Operands /\ i.x \in Int
    BY <1>5, DataKinds
  <2>2. Meant(i) = Ins("shr", OperandMeant(i.d, i.d.w), i.x)
    BY <1>5 DEF Meant, RefOps
  <2>3. Holds(f, a, Shift(5, i.d, i.x))
    BY <1>5 DEF Encoded
  <2> QED BY <2>1, <2>2, <2>3, ReadsShr
<1> QED BY <1>1, <1>2, <1>3, <1>4, <1>5, DataKinds

-----------------------------------------------------------------------------
(* Every encoding is a sequence of bytes, and not empty.                   *)

LEMMA CodedBytes ==
  ASSUME NEW e \in Int, NEW field \in 0..7, NEW o \in Operands
  PROVE  <<e>> \o ModRM(field, o) \in Bytes
<1>1. <<e>> \in Seq(Int) /\ ModRM(field, o) \in Seq(Int)
  BY SingleByte, ModRMBytes DEF Bytes
<1> QED BY <1>1, ConcatProperties DEF Bytes

LEMMA BothBytes ==
  ASSUME NEW s \in Bytes, NEW t \in Bytes
  PROVE  s \o t \in Bytes
  BY ConcatProperties DEF Bytes

LEMMA EncodedBytes ==
  ASSUME NEW i \in DataIns PROVE Encoded(i) \in Bytes
<1> DEFINE d == i.d
           w == d.w
           x == i.x
<1>1. CASE i.op \in {"load", "store"}
  <2>1. d \in RegOps /\ i.m \in Operands /\ w \in {0, 1} /\ d.n \in 0..7
    BY <1>1, DataKinds, RegMeant DEF Operands
  <2>2. 138 + w \in Int /\ 136 + w \in Int
    BY <2>1
  <2>3. MovLoad(d, i.m) \in Bytes /\ MovStore(i.m, d) \in Bytes
    BY <2>1, <2>2, CodedBytes DEF MovLoad, MovStore
  <2> QED BY <1>1, <2>3 DEF Encoded
<1>2. CASE i.op = "mov"
  <2>1. d \in RegOps /\ x \in Int /\ w \in {0, 1} /\ d.n \in 0..7
    BY <1>2, DataKinds, RegMeant
  <2>2. (176 + 8 * w) + d.n \in Int
    BY <2>1
  <2>3. <<(176 + 8 * w) + d.n>> \in Bytes /\ Imm(x, w) \in Bytes
    BY <2>1, <2>2, SingleByte, ImmBytes
  <2> QED BY <1>2, <2>3, BothBytes DEF Encoded, MovImm
<1>3. CASE i.op \in {"cmp", "dec", "mul", "shr"}
  <2>1. d \in Operands /\ x \in Int /\ w \in {0, 1}
    BY <1>3, DataKinds, OperandKind
  <2>2. x % Two8 \in Int
    BY <2>1, WordRead
  <2>3. /\ <<x % Two8>> \in Bytes /\ <<x>> \in Bytes /\ Imm(x, w) \in Bytes
        /\ <<8 * 7 + 4 + w>> \in Bytes
    <3>1. 8 * 7 + 4 + w \in Int
      BY <2>1
    <3> QED BY <2>1, <2>2, <3>1, SingleByte, ImmBytes
  <2>4. /\ <<131>> \o ModRM(7, d) \in Bytes
        /\ <<128 + w>> \o ModRM(7, d) \in Bytes
        /\ <<254 + w>> \o ModRM(1, d) \in Bytes
        /\ <<246 + w>> \o ModRM(4, d) \in Bytes
        /\ <<208 + w>> \o ModRM(5, d) \in Bytes
        /\ <<192 + w>> \o ModRM(5, d) \in Bytes
    <3>1. /\ 131 \in Int /\ 128 + w \in Int /\ 254 + w \in Int /\ 246 + w \in Int
          /\ 208 + w \in Int /\ 192 + w \in Int
          /\ 7 \in 0..7 /\ 1 \in 0..7 /\ 4 \in 0..7 /\ 5 \in 0..7
      BY <2>1
    <3>2. \A e \in Int, field \in 0..7 : <<e>> \o ModRM(field, d) \in Bytes
      BY <2>1, CodedBytes
    <3> QED BY <3>1, <3>2, Zenon
  <2>5. AluImm(7, d, x) \in Bytes
    BY <2>3, <2>4, BothBytes DEF AluImm
  <2>6. IncDec(1, d) \in Bytes
    <3>1. CASE d.form = "reg" /\ d.w = 1
      <4>1. 64 + 8 * 1 + d.n \in Int
        BY <2>1, <3>1, OperandKind
      <4> QED BY <3>1, <4>1, SingleByte DEF IncDec
    <3> QED BY <2>4, <3>1 DEF IncDec
  <2>7. Unary(4, d) \in Bytes
    BY <2>4 DEF Unary
  <2>8. Shift(5, d, x) \in Bytes
    BY <2>3, <2>4, BothBytes DEF Shift
  <2> QED BY <1>3, <2>5, <2>6, <2>7, <2>8 DEF Encoded
<1> QED BY <1>1, <1>2, <1>3, DataKinds

-----------------------------------------------------------------------------
(* References.                                                             *)

(* A reference whose hole is filled with the way to its label. *)
Distance(v, end) == v - end
FilledWith(op, v, end) ==
  IF Kind(op) = "rel8" THEN <<Distance(v, end) % Two8>>
  ELSE Word16(IF Kind(op) = "rel16" THEN Distance(v, end) ELSE v)

LEMMA ReadsShort ==
  ASSUME NEW f, NEW a \in Int, NEW op \in Short, NEW v \in Int,
         v - (ORIGIN + a + 2) \in -128..127,
         f[a] = Opcode(op), f[a + 1] = (v - (ORIGIN + a + 2)) % Two8
  PROVE  DecodedAt(f, a) = To(op, v)
<1> DEFINE near == ORIGIN + a + 2 + Signed8(f[a + 1])
           x == v - (ORIGIN + a + 2)
<1>1. ORIGIN \in Int
  BY AssemblerAssumptions
<1>2. Signed8(f[a + 1]) = x
  BY SignedRead
<1>3. near = v
  BY <1>1, <1>2
<1>4. /\ op \in {"jc", "jnc", "jmps", "loop"}
      /\ f[a] = IF op = "jc" THEN 114 ELSE IF op = "jnc" THEN 115
                ELSE IF op = "jmps" THEN 235 ELSE 226
  BY DEF Short, Opcode
<1>5. DecodedAt(f, a) = To(op, near)
  BY <1>4 DEF DecodedAt
<1> QED BY <1>3, <1>5

LEMMA ReadsNear ==
  ASSUME NEW f, NEW a \in Int, NEW op \in {"jmp", "call"}, NEW v \in Int,
         f[a] = Opcode(op), WordAt(f, a + 1) = (v - (ORIGIN + a + 3)) % Two16
  PROVE  DecodedAt(f, a) = To(op, v)
<1> DEFINE x == v - (ORIGIN + a + 3)
           near == ORIGIN + a + 3 + WordAt(f, a + 1)
<1>1. ORIGIN \in Int /\ x \in Int
  BY AssemblerAssumptions
<1>2. near % Two16 = v % Two16
  <2> DEFINE y == ORIGIN + a + 3
  <2>1. y \in Int /\ near = y + ((v - y) % Two16)
    BY <1>1
  <2> HIDE DEF y
  <2> QED BY <2>1, SMT DEF Two16
<1>3. f[a] = IF op = "jmp" THEN 233 ELSE 232
  BY DEF Opcode
<1>4. DecodedAt(f, a) = To(op, near)
  BY <1>3 DEF DecodedAt
<1> QED BY <1>2, <1>4 DEF To

LEMMA ReadsOffset ==
  ASSUME NEW f, NEW a \in Int, NEW v \in Int,
         f[a] = Opcode("offset"), WordAt(f, a + 1) = v % Two16
  PROVE  DecodedAt(f, a) = Ins("mov", Register(0, 1), v % Two16)
<1>1. f[a] = 184
  BY DEF Opcode
<1> QED BY <1>1 DEF DecodedAt

-----------------------------------------------------------------------------
(* The inductive invariant.                                                *)

(* The bytes of an instruction as it is put: holes are zero. *)
Raw(i) == IF i.op \in RefOps THEN RefBytes(i.op) ELSE Encoded(i)

AllLabels == LABELS \cup ({"over"} \X Int)
Requests == DataIns \cup [op : RefOps, label : AllLabels]
Placings == [at : Nat, i : Requests]
HoleSet == [at : Nat, kind : {"rel8", "rel16", "abs16"}, label : AllLabels, end : Int]
Images == UNION {[D -> Int] : D \in SUBSET Int}

HoleFor(p) == Hole(p.at, p.i.op, p.i.label)
Refers(p) == p.i.op \in RefOps
Put == Range(placed)

(* The bytes s are in f, and f has a place for each. *)
HasBytes(f, a, s) == \A k \in 1..Len(s) : a + k - 1 \in DOMAIN f /\ f[a + k - 1] = s[k]
Apart(p, q) == p.at + Len(Raw(p.i)) <= q.at \/ q.at + Len(Raw(q.i)) <= p.at

(* The instructions in P are in the image f one behind the other, up to at. *)
LaidOut(P, f, at) ==
  /\ \A p \in P : p.at + Len(Raw(p.i)) <= at /\ HasBytes(f, p.at, Raw(p.i))
  /\ \A p, q \in P : p = q \/ Apart(p, q)

Types == /\ pos \in Nat /\ buf \in Images /\ labels \in [DOMAIN labels -> Int]
         /\ placed \in Seq(Placings) /\ fixups \in Seq(HoleSet)
Laid == ~over => LaidOut(Put, buf, pos)
Holed == Range(fixups) = {HoleFor(p) : p \in {q \in Put : Refers(q)}}
Skips == \A p \in Put : Refers(p) /\ p.i.label \notin LABELS =>
           /\ p.i.label \in DOMAIN labels
           /\ labels[p.i.label] = ORIGIN + p.at + 5 /\ p.i.op \in {"jc", "jnc"}

(* While the program is open its instructions lie one behind the other     *)
(* (unless org went back), there is a hole for each reference and no other *)
(* one, and every label that jcc_far makes up is behind its jump.          *)
AsmInv == /\ status = "open" => Types /\ Laid /\ Holed /\ Skips
          /\ status \in {"open", "done", "error"}
          /\ Disassembles

-----------------------------------------------------------------------------
(* What a call adds to the history, the holes and the image.               *)

LEMMA AppendRange ==
  ASSUME NEW S, NEW s \in Seq(S), NEW x \in S
  PROVE  Append(s, x) \in Seq(S) /\ Range(Append(s, x)) = Range(s) \cup {x}
<1>1. /\ Append(s, x) \in Seq(S) /\ Len(Append(s, x)) = Len(s) + 1
      /\ \A k \in 1..Len(s) : Append(s, x)[k] = s[k]
      /\ Append(s, x)[Len(s) + 1] = x
  BY AppendProperties
<1>2. /\ DOMAIN s = 1..Len(s) /\ Len(s) \in Nat
      /\ DOMAIN Append(s, x) = 1..Len(s) + 1
  BY <1>1, LenProperties
<1> DEFINE t == Append(s, x)
<1> HIDE DEF t
<1>3. Range(t) = Range(s) \cup {x}
  BY <1>1, <1>2 DEF Range, t
<1> QED BY <1>1, <1>3 DEF t

LEMMA BothRange ==
  ASSUME NEW S, NEW s \in Seq(S), NEW t \in Seq(S)
  PROVE  s \o t \in Seq(S) /\ Range(s \o t) = Range(s) \cup Range(t)
<1> DEFINE u == s \o t
<1>1. /\ u \in Seq(S) /\ Len(u) = Len(s) + Len(t)
      /\ \A k \in 1..Len(s) + Len(t) : u[k] = IF k <= Len(s) THEN s[k] ELSE t[k - Len(s)]
  BY ConcatProperties
<1>2. /\ DOMAIN s = 1..Len(s) /\ Len(s) \in Nat
      /\ DOMAIN t = 1..Len(t) /\ Len(t) \in Nat
      /\ DOMAIN u = 1..Len(s) + Len(t)
  BY <1>1, LenProperties
<1> HIDE DEF u
<1>3. ASSUME NEW k \in 1..Len(s) PROVE k \in DOMAIN u /\ u[k] = s[k]
  BY <1>1, <1>2
<1>4. ASSUME NEW k \in 1..Len(t) PROVE Len(s) + k \in DOMAIN u /\ u[Len(s) + k] = t[k]
  <2>1. /\ Len(s) + k \in 1..Len(s) + Len(t) /\ ~(Len(s) + k <= Len(s))
        /\ (Len(s) + k) - Len(s) = k
    BY <1>2
  <2> QED BY <1>1, <1>2, <2>1
<1>5. Range(u) \subseteq Range(s) \cup Range(t)
  <2>1. ASSUME NEW k \in 1..Len(s) + Len(t), ~(k <= Len(s)) PROVE k - Len(s) \in 1..Len(t)
    BY <1>2, <2>1
  <2>2. ASSUME NEW y \in Range(u) PROVE y \in Range(s) \/ y \in Range(t)
    <3>1. PICK k \in 1..Len(s) + Len(t) : y = u[k]
      BY <1>2 DEF Range
    <3>2. CASE k <= Len(s)
      <4>1. k \in DOMAIN s /\ y = s[k]
        BY <1>1, <1>2, <3>1, <3>2
      <4> QED BY <4>1 DEF Range
    <3>3. CASE ~(k <= Len(s))
      <4>1. k - Len(s) \in DOMAIN t /\ y = t[k - Len(s)]
        BY <1>1, <1>2, <2>1, <3>1, <3>3
      <4> QED BY <4>1 DEF Range
    <3> QED BY <3>2, <3>3
  <2> QED BY <2>2
<1>6. Range(s) \cup Range(t) \subseteq Range(u)
  BY <1>2, <1>3, <1>4 DEF Range
<1> QED BY <1>1, <1>5, <1>6 DEF u

LEMMA PairRange ==
  ASSUME NEW S, NEW x \in S, NEW y \in S
  PROVE  <<x, y>> \in Seq(S) /\ Range(<<x, y>>) = {x, y}
  BY DEF Range

(* What is written is there, and the rest stays. *)
LEMMA WriteReads ==
  ASSUME NEW f, NEW at \in Int, NEW s \in Bytes
  PROVE  /\ DOMAIN WriteAt(f, at, s) = (DOMAIN f) \cup (at..at + Len(s) - 1)
         /\ HasBytes(WriteAt(f, at, s), at, s)
         /\ \A a \in DOMAIN f : a \notin at..at + Len(s) - 1 => WriteAt(f, at, s)[a] = f[a]
<1> DEFINE span == at..at + Len(s) - 1
           g == WriteAt(f, at, s)
<1>0. Len(s) \in Nat
  BY LenProperties DEF Bytes
<1>1. /\ DOMAIN g = (DOMAIN f) \cup span
      /\ \A a \in span : g[a] = s[a - at + 1]
      /\ \A a \in DOMAIN f : a \notin span => g[a] = f[a]
  BY DEF WriteAt
<1> HIDE DEF g
<1>2. ASSUME NEW k \in 1..Len(s) PROVE at + k - 1 \in DOMAIN g /\ g[at + k - 1] = s[k]
  <2>1. at + k - 1 \in span /\ (at + k - 1) - at + 1 = k
    BY <1>0
  <2> HIDE DEF span
  <2> QED BY <1>1, <2>1
<1> QED BY <1>1, <1>2 DEF HasBytes, g

LEMMA WriteImage ==
  ASSUME NEW f \in Images, NEW at \in Int, NEW s \in Bytes
  PROVE  WriteAt(f, at, s) \in Images
<1> DEFINE span == at..at + Len(s) - 1
           D == (DOMAIN f) \cup span
<1>0. Len(s) \in Nat /\ s \in [1..Len(s) -> Int]
  BY LenProperties, ElementOfSeq DEF Bytes
<1>1. PICK E \in SUBSET Int : f \in [E -> Int]
  BY DEF Images
<1>2. DOMAIN f = E /\ D \subseteq Int
  BY <1>1
<1>3. ASSUME NEW a \in span PROVE s[a - at + 1] \in Int
  BY <1>0
<1>4. WriteAt(f, at, s) \in [D -> Int]
  BY <1>1, <1>2, <1>3 DEF WriteAt
<1> HIDE DEF D
<1> QED BY <1>2, <1>4 DEF Images

LEMMA WithinHolds ==
  ASSUME NEW f, NEW a, NEW s, HasBytes(f, a, s)
  PROVE  Holds(f, a, s)
  BY DEF HasBytes, Holds

(* Bytes that nothing is written over stay. *)
LEMMA WithinKept ==
  ASSUME NEW f, NEW at \in Int, NEW s \in Bytes, NEW b \in Int, NEW t \in Bytes,
         HasBytes(f, b, t), b + Len(t) <= at \/ at + Len(s) <= b
  PROVE  HasBytes(WriteAt(f, at, s), b, t)
<1> DEFINE g == WriteAt(f, at, s)
<1>0. Len(s) \in Nat /\ Len(t) \in Nat
  BY LenProperties DEF Bytes
<1>1. ASSUME NEW k \in 1..Len(t) PROVE b + k - 1 \in DOMAIN g /\ g[b + k - 1] = t[k]
  <2> DEFINE a == b + k - 1
  <2>1. a \in DOMAIN f /\ f[a] = t[k]
    BY DEF HasBytes
  <2>2. a \notin at..at + Len(s) - 1
    BY <1>0
  <2> HIDE DEF a
  <2>3. a \in DOMAIN g /\ g[a] = f[a]
    <3>1. /\ DOMAIN g = (DOMAIN f) \cup (at..at + Len(s) - 1)
          /\ \A c \in DOMAIN f : c \notin at..at + Len(s) - 1 => g[c] = f[c]
      BY WriteReads
    <3> HIDE DEF g
    <3> QED BY <2>1, <2>2, <3>1
  <2> QED BY <2>1, <2>3 DEF a
<1> HIDE DEF g
<1>2. HasBytes(g, b, t)
  BY <1>1 DEF HasBytes
<1> QED BY <1>2 DEF g

(* Two writes, one behind the other, are one. *)
LEMMA WriteBoth ==
  ASSUME NEW f, NEW at \in Int, NEW s \in Bytes, NEW t \in Bytes
  PROVE  WriteAt(f, at, s \o t) = WriteAt(WriteAt(f, at, s), at + Len(s), t)
<1> DEFINE u == s \o t
           m == Len(s)
           n == Len(t)
           left == WriteAt(f, at, u)
           right == WriteAt(WriteAt(f, at, s), at + m, t)
           D == (DOMAIN f) \cup (at..at + (m + n) - 1)
<1>1. /\ m \in Nat /\ n \in Nat /\ Len(u) = m + n
      /\ \A k \in 1..m + n : u[k] = IF k <= m THEN s[k] ELSE t[k - m]
  <2>1. Len(s \o t) = Len(s) + Len(t) /\ \A k \in 1..Len(s) + Len(t) :
          (s \o t)[k] = IF k <= Len(s) THEN s[k] ELSE t[k - Len(s)]
    BY ConcatProperties DEF Bytes
  <2> QED BY <2>1, LenProperties DEF Bytes
<1>2. left = [a \in D |-> IF a \in at..at + (m + n) - 1 THEN u[a - at + 1] ELSE f[a]]
  <2> HIDE DEF u, m, n
  <2> QED BY <1>1 DEF WriteAt
<1>3. right = [a \in ((DOMAIN f) \cup (at..at + m - 1)) \cup ((at + m)..(at + m) + n - 1) |->
                 IF a \in (at + m)..(at + m) + n - 1 THEN t[a - (at + m) + 1]
                 ELSE IF a \in at..at + m - 1 THEN s[a - at + 1] ELSE f[a]]
  BY DEF WriteAt
<1> HIDE DEF u, m, n
<1>4. ((DOMAIN f) \cup (at..at + m - 1)) \cup ((at + m)..(at + m) + n - 1) = D
  <2>1. at..at + (m + n) - 1 = (at..at + m - 1) \cup ((at + m)..(at + m) + n - 1)
    BY <1>1
  <2> QED BY <2>1
<1>5. ASSUME NEW a \in D
      PROVE  (IF a \in at..at + (m + n) - 1 THEN u[a - at + 1] ELSE f[a]) =
             (IF a \in (at + m)..(at + m) + n - 1 THEN t[a - (at + m) + 1]
              ELSE IF a \in at..at + m - 1 THEN s[a - at + 1] ELSE f[a])
  <2>1. CASE a \in (at + m)..(at + m) + n - 1
    <3> DEFINE k == a - at + 1
    <3>1. /\ k \in 1..m + n /\ ~(k <= m) /\ k - m = a - (at + m) + 1
          /\ a \in at..at + (m + n) - 1
      BY <1>1, <2>1
    <3> HIDE DEF k
    <3>2. u[k] = t[k - m]
      BY <1>1, <3>1
    <3> QED BY <2>1, <3>1, <3>2 DEF k
  <2>2. CASE a \in at..at + m - 1
    <3> DEFINE k == a - at + 1
    <3>1. /\ k \in 1..m + n /\ k <= m /\ a \notin (at + m)..(at + m) + n - 1
          /\ a \in at..at + (m + n) - 1
      BY <1>1, <2>2
    <3> HIDE DEF k
    <3>2. u[k] = s[k]
      BY <1>1, <3>1
    <3> QED BY <2>2, <3>1, <3>2 DEF k
  <2>3. CASE a \notin (at + m)..(at + m) + n - 1 /\ a \notin at..at + m - 1
    <3>1. a \notin at..at + (m + n) - 1
      BY <1>1, <2>3
    <3> QED BY <2>3, <3>1
  <2> QED BY <2>1, <2>2, <2>3
<1>6. left = right
  <2> HIDE DEF left, right, D
  <2> QED BY <1>2, <1>3, <1>4, <1>5
<1> QED BY <1>6 DEF u, m, left, right

LEMMA HoleSize == ASSUME NEW op PROVE HoleOf(Kind(op)) \in {1, 2}
  BY DEF HoleOf

LEMMA RefBytesAre ==
  ASSUME NEW op
  PROVE  /\ RefBytes(op) \in Bytes /\ Len(RefBytes(op)) = 1 + HoleOf(Kind(op))
         /\ RefBytes(op)[1] = Opcode(op)
<1> DEFINE n == HoleOf(Kind(op))
           s == <<Opcode(op)>>
           t == [k \in 1..n |-> 0]
<1>1. n \in Nat
  BY HoleSize
<1>2. Opcode(op) \in Int
  BY DEF Opcode
<1>3. s \in Seq(Int) /\ Len(s) = 1 /\ s[1] = Opcode(op)
  BY <1>2
<1>4. t \in Seq(Int) /\ Len(t) = n
  <2> HIDE DEF n
  <2> QED BY <1>1
<1> HIDE DEF s, t, n
<1>5. /\ s \o t \in Seq(Int) /\ Len(s \o t) = Len(s) + Len(t)
      /\ \A k \in 1..Len(s) + Len(t) : (s \o t)[k] = IF k <= Len(s) THEN s[k] ELSE t[k - Len(s)]
  BY <1>3, <1>4, ConcatProperties
<1>6. 1 \in 1..Len(s) + Len(t)
  BY <1>1, <1>3, <1>4
<1>7. (s \o t)[1] = Opcode(op) /\ Len(s \o t) = 1 + n
  BY <1>3, <1>4, <1>5, <1>6
<1> QED BY <1>5, <1>7 DEF RefBytes, Bytes, s, t, n

LEMMA DataOp ==
  ASSUME NEW i \in DataIns PROVE i.op \notin RefOps
<1>1. i.op \in {"load", "store", "mov", "cmp", "dec", "mul", "shr"}
  BY DataKinds
<1> QED BY <1>1 DEF RefOps

LEMMA RawBytes ==
  ASSUME NEW i \in Requests
  PROVE  Raw(i) \in Bytes /\ Len(Raw(i)) \in Nat
<1>1. CASE i.op \in RefOps
  BY <1>1, RefBytesAre, LenProperties DEF Raw, Bytes
<1>2. CASE i.op \notin RefOps
  <2>1. i \in DataIns
    BY <1>2 DEF Requests
  <2> QED BY <1>2, <2>1, EncodedBytes, LenProperties DEF Raw, Bytes
<1> QED BY <1>1, <1>2

Placing(a, i) == [at |-> a, i |-> i]

LEMMA PutBehind ==
  ASSUME NEW P \in SUBSET Placings, NEW f, NEW a \in Nat, NEW i \in Requests,
         LaidOut(P, f, a)
  PROVE  LaidOut(P \cup {Placing(a, i)}, WriteAt(f, a, Raw(i)), a + Len(Raw(i)))
<1> DEFINE s == Raw(i)
           n == Len(s)
           g == WriteAt(f, a, s)
           r == Placing(a, i)
<1>1. s \in Bytes /\ n \in Nat
  BY RawBytes
<1>2. r.at = a /\ r.i = i
  BY DEF Placing
<1>3. HasBytes(g, a, s)
  <2>1. s \in Bytes /\ a \in Int
    BY <1>1
  <2> HIDE DEF s
  <2>2. HasBytes(WriteAt(f, a, s), a, s)
    BY <2>1, WriteReads
  <2> QED BY <2>2
<1>4. ASSUME NEW p \in P
      PROVE  /\ p.at \in Nat /\ Raw(p.i) \in Bytes /\ Len(Raw(p.i)) \in Nat
             /\ p.at + Len(Raw(p.i)) <= a /\ HasBytes(g, p.at, Raw(p.i))
  <2>1. p.at \in Nat /\ p.i \in Requests
    BY DEF Placings
  <2>2. Raw(p.i) \in Bytes /\ Len(Raw(p.i)) \in Nat
    BY <2>1, RawBytes
  <2>3. p.at + Len(Raw(p.i)) <= a /\ HasBytes(f, p.at, Raw(p.i))
    BY DEF LaidOut
  <2> DEFINE b == p.at
             t == Raw(p.i)
  <2>4. b \in Int /\ a \in Int
    BY <2>1
  <2> HIDE DEF b, t, s
  <2>5. HasBytes(WriteAt(f, a, s), b, t)
    BY <1>1, <2>2, <2>3, <2>4, WithinKept DEF b, t
  <2> QED BY <2>1, <2>2, <2>3, <2>5 DEF b, t
<1> HIDE DEF g, r, n
<1>5. ASSUME NEW p \in P \cup {r}
      PROVE  p.at + Len(Raw(p.i)) <= a + n /\ HasBytes(g, p.at, Raw(p.i))
  <2>1. CASE p \in P
    BY <1>1, <1>4, <2>1
  <2>2. CASE p = r
    BY <1>1, <1>2, <1>3, <2>2 DEF n
  <2> QED BY <2>1, <2>2
<1>6. ASSUME NEW p \in P \cup {r}, NEW q \in P \cup {r} PROVE p = q \/ Apart(p, q)
  <2>1. CASE p \in P /\ q \in P
    BY <2>1 DEF LaidOut
  <2>2. CASE p \in P /\ q = r
    BY <1>2, <1>4, <2>2 DEF Apart
  <2>3. CASE p = r /\ q \in P
    BY <1>2, <1>4, <2>3 DEF Apart
  <2> QED BY <2>1, <2>2, <2>3
<1>7. LaidOut(P \cup {r}, g, a + n)
  BY <1>5, <1>6 DEF LaidOut
<1> QED BY <1>7 DEF g, r, n

-----------------------------------------------------------------------------
(* resolve *)

LEMMA HoleFields ==
  ASSUME NEW p
  PROVE  /\ HoleFor(p).at = p.at + 1 /\ HoleFor(p).kind = Kind(p.i.op)
         /\ HoleFor(p).label = p.i.label
         /\ HoleFor(p).end = ORIGIN + p.at + 1 + HoleOf(Kind(p.i.op))
  BY DEF HoleFor, Hole

LEMMA WordBytes ==
  ASSUME NEW n \in Int PROVE Word16(n) \in Bytes /\ Len(Word16(n)) = 2
<1>1. n % Two8 \in Int /\ (n \div Two8) % Two8 \in Int
  BY WordRead
<1> QED BY <1>1 DEF Word16, Bytes

LEMMA FillingBytes ==
  ASSUME NEW h \in HoleSet, h.label \in DOMAIN labels, labels \in [DOMAIN labels -> Int]
  PROVE  Filling(h) \in Bytes /\ Len(Filling(h)) = HoleOf(h.kind)
<1> DEFINE v == labels[h.label]
<1>1. v \in Int /\ h.end \in Int /\ v - h.end \in Int
  BY DEF HoleSet
<1>2. CASE h.kind = "rel8"
  <2>1. (v - h.end) % Two8 \in Int
    BY <1>1, WordRead
  <2>2. Filling(h) = <<(v - h.end) % Two8>>
    BY <1>2 DEF Filling
  <2> QED BY <1>2, <2>1, <2>2, SingleByte DEF HoleOf
<1>3. CASE h.kind # "rel8"
  <2> DEFINE x == IF h.kind = "rel16" THEN v - h.end ELSE v
  <2>1. x \in Int /\ Filling(h) = Word16(x)
    BY <1>1, <1>3 DEF Filling
  <2> HIDE DEF x
  <2> QED BY <1>3, <2>1, WordBytes DEF HoleOf
<1> QED BY <1>2, <1>3

(* Images with the first holes filled, one after the other. *)
Filled(f, h) == WriteAt(f, h.at, Filling(h))
Steps(g, n) == g[0] = buf /\ \A k \in 1..n : g[k] = Filled(g[k - 1], fixups[k])

LEMMA PatchSteps ==
  ASSUME Types, NEW n \in 0..Len(fixups), \A k \in 1..n : Fits(fixups[k])
  PROVE  \E g : Steps(g, n) /\ Patched(n) = g[n]
<1>0. n \in Nat /\ Len(fixups) \in Nat
  BY LenProperties DEF Types
<1>1. ASSUME NEW k \in 1..n
      PROVE  /\ fixups[k] \in HoleSet /\ fixups[k].at \in Int
             /\ Filling(fixups[k]) \in Bytes
  <2>1. k \in 1..Len(fixups)
    BY <1>0
  <2>2. fixups[k] \in HoleSet
    BY <2>1, ElementOfSeq DEF Types
  <2>3. fixups[k].at \in Int
    BY <2>2 DEF HoleSet
  <2>4. fixups[k].label \in DOMAIN labels
    BY DEF Fits
  <2> QED BY <2>2, <2>3, <2>4, FillingBytes DEF Types
<1> DEFINE F == [c \in Nat \X Images |->
                   IF c[1] < n THEN Filled(c[2], fixups[c[1] + 1]) ELSE c[2]]
<1>2. F \in [Nat \X Images -> Images]
  <2>1. ASSUME NEW c \in Nat \X Images PROVE F[c] \in Images
    <3>1. CASE c[1] < n
      <4> DEFINE k == c[1] + 1
                 h == fixups[k]
      <4>1. k \in 1..n
        BY <1>0, <3>1
      <4> HIDE DEF k
      <4>2. h.at \in Int /\ Filling(h) \in Bytes
        BY <1>1, <4>1
      <4> HIDE DEF h
      <4>3. Filled(c[2], h) \in Images
        BY <4>2, WriteImage DEF Filled
      <4> QED BY <3>1, <4>3 DEF h, k
    <3> QED BY <3>1
  <2> QED BY <2>1
<1>3. buf \in Images
  BY DEF Types
<1>4. PICK e \in [Nat -> Images] : e[0] = buf /\ \A k \in Nat : e[k + 1] = F[<<k, e[k]>>]
  <2> HIDE DEF F
  <2>1. \E e \in [Nat -> Images] : Recurs(e, buf, F)
    BY <1>2, <1>3, Recursion
  <2> QED BY <2>1 DEF Recurs
<1>5. ASSUME NEW k \in 1..n PROVE e[k] = Filled(e[k - 1], fixups[k])
  <2> DEFINE j == k - 1
  <2>1. j \in Nat /\ j < n /\ k = j + 1
    BY <1>0
  <2>2. e[j + 1] = F[<<j, e[j]>>] /\ e[j] \in Images
    BY <1>4, <2>1
  <2> HIDE DEF j
  <2>3. e[j + 1] = Filled(e[j], fixups[j + 1])
    BY <2>1, <2>2
  <2> QED BY <2>1, <2>3 DEF j
<1> HIDE DEF F
<1> DEFINE Is(f) == f = [k \in 0..n |-> IF k = 0 THEN buf ELSE Filled(f[k - 1], fixups[k])]
           after == CHOOSE f : Is(f)
           d == [k \in 0..n |-> e[k]]
<1>6. Is(d)
  <2>1. ASSUME NEW k \in 0..n
        PROVE  e[k] = IF k = 0 THEN buf ELSE Filled(d[k - 1], fixups[k])
    <3>1. CASE k = 0
      BY <1>4, <3>1
    <3>2. CASE k # 0
      <4>1. k \in 1..n /\ k - 1 \in 0..n
        BY <1>0, <3>2
      <4>2. d[k - 1] = e[k - 1]
        BY <4>1
      <4> QED BY <1>5, <3>2, <4>1, <4>2
    <3> QED BY <3>1, <3>2
  <2>2. d = [k \in 0..n |-> IF k = 0 THEN buf ELSE Filled(d[k - 1], fixups[k])]
    BY <2>1
  <2> HIDE DEF d
  <2> QED BY <2>2
<1>7. Is(after)
  <2> HIDE DEF Is, d
  <2> QED BY <1>6
<1>8. Steps(after, n)
  <2> HIDE DEF after
  <2>1. after[0] = buf
    BY <1>7, <1>0
  <2>2. ASSUME NEW k \in 1..n PROVE after[k] = Filled(after[k - 1], fixups[k])
    <3>1. k \in 0..n /\ k # 0
      BY <1>0
    <3> QED BY <1>7, <3>1
  <2> QED BY <2>1, <2>2 DEF Steps
<1>9. Patched(n) = after[n]
  BY DEF Patched, Filled
<1> HIDE DEF after
<1> QED BY <1>8, <1>9

LEMMA ReadsRef ==
  ASSUME NEW p \in Placings, Refers(p), labels \in [DOMAIN labels -> Int], Fits(HoleFor(p)),
         NEW f, f[p.at] = Opcode(p.i.op), Holds(f, p.at + 1, Filling(HoleFor(p)))
  PROVE  DecodedAt(f, p.at) = Meant(p.i)
<1> DEFINE a == p.at
           op == p.i.op
           v == labels[p.i.label]
           h == HoleFor(p)
           end == ORIGIN + a + 1 + HoleOf(Kind(op))
<1>1. /\ h.kind = Kind(op) /\ h.label = p.i.label /\ h.end = end
  BY HoleFields
<1>2. /\ a \in Int /\ op \in RefOps /\ v \in Int /\ ORIGIN \in Int /\ a + 1 \in Int
      /\ Kind(op) = "rel8" => v - end \in -128..127
  BY <1>1, AssemblerAssumptions DEF Placings, Refers, Fits
<1> HIDE DEF v, h
<1>3. CASE op \in Short
  <2>1. Kind(op) = "rel8" /\ end = ORIGIN + a + 2
    BY <1>2, <1>3 DEF Kind, HoleOf
  <2> DEFINE x == (v - end) % Two8
  <2>2. Filling(h) = <<x>>
    BY <1>1, <2>1 DEF Filling, v
  <2>3. f[a + 1] = x
    <3> HIDE DEF x
    <3> QED BY <1>2, <2>2, HoldsOne DEF h
  <2>4. f[a] = Opcode(op)
    OBVIOUS
  <2>5. /\ v - (ORIGIN + a + 2) \in -128..127
        /\ f[a + 1] = (v - (ORIGIN + a + 2)) % Two8
    BY <1>2, <2>1, <2>3
  <2>6. DecodedAt(f, a) = To(op, v)
    <3> HIDE DEF a, op
    <3> QED BY <1>2, <1>3, <2>4, <2>5, ReadsShort
  <2>7. Meant(p.i) = To(op, v)
    BY <1>2, <1>3 DEF Meant, v, Short, RefOps
  <2> QED BY <2>6, <2>7
<1>4. CASE op \in {"jmp", "call"}
  <2>1. Kind(op) = "rel16" /\ end = ORIGIN + a + 3
    BY <1>2, <1>4 DEF Kind, HoleOf, Short
  <2> DEFINE x == v - end
             lo == x % Two8
             hi == (x \div Two8) % Two8
  <2>2. x \in Int
    BY <1>2, <2>1
  <2>3. Filling(h) = <<lo, hi>>
    BY <1>1, <2>1 DEF Filling, v, Word16
  <2>4. f[a + 1] = lo /\ f[(a + 1) + 1] = hi
    <3> HIDE DEF lo, hi
    <3> QED BY <1>2, <2>3, HoldsTwo DEF h
  <2>5. WordAt(f, a + 1) = x % Two16
    <3> HIDE DEF x
    <3> QED BY <2>2, <2>4, WordRead DEF WordAt
  <2>6. f[a] = Opcode(op) /\ WordAt(f, a + 1) = (v - (ORIGIN + a + 3)) % Two16
    BY <2>1, <2>5
  <2>7. DecodedAt(f, a) = To(op, v)
    <3> HIDE DEF a, op
    <3> QED BY <1>2, <1>4, <2>6, ReadsNear
  <2>8. Meant(p.i) = To(op, v)
    BY <1>2, <1>4 DEF Meant, v
  <2> QED BY <2>7, <2>8
<1>5. CASE op = "offset"
  <2>1. Kind(op) = "abs16"
    BY <1>5 DEF Kind, Short
  <2> DEFINE lo == v % Two8
             hi == (v \div Two8) % Two8
  <2>2. Filling(h) = <<lo, hi>>
    BY <1>1, <2>1 DEF Filling, v, Word16
  <2>3. f[a + 1] = lo /\ f[(a + 1) + 1] = hi
    <3> HIDE DEF lo, hi
    <3> QED BY <1>2, <2>2, HoldsTwo DEF h
  <2>4. WordAt(f, a + 1) = v % Two16
    BY <1>2, <2>3, WordRead DEF WordAt
  <2>5. f[a] = Opcode("offset")
    BY <1>5
  <2>6. DecodedAt(f, a) = Ins("mov", Register(0, 1), v % Two16)
    <3> HIDE DEF a
    <3> QED BY <1>2, <2>4, <2>5, ReadsOffset
  <2>7. Meant(p.i) = Ins("mov", Register(0, 1), v % Two16)
    BY <1>5 DEF Meant, v
  <2> QED BY <2>6, <2>7
<1> QED BY <1>2, <1>3, <1>4, <1>5 DEF RefOps, Short

-----------------------------------------------------------------------------
(* What the holes leave alone, and what they are filled with. *)
Clear(h, b, t) == b + Len(t) <= h.at \/ h.at + Len(Filling(h)) <= b
Separate(n) == \A j, k \in 1..n :
  fixups[j] = fixups[k] \/ Clear(fixups[k], fixups[j].at, Filling(fixups[j]))
Fillable(n) == \A k \in 1..n : fixups[k].at \in Int /\ Filling(fixups[k]) \in Bytes

LEMMA FilledKeeps ==
  ASSUME NEW f, NEW h, h.at \in Int, Filling(h) \in Bytes, NEW b \in Int, NEW t \in Bytes,
         HasBytes(f, b, t), Clear(h, b, t)
  PROVE  HasBytes(Filled(f, h), b, t)
<1> DEFINE a == h.at
           s == Filling(h)
<1>1. a \in Int /\ s \in Bytes /\ (b + Len(t) <= a \/ a + Len(s) <= b)
  BY DEF Clear
<1> HIDE DEF a, s
<1>2. HasBytes(WriteAt(f, a, s), b, t)
  BY <1>1, WithinKept
<1> QED BY <1>2 DEF a, s, Filled

LEMMA FilledReads ==
  ASSUME NEW f, NEW h, h.at \in Int, Filling(h) \in Bytes
  PROVE  HasBytes(Filled(f, h), h.at, Filling(h))
<1> DEFINE a == h.at
           s == Filling(h)
<1>1. a \in Int /\ s \in Bytes
  OBVIOUS
<1> HIDE DEF a, s
<1>2. HasBytes(WriteAt(f, a, s), a, s)
  BY <1>1, WriteReads
<1> QED BY <1>2 DEF a, s, Filled

LEMMA StepsKeep ==
  ASSUME NEW g, NEW n \in Nat, Steps(g, n), Fillable(n),
         NEW b \in Int, NEW t \in Bytes, HasBytes(buf, b, t),
         \A k \in 1..n : Clear(fixups[k], b, t)
  PROVE  HasBytes(g[n], b, t)
<1> DEFINE S == {k \in Nat : k <= n => HasBytes(g[k], b, t)}
<1>1. 0 \in S
  BY DEF Steps
<1>2. ASSUME NEW k \in Nat, k \in S PROVE k + 1 \in S
  <2> SUFFICES ASSUME k + 1 <= n PROVE HasBytes(g[k + 1], b, t)
    OBVIOUS
  <2> DEFINE m == k + 1
             h == fixups[m]
  <2>1. m \in 1..n /\ m - 1 = k /\ HasBytes(g[k], b, t)
    BY <1>2
  <2> HIDE DEF m
  <2>2. g[m] = Filled(g[k], h) /\ h.at \in Int /\ Filling(h) \in Bytes /\ Clear(h, b, t)
    BY <2>1 DEF Steps, Fillable
  <2> HIDE DEF h
  <2>3. HasBytes(g[m], b, t)
    BY <2>1, <2>2, FilledKeeps
  <2> QED BY <2>3 DEF m
<1>3. \A k \in Nat : k \in S
  <2> HIDE DEF S
  <2> QED BY <1>1, <1>2, Induction
<1> QED BY <1>3

LEMMA StepsFill ==
  ASSUME NEW g, NEW n \in Nat, Steps(g, n), Fillable(n), Separate(n)
  PROVE  \A j \in 1..n : HasBytes(g[n], fixups[j].at, Filling(fixups[j]))
<1> DEFINE InPlace(k) == \A j \in 1..k : HasBytes(g[k], fixups[j].at, Filling(fixups[j]))
           S == {k \in Nat : k <= n => InPlace(k)}
<1>1. 0 \in S
  OBVIOUS
<1>2. ASSUME NEW k \in Nat, k \in S PROVE k + 1 \in S
  <2> SUFFICES ASSUME k + 1 <= n PROVE InPlace(k + 1)
    OBVIOUS
  <2> DEFINE m == k + 1
             h == fixups[m]
  <2>1. m \in 1..n /\ m - 1 = k /\ InPlace(k) /\ \A j \in 1..m : j \in 1..n /\ (j = m \/ j \in 1..k)
    BY <1>2
  <2> HIDE DEF m
  <2>2. g[m] = Filled(g[k], h) /\ h.at \in Int /\ Filling(h) \in Bytes
    BY <2>1 DEF Steps, Fillable
  <2> SUFFICES ASSUME NEW j \in 1..m PROVE HasBytes(g[m], fixups[j].at, Filling(fixups[j]))
    BY DEF m
  <2>3. CASE fixups[j] = h
    <3> HIDE DEF h
    <3> QED BY <2>2, <2>3, FilledReads
  <2>4. CASE fixups[j] # h
    <3> DEFINE b == fixups[j].at
               t == Filling(fixups[j])
    <3>1. j \in 1..k /\ j \in 1..n
      BY <2>1, <2>4
    <3>2. b \in Int /\ t \in Bytes /\ HasBytes(g[k], b, t) /\ Clear(h, b, t)
      BY <2>1, <2>4, <3>1 DEF Fillable, Separate
    <3> HIDE DEF b, t, h
    <3>3. HasBytes(g[m], b, t)
      BY <2>2, <3>2, FilledKeeps
    <3> QED BY <3>3 DEF b, t
  <2> QED BY <2>3, <2>4
<1>3. \A k \in Nat : k \in S
  <2> HIDE DEF S
  <2> QED BY <1>1, <1>2, Induction
<1>4. n \in S /\ n <= n
  BY <1>3
<1> QED BY <1>4

-----------------------------------------------------------------------------
LEMMA HolesFillable ==
  ASSUME Types, NEW n \in 0..Len(fixups), \A k \in 1..n : Fits(fixups[k])
  PROVE  /\ Fillable(n)
         /\ \A k \in 1..n : Len(Filling(fixups[k])) = HoleOf(fixups[k].kind)
<1> SUFFICES ASSUME NEW k \in 1..n
    PROVE  /\ fixups[k].at \in Int /\ Filling(fixups[k]) \in Bytes
           /\ Len(Filling(fixups[k])) = HoleOf(fixups[k].kind)
  BY DEF Fillable
<1>1. k \in 1..Len(fixups) /\ Len(fixups) \in Nat
  BY LenProperties DEF Types
<1>2. fixups[k] \in HoleSet
  BY <1>1, ElementOfSeq DEF Types
<1>3. fixups[k].at \in Int /\ fixups[k].label \in DOMAIN labels
  BY <1>2 DEF HoleSet, Fits
<1> QED BY <1>2, <1>3, FillingBytes DEF Types

(* Each hole belongs to a reference. *)
LEMMA HoleOwner ==
  ASSUME Types, Holed, NEW k \in 1..Len(fixups)
  PROVE  \E p \in Put : Refers(p) /\ fixups[k] = HoleFor(p)
<1>1. k \in DOMAIN fixups
  BY LenProperties DEF Types
<1>2. fixups[k] \in Range(fixups)
  BY <1>1 DEF Range
<1> QED BY <1>2 DEF Holed

LEMMA PutTypes ==
  ASSUME Types, NEW p \in Put
  PROVE  p \in Placings /\ p.at \in Nat /\ p.i \in Requests
<1>1. DOMAIN placed = 1..Len(placed)
  BY LenProperties DEF Types
<1>2. PICK k \in 1..Len(placed) : p = placed[k]
  BY <1>1 DEF Put, Range
<1>3. p \in Placings
  BY <1>2, ElementOfSeq DEF Types
<1> QED BY <1>3 DEF Placings

LEMMA RawRef ==
  ASSUME NEW p, Refers(p)
  PROVE  /\ Raw(p.i) = RefBytes(p.i.op)
         /\ Len(Raw(p.i)) = 1 + HoleOf(Kind(p.i.op)) /\ Raw(p.i)[1] = Opcode(p.i.op)
  BY RefBytesAre DEF Raw, Refers

(* A hole is clear of every instruction that is not its own, and of its    *)
(* own opcode.                                                             *)
LEMMA HoleClear ==
  ASSUME Types, LaidOut(Put, buf, pos), NEW p \in Put, Refers(p),
         Len(Filling(HoleFor(p))) = HoleOf(HoleFor(p).kind), NEW q \in Put
  PROVE  /\ p # q => Clear(HoleFor(p), q.at, Raw(q.i))
         /\ p # q /\ Refers(q) /\ Len(Filling(HoleFor(q))) = HoleOf(HoleFor(q).kind)
              => Clear(HoleFor(p), HoleFor(q).at, Filling(HoleFor(q)))
         /\ Refers(q) => Clear(HoleFor(p), q.at, <<Opcode(q.i.op)>>)
<1> DEFINE m == HoleOf(Kind(p.i.op))
           n == HoleOf(Kind(q.i.op))
           a == p.at
           b == q.at
           len == Len(Raw(q.i))
<1>1. /\ a \in Nat /\ b \in Nat /\ m \in {1, 2} /\ n \in {1, 2} /\ len \in Nat
      /\ HoleFor(p).at = a + 1 /\ HoleFor(q).at = b + 1
      /\ Len(Filling(HoleFor(p))) = m /\ Len(Raw(p.i)) = 1 + m
      /\ Refers(q) => len = 1 + n
  BY PutTypes, HoleSize, HoleFields, RawRef, RawBytes
<1>2. p # q => a + (1 + m) <= b \/ b + len <= a
  BY <1>1 DEF LaidOut, Apart
<1>3. Len(<<Opcode(q.i.op)>>) = 1
  OBVIOUS
<1>4. p # q => Clear(HoleFor(p), q.at, Raw(q.i))
  BY <1>1, <1>2 DEF Clear
<1>5. ASSUME p # q, Refers(q), Len(Filling(HoleFor(q))) = HoleOf(HoleFor(q).kind)
      PROVE  Clear(HoleFor(p), HoleFor(q).at, Filling(HoleFor(q)))
  <2>1. Len(Filling(HoleFor(q))) = n
    BY <1>5, HoleFields
  <2> QED BY <1>1, <1>2, <1>5, <2>1 DEF Clear
<1>6. ASSUME Refers(q) PROVE Clear(HoleFor(p), q.at, <<Opcode(q.i.op)>>)
  <2>1. CASE p = q
    BY <1>1, <1>3, <2>1 DEF Clear
  <2>2. CASE p # q
    <3> HIDE DEF a, b, m, n, len
    <3>1. b + 1 <= a + 1 \/ (a + 1) + m <= b
      BY <1>1, <1>2, <1>6, <2>2
    <3> QED BY <1>1, <1>3, <3>1 DEF Clear, b
  <2> QED BY <2>1, <2>2
<1> QED BY <1>4, <1>5, <1>6

(* When resolve fills every hole, each instruction is read as it is meant. *)
LEMMA ResolveReads ==
  ASSUME Types, Laid, Holed, NEW n \in Nat, n = Len(fixups), \A k \in 1..n : Fits(fixups[k]),
         ~over
  PROVE  \A p \in Put : DecodedAt(Patched(n), p.at) = Meant(p.i)
<1> USE DEF Laid
<1>1. n \in 0..Len(fixups)
  OBVIOUS
<1>2. PICK g : Steps(g, n) /\ Patched(n) = g[n]
  BY <1>1, PatchSteps
<1>3. /\ Fillable(n)
      /\ \A k \in 1..n : Len(Filling(fixups[k])) = HoleOf(fixups[k].kind)
  BY <1>1, HolesFillable
<1>4. ASSUME NEW k \in 1..n
      PROVE  \E p \in Put : Refers(p) /\ fixups[k] = HoleFor(p)
                            /\ Len(Filling(HoleFor(p))) = HoleOf(HoleFor(p).kind)
  BY <1>3, HoleOwner
<1>5. Separate(n)
  <2> SUFFICES ASSUME NEW j \in 1..n, NEW k \in 1..n, fixups[j] # fixups[k]
      PROVE Clear(fixups[k], fixups[j].at, Filling(fixups[j]))
    BY DEF Separate
  <2>1. PICK q \in Put : Refers(q) /\ fixups[j] = HoleFor(q)
                         /\ Len(Filling(HoleFor(q))) = HoleOf(HoleFor(q).kind)
    BY <1>4
  <2>2. PICK p \in Put : Refers(p) /\ fixups[k] = HoleFor(p)
                         /\ Len(Filling(HoleFor(p))) = HoleOf(HoleFor(p).kind)
    BY <1>4
  <2>3. p # q
    BY <2>1, <2>2
  <2>4. Clear(HoleFor(p), HoleFor(q).at, Filling(HoleFor(q)))
    BY <2>1, <2>2, <2>3, HoleClear
  <2> QED BY <2>1, <2>2, <2>4
<1> SUFFICES ASSUME NEW p \in Put PROVE DecodedAt(g[n], p.at) = Meant(p.i)
  BY <1>2
<1>6. /\ p \in Placings /\ p.at \in Nat /\ p.i \in Requests /\ HasBytes(buf, p.at, Raw(p.i))
      /\ Raw(p.i) \in Bytes
  BY PutTypes, RawBytes DEF LaidOut
<1>7. CASE ~Refers(p)
  <2>1. p.i \in DataIns /\ Raw(p.i) = Encoded(p.i)
    BY <1>6, <1>7 DEF Refers, Requests, Raw
  <2>2. ASSUME NEW k \in 1..n PROVE Clear(fixups[k], p.at, Raw(p.i))
    <3>1. PICK q \in Put : Refers(q) /\ fixups[k] = HoleFor(q)
                           /\ Len(Filling(HoleFor(q))) = HoleOf(HoleFor(q).kind)
      BY <1>4
    <3>2. q # p
      BY <1>7, <3>1
    <3>3. Clear(HoleFor(q), p.at, Raw(p.i))
      BY <3>1, <3>2, HoleClear
    <3> QED BY <3>1, <3>3
  <2> DEFINE b == p.at
             t == Raw(p.i)
  <2>3. b \in Int /\ t \in Bytes /\ HasBytes(buf, b, t) /\ \A k \in 1..n : Clear(fixups[k], b, t)
    BY <1>6, <2>2
  <2> HIDE DEF b, t
  <2>4. HasBytes(g[n], b, t)
    BY <1>2, <1>3, <2>3, StepsKeep
  <2>5. Holds(g[n], b, Encoded(p.i))
    BY <2>1, <2>4, WithinHolds DEF t
  <2> QED BY <2>1, <2>3, <2>5, ReadsData DEF b
<1>8. CASE Refers(p)
  <2> DEFINE h == HoleFor(p)
             op == p.i.op
             b == p.at
             t == <<Opcode(op)>>
  <2>1. PICK j \in 1..n : fixups[j] = h
    <3>1. h \in Range(fixups)
      BY <1>8 DEF Holed
    <3>2. DOMAIN fixups = 1..n
      BY LenProperties DEF Types
    <3> QED BY <3>1, <3>2 DEF Range
  <2>2. HasBytes(g[n], h.at, Filling(h))
    <3> HIDE DEF h
    <3> QED BY <1>2, <1>3, <1>5, <2>1, StepsFill
  <2>3. Fits(h)
    BY <2>1
  <2>4. h.at = b + 1
    BY HoleFields
  <2>5. HasBytes(buf, b, t)
    <3>1. Raw(p.i)[1] = Opcode(op) /\ Len(Raw(p.i)) \in Nat /\ 1 \in 1..Len(Raw(p.i))
      BY <1>8, RawRef, HoleSize
    <3> DEFINE s == Raw(p.i)
    <3>2. s[1] = Opcode(op) /\ 1 \in 1..Len(s) /\ HasBytes(buf, b, s)
      BY <1>6, <3>1
    <3> HIDE DEF s
    <3>3. b + 1 - 1 \in DOMAIN buf /\ buf[b + 1 - 1] = Opcode(op)
      BY <3>2 DEF HasBytes
    <3> DEFINE x == Opcode(op)
    <3>4. buf[b + 1 - 1] = x
      BY <3>3
    <3> HIDE DEF x
    <3>5. \A k \in 1..Len(<<x>>) : k = 1 /\ <<x>>[k] = x
      OBVIOUS
    <3> QED BY <3>3, <3>4, <3>5 DEF HasBytes, x
  <2>6. ASSUME NEW k \in 1..n PROVE Clear(fixups[k], b, t)
    <3>1. PICK q \in Put : Refers(q) /\ fixups[k] = HoleFor(q)
                           /\ Len(Filling(HoleFor(q))) = HoleOf(HoleFor(q).kind)
      BY <1>4
    <3>2. Clear(HoleFor(q), p.at, <<Opcode(p.i.op)>>)
      BY <1>8, <3>1, HoleClear
    <3> QED BY <3>1, <3>2
  <2>7. t \in Bytes /\ b \in Int
    <3>1. Opcode(op) \in Int
      BY DEF Opcode
    <3> QED BY <1>6, <3>1, SingleByte
  <2>8. HasBytes(g[n], b, t)
    <3> HIDE DEF b, t
    <3> QED BY <1>2, <1>3, <2>5, <2>6, <2>7, StepsKeep
  <2>9. g[n][b] = Opcode(op)
    <3> DEFINE x == Opcode(op)
    <3>1. Holds(g[n], b, <<x>>)
      BY <2>8, WithinHolds
    <3> HIDE DEF x
    <3>2. g[n][b] = x
      BY <2>7, <3>1, HoldsOne
    <3> QED BY <3>2 DEF x
  <2>10. Holds(g[n], b + 1, Filling(h))
    BY <2>2, <2>4, WithinHolds
  <2> DEFINE e == g[n]
  <2>11. e[p.at] = Opcode(p.i.op) /\ Holds(e, p.at + 1, Filling(HoleFor(p)))
    BY <2>9, <2>10
  <2> HIDE DEF h, b, t, op, e
  <2>12. DecodedAt(e, p.at) = Meant(p.i)
    BY <1>6, <1>8, <2>3, <2>11, ReadsRef DEF Types, h
  <2> QED BY <2>12 DEF e
<1> QED BY <1>7, <1>8

(* When all labels are there, only a short jump that the program wrote     *)
(* does not fit.                                                           *)
LEMMA ResolveRefuses ==
  ASSUME Types, Holed, Skips, NEW h \in Range(fixups), ~Fits(h),
         \A l \in Range(fixups) : l.label \in DOMAIN labels
  PROVE  \E p \in Put : TooFar(p)
<1>1. PICK p \in Put : Refers(p) /\ h = HoleFor(p)
  BY DEF Holed
<1>2. /\ h.kind = Kind(p.i.op) /\ h.label = p.i.label
      /\ h.end = ORIGIN + p.at + 1 + HoleOf(Kind(p.i.op))
  BY <1>1, HoleFields
<1>3. /\ h.label \in DOMAIN labels /\ h.kind = "rel8"
      /\ labels[h.label] - h.end \notin -128..127
  BY DEF Fits
<1>4. p.at \in Nat /\ ORIGIN \in Nat
  BY PutTypes, AssemblerAssumptions
<1>5. p.i.op \in Short
  BY <1>2, <1>3 DEF Kind
<1>6. h.end = ORIGIN + p.at + 2
  BY <1>2, <1>3, <1>4 DEF HoleOf
<1>7. p.i.label \in LABELS
  <2> SUFFICES ASSUME p.i.label \notin LABELS PROVE FALSE
    OBVIOUS
  <2>1. labels[p.i.label] = ORIGIN + p.at + 5
    BY <1>1 DEF Skips
  <2>2. labels[h.label] - h.end = 3
    BY <1>2, <1>4, <1>6, <2>1
  <2> QED BY <1>3, <2>2
<1> QED BY <1>2, <1>3, <1>5, <1>6, <1>7 DEF TooFar

LEMMA ResolveDisassembles ==
  ASSUME Types, Laid, Holed, Skips, Resolve
  PROVE  Disassembles' /\ status' # "open" /\ status' \in {"open", "done", "error"}
<1>1. PICK n \in 0..Len(fixups) :
        /\ \A k \in 1..n : Fits(fixups[k])
        /\ n < Len(fixups) => ~Fits(fixups[n + 1])
        /\ status' = IF n = Len(fixups) THEN "done" ELSE "error"
        /\ buf' = Patched(n)
  BY DEF Resolve
<1>2. /\ labels' = labels /\ fixups' = fixups /\ over' = over /\ placed' = placed
  BY DEF Resolve
<1>3. n \in Nat /\ Len(fixups) \in Nat /\ DOMAIN fixups = 1..Len(fixups) /\ n <= Len(fixups)
  BY LenProperties DEF Types
<1>4. ASSUME status' = "done", ~over', NEW k \in DOMAIN placed'
      PROVE  DecodedAt(buf', placed[k].at) = Meant(placed[k].i)
  <2>1. n = Len(fixups) /\ ~over /\ k \in DOMAIN placed
    BY <1>1, <1>2, <1>4
  <2>2. placed[k] \in Put
    BY <2>1 DEF Put, Range
  <2> QED BY <1>1, <1>3, <2>1, <2>2, ResolveReads
<1>5. ASSUME status' = "error", \A h \in Range(fixups') : h.label \in DOMAIN labels'
      PROVE  \E k \in DOMAIN placed : TooFar(placed[k])
  <2> DEFINE m == n + 1
  <2>1. m \in 1..Len(fixups) /\ ~Fits(fixups[m])
    <3>1. n # Len(fixups)
      BY <1>1, <1>5
    <3>a. n < Len(fixups)
      <4> DEFINE top == Len(fixups)
      <4>1. n \in Nat /\ top \in Nat /\ n <= top /\ n # top
        BY <1>3, <3>1
      <4> HIDE DEF top
      <4>2. n < top
        BY <4>1
      <4> QED BY <4>2 DEF top
    <3>2. n < Len(fixups) /\ ~Fits(fixups[n + 1])
      BY <1>1, <3>a
    <3>3. m \in 1..Len(fixups)
      BY <1>3, <3>2
    <3> QED BY <3>2, <3>3
  <2> HIDE DEF m
  <2>2. fixups[m] \in Range(fixups)
    BY <1>3, <2>1 DEF Range
  <2>3. \E p \in Put : TooFar(p)
    BY <1>2, <1>5, <2>1, <2>2, ResolveRefuses
  <2> QED BY <2>3 DEF Put, Range
<1>6. ASSUME NEW i PROVE Meant(i)' = Meant(i)
  BY <1>2 DEF Meant
<1>7. ASSUME NEW p PROVE TooFar(p)' = TooFar(p)
  BY <1>2 DEF TooFar
<1> QED BY <1>1, <1>2, <1>4, <1>5, <1>6, <1>7 DEF Disassembles

-----------------------------------------------------------------------------
(* AsmInv is inductive, one lemma for each call.                           *)

Open == Types /\ Laid /\ Holed /\ Skips

LEMMA PlacingType ==
  ASSUME NEW a \in Nat, NEW i \in Requests
  PROVE  /\ Placing(a, i) \in Placings /\ Placing(a, i).at = a /\ Placing(a, i).i = i
         /\ HoleFor(Placing(a, i)) = Hole(a, i.op, i.label)
  BY DEF Placing, Placings, HoleFor

LEMMA ReferType ==
  ASSUME NEW op \in RefOps, NEW l \in AllLabels
  PROVE  /\ Refer(op, l) \in Requests /\ Refer(op, l).op = op /\ Refer(op, l).label = l
         /\ Raw(Refer(op, l)) = RefBytes(op)
  BY DEF Refer, Requests, Raw

LEMMA HoleType ==
  ASSUME NEW a \in Nat, NEW op \in RefOps, NEW l \in AllLabels
  PROVE  Hole(a, op, l) \in HoleSet
<1>1. ORIGIN \in Nat /\ HoleOf(Kind(op)) \in {1, 2}
  BY AssemblerAssumptions, HoleSize
<1>2. Kind(op) \in {"rel8", "rel16", "abs16"}
  BY DEF Kind
<1> DEFINE n == HoleOf(Kind(op))
           k == Kind(op)
<1>3. a + 1 \in Nat /\ ORIGIN + a + 1 + n \in Int
  BY <1>1
<1> HIDE DEF n, k
<1>4. [at |-> a + 1, kind |-> k, label |-> l, end |-> ORIGIN + a + 1 + n] \in HoleSet
  BY <1>2, <1>3 DEF HoleSet, k
<1> QED BY <1>4 DEF Hole, n, k

LEMMA PutSubset == ASSUME Types PROVE Put \in SUBSET Placings
  BY PutTypes

LEMMA AsmStart == AsmInit => AsmInv
<1> SUFFICES ASSUME AsmInit PROVE AsmInv
  OBVIOUS
<1>1. /\ buf = <<>> /\ pos = 0 /\ labels = <<>> /\ fixups = <<>>
      /\ status = "open" /\ placed = <<>>
  BY DEF AsmInit
<1> DEFINE e == <<>>
<1>2. /\ e \in [{} -> Int] /\ DOMAIN e = {} /\ e \in Seq(Placings) /\ e \in Seq(HoleSet)
      /\ Range(e) = {}
  BY DEF Range
<1>3. {} \in SUBSET Int
  OBVIOUS
<1> HIDE DEF e
<1>4. e \in Images
  BY <1>2, <1>3 DEF Images
<1>5. buf = e /\ labels = e /\ fixups = e /\ placed = e
  BY <1>1 DEF e
<1>6. Types
  BY <1>1, <1>2, <1>4, <1>5 DEF Types
<1>7. Put = {} /\ Range(fixups) = {}
  BY <1>2, <1>5 DEF Put
<1> QED BY <1>1, <1>6, <1>7 DEF AsmInv, Laid, LaidOut, Holed, Skips, Disassembles

LEMMA OpenStays ==
  Open' /\ status' = "open" => AsmInv'
  BY DEF Open, AsmInv, Disassembles

LEMMA EmitStep ==
  ASSUME Open, NEW i \in DataIns, Emit(i)
  PROVE  Open'
<1> DEFINE s == Raw(i)
           r == Placing(pos, i)
<1>1. /\ i \in Requests /\ s = Encoded(i) /\ i.op \notin RefOps /\ pos \in Nat
  BY DataOp DEF Raw, Requests, Open, Types
<1>2. s \in Bytes /\ Len(s) \in Nat
  BY <1>1, RawBytes
<1>3. r \in Placings /\ r.at = pos /\ r.i = i
  BY <1>1, PlacingType
<1>4. /\ buf' = WriteAt(buf, pos, s) /\ pos' = pos + Len(s) /\ placed' = Append(placed, r)
      /\ labels' = labels /\ fixups' = fixups /\ over' = over
  BY <1>1 DEF Emit, EmitAll, Placing
<1> HIDE DEF s, r
<1>5. placed' \in Seq(Placings) /\ Put' = Put \cup {r}
  BY <1>3, <1>4, AppendRange DEF Open, Types, Put
<1>6. Types'
  <2>1. buf' \in Images
    BY <1>1, <1>2, <1>4, WriteImage DEF Open, Types
  <2>2. pos' \in Nat
    BY <1>1, <1>2, <1>4
  <2> QED BY <1>4, <1>5, <2>1, <2>2 DEF Open, Types
<1>7. Laid'
  <2> SUFFICES ASSUME ~over' PROVE LaidOut(Put, buf, pos)'
    BY DEF Laid
  <2>1. LaidOut(Put, buf, pos) /\ Put \in SUBSET Placings
    BY <1>4, PutSubset DEF Open, Laid
  <2>2. LaidOut(Put \cup {r}, WriteAt(buf, pos, s), pos + Len(s))
    BY <1>1, <2>1, PutBehind DEF r, s
  <2> QED BY <1>4, <1>5, <2>2 DEF LaidOut
<1>8. ~Refers(r)
  BY <1>1, <1>3 DEF Refers
<1>9. Holed'
  BY <1>4, <1>5, <1>8 DEF Open, Holed
<1>10. Skips'
  BY <1>4, <1>5, <1>8 DEF Open, Skips
<1> QED BY <1>6, <1>7, <1>9, <1>10 DEF Open

LEMMA RefStep ==
  ASSUME Open, NEW op \in RefOps, NEW l \in LABELS, EmitRef(op, l)
  PROVE  Open'
<1> DEFINE i == Refer(op, l)
           s == Raw(i)
           r == Placing(pos, i)
           h == Hole(pos, op, l)
<1>1. l \in AllLabels /\ pos \in Nat
  BY DEF AllLabels, Open, Types
<1>2. i \in Requests /\ i.op = op /\ i.label = l /\ s = RefBytes(op)
  BY <1>1, ReferType
<1>3. s \in Bytes /\ Len(s) \in Nat
  BY <1>2, RawBytes
<1>4. r \in Placings /\ r.at = pos /\ r.i = i /\ HoleFor(r) = h /\ h \in HoleSet
  <2> HIDE DEF i
  <2>1. r \in Placings /\ r.at = pos /\ r.i = i /\ HoleFor(r) = Hole(pos, i.op, i.label)
    BY <1>1, <1>2, PlacingType
  <2> QED BY <1>1, <1>2, <2>1, HoleType
<1>5. /\ buf' = WriteAt(buf, pos, s) /\ pos' = pos + Len(s) /\ placed' = Append(placed, r)
      /\ labels' = labels /\ fixups' = Append(fixups, h) /\ over' = over
  BY <1>2 DEF EmitRef, EmitAll, Placing
<1> HIDE DEF i, s, r, h
<1>6. placed' \in Seq(Placings) /\ Put' = Put \cup {r}
  BY <1>4, <1>5, AppendRange DEF Open, Types, Put
<1>7. fixups' \in Seq(HoleSet) /\ Range(fixups') = Range(fixups) \cup {h}
  BY <1>4, <1>5, AppendRange DEF Open, Types
<1>8. Types'
  <2>1. buf' \in Images
    BY <1>1, <1>3, <1>5, WriteImage DEF Open, Types
  <2>2. pos' \in Nat
    BY <1>1, <1>3, <1>5
  <2> QED BY <1>5, <1>6, <1>7, <2>1, <2>2 DEF Open, Types
<1>9. Laid'
  <2> SUFFICES ASSUME ~over' PROVE LaidOut(Put, buf, pos)'
    BY DEF Laid
  <2>1. LaidOut(Put, buf, pos) /\ Put \in SUBSET Placings
    BY <1>5, PutSubset DEF Open, Laid
  <2>2. LaidOut(Put \cup {r}, WriteAt(buf, pos, s), pos + Len(s))
    BY <1>1, <1>2, <2>1, PutBehind DEF r, s
  <2> QED BY <1>5, <1>6, <2>2 DEF LaidOut
<1>10. Refers(r)
  BY <1>2, <1>4 DEF Refers
<1>11. Holed'
  BY <1>4, <1>5, <1>6, <1>7, <1>10 DEF Open, Holed
<1>12. Skips'
  BY <1>2, <1>4, <1>5, <1>6, <1>10 DEF Open, Skips
<1> QED BY <1>8, <1>9, <1>11, <1>12 DEF Open

LEMMA FarStep ==
  ASSUME Open, NEW cc \in {"jc", "jnc"}, NEW l \in LABELS, EmitFar(cc, l)
  PROVE  Open'
<1> DEFINE op == Opposite(cc)
           skip == <<"over", Here>>
           i == Refer(op, skip)
           j == Refer("jmp", l)
           s == Raw(i)
           t == Raw(j)
           p == Placing(pos, i)
           q == Placing(pos + 2, j)
           g == Hole(pos, op, skip)
           h == Hole(pos + 2, "jmp", l)
<1>1. /\ pos \in Nat /\ pos + 2 \in Nat /\ op \in {"jc", "jnc"} /\ op \in RefOps /\ "jmp" \in RefOps
      /\ l \in AllLabels /\ skip \in AllLabels /\ skip \notin LABELS /\ Here \in Int
  <2>1. pos \in Nat /\ ORIGIN \in Nat
    BY AssemblerAssumptions DEF Open, Types
  <2>2. Here \in Int
    BY <2>1 DEF Here
  <2>3. skip[1] = "over"
    OBVIOUS
  <2>4. skip \notin LABELS
    <3> HIDE DEF skip
    <3> QED BY <2>3, AssemblerAssumptions
  <2>5. skip \in AllLabels
    BY <2>2 DEF AllLabels
  <2> QED BY <2>1, <2>2, <2>4, <2>5 DEF Opposite, RefOps, AllLabels
<1>2. /\ i \in Requests /\ i.op = op /\ i.label = skip /\ s = RefBytes(op)
      /\ j \in Requests /\ j.op = "jmp" /\ j.label = l /\ t = RefBytes("jmp")
  <2> HIDE DEF op, skip
  <2> QED BY <1>1, ReferType
<1>3. s \in Bytes /\ Len(s) = 2 /\ t \in Bytes /\ Len(t) = 3
  <2>1. HoleOf(Kind(op)) = 1 /\ HoleOf(Kind("jmp")) = 2
    BY <1>1 DEF HoleOf, Kind, Short
  <2>2. ASSUME NEW o PROVE RefBytes(o) \in Bytes /\ Len(RefBytes(o)) = 1 + HoleOf(Kind(o))
    BY RefBytesAre
  <2> HIDE DEF op
  <2>3. Len(RefBytes(op)) = 2 /\ RefBytes(op) \in Bytes
    <3>1. Len(RefBytes(op)) = 1 + HoleOf(Kind(op)) /\ RefBytes(op) \in Bytes
      BY <2>2
    <3> QED BY <2>1, <3>1
  <2>4. Len(RefBytes("jmp")) = 3 /\ RefBytes("jmp") \in Bytes
    <3>1. ASSUME NEW o, HoleOf(Kind(o)) = 2 PROVE Len(RefBytes(o)) = 3 /\ RefBytes(o) \in Bytes
      <4> DEFINE n == HoleOf(Kind(o))
                 b == RefBytes(o)
      <4>1. b \in Bytes /\ Len(b) = 1 + n /\ n = 2
        BY <2>2, <3>1
      <4> HIDE DEF n, b
      <4>2. 1 + n = 3
        BY <4>1
      <4> QED BY <4>1, <4>2 DEF b
    <3> QED BY <2>1, <3>1, Zenon
  <2> QED BY <1>2, <2>3, <2>4
<1> HIDE DEF i, j, op, skip
<1>4. /\ p \in Placings /\ p.at = pos /\ p.i = i /\ HoleFor(p) = g /\ g \in HoleSet
      /\ q \in Placings /\ q.at = pos + 2 /\ q.i = j /\ HoleFor(q) = h /\ h \in HoleSet
  <2>1. /\ p \in Placings /\ p.at = pos /\ p.i = i /\ HoleFor(p) = Hole(pos, i.op, i.label)
    BY <1>1, <1>2, PlacingType
  <2>2. g \in HoleSet
    BY <1>1, HoleType
  <2> DEFINE a == pos + 2
  <2>3. a \in Nat
    BY <1>1
  <2> HIDE DEF a
  <2>4. LET r == Placing(a, j)
        IN r \in Placings /\ r.at = a /\ r.i = j /\ HoleFor(r) = Hole(a, j.op, j.label)
    BY <2>3, <1>2, PlacingType
  <2>5. Hole(a, "jmp", l) \in HoleSet
    BY <2>3, <1>1, HoleType
  <2> QED BY <1>2, <2>1, <2>2, <2>4, <2>5 DEF a
<1>5. /\ buf' = WriteAt(buf, pos, s \o t) /\ pos' = pos + Len(s \o t)
      /\ placed' = placed \o <<p, q>> /\ fixups' = fixups \o <<g, h>>
      /\ skip \notin DOMAIN labels
      /\ labels' = [m \in DOMAIN labels \cup {skip} |->
                      IF m = skip THEN Here + 5 ELSE labels[m]]
      /\ over' = over
  BY <1>2 DEF EmitFar, EmitAll, Placing, i, j, op, skip, Labelled
<1> HIDE DEF s, t, p, q, g, h
<1>6. Len(s \o t) = 5 /\ s \o t \in Bytes
  <2>1. s \in Seq(Int) /\ t \in Seq(Int)
    BY <1>3 DEF Bytes
  <2>2. s \o t \in Seq(Int) /\ Len(s \o t) = Len(s) + Len(t)
    BY <2>1, ConcatProperties
  <2> QED BY <1>3, <2>2 DEF Bytes
<1>7. placed' \in Seq(Placings) /\ Put' = (Put \cup {p}) \cup {q}
  <2>1. <<p, q>> \in Seq(Placings) /\ Range(<<p, q>>) = {p, q}
    BY <1>4, PairRange
  <2> DEFINE two == <<p, q>>
  <2>2. placed \in Seq(Placings) /\ two \in Seq(Placings) /\ placed' = placed \o two
    BY <1>5, <2>1 DEF Open, Types
  <2> HIDE DEF two
  <2>3. placed' \in Seq(Placings) /\ Range(placed') = Range(placed) \cup Range(two)
    BY <2>2, BothRange
  <2> QED BY <2>1, <2>3 DEF Put, two
<1>8. fixups' \in Seq(HoleSet) /\ Range(fixups') = (Range(fixups) \cup {g}) \cup {h}
  <2>1. <<g, h>> \in Seq(HoleSet) /\ Range(<<g, h>>) = {g, h}
    BY <1>4, PairRange
  <2> DEFINE two == <<g, h>>
  <2>2. fixups \in Seq(HoleSet) /\ two \in Seq(HoleSet) /\ fixups' = fixups \o two
    BY <1>5, <2>1 DEF Open, Types
  <2> HIDE DEF two
  <2>3. fixups' \in Seq(HoleSet) /\ Range(fixups') = Range(fixups) \cup Range(two)
    BY <2>2, BothRange
  <2> QED BY <2>1, <2>3 DEF two
<1>9. labels' \in [DOMAIN labels' -> Int]
  <2>1. labels \in [DOMAIN labels -> Int]
    BY DEF Open, Types
  <2>2. Here + 5 \in Int
    BY <1>1
  <2> QED BY <1>5, <2>1, <2>2
<1>10. Types'
  <2> DEFINE u == s \o t
  <2>1. buf \in Images /\ u \in Bytes /\ buf' = WriteAt(buf, pos, u) /\ pos \in Int
    BY <1>1, <1>5, <1>6 DEF Open, Types
  <2> HIDE DEF u
  <2>2. buf' \in Images
    BY <2>1, WriteImage
  <2>3. pos' \in Nat
    BY <1>1, <1>5, <1>6
  <2> QED BY <1>7, <1>8, <1>9, <2>2, <2>3 DEF Types
<1>11. Laid'
  <2> SUFFICES ASSUME ~over' PROVE LaidOut(Put, buf, pos)'
    BY DEF Laid
  <2>1. LaidOut(Put, buf, pos) /\ Put \in SUBSET Placings
    BY <1>5, PutSubset DEF Open, Laid
  <2> DEFINE P == Put \cup {p}
             f == WriteAt(buf, pos, s)
             a == pos + Len(s)
  <2>2. LaidOut(P, f, a) /\ P \in SUBSET Placings
    BY <1>1, <1>2, <1>4, <2>1, PutBehind DEF p, s
  <2>3. a \in Nat /\ a = pos + 2
    BY <1>1, <1>3
  <2>4. buf' = WriteAt(f, a, t)
    <3>1. buf \in Images /\ pos \in Int
      BY <1>1 DEF Open, Types
    <3>2. WriteAt(buf, pos, s \o t) = WriteAt(WriteAt(buf, pos, s), pos + Len(s), t)
      BY <1>3, <3>1, WriteBoth
    <3> QED BY <1>5, <3>2
  <2>5. pos' = a + Len(t)
    BY <1>1, <1>3, <1>5, <1>6, <2>3
  <2>6. q = Placing(a, j)
    BY <2>3 DEF q
  <2> HIDE DEF P, f, a
  <2>7. LaidOut(P \cup {q}, WriteAt(f, a, t), a + Len(t))
    BY <1>2, <2>2, <2>3, <2>6, PutBehind DEF t
  <2>8. Put' = P \cup {q}
    BY <1>7 DEF P
  <2> QED BY <2>4, <2>5, <2>7, <2>8 DEF LaidOut
<1>12. Refers(p) /\ Refers(q)
  BY <1>1, <1>2, <1>4 DEF Refers
<1>13. Holed'
  BY <1>4, <1>7, <1>8, <1>12 DEF Open, Holed
<1>14. Skips'
  <2> SUFFICES ASSUME NEW r \in Put', Refers(r), r.i.label \notin LABELS
      PROVE  /\ r.i.label \in DOMAIN labels' /\ labels'[r.i.label] = ORIGIN + r.at + 5
             /\ r.i.op \in {"jc", "jnc"}
    BY DEF Skips, Refers
  <2>1. CASE r \in Put
    BY <1>5, <2>1 DEF Open, Skips
  <2>2. CASE r = p
    BY <1>1, <1>2, <1>4, <1>5, <2>2, AssemblerAssumptions DEF Here
  <2>3. CASE r = q
    BY <1>2, <1>4, <2>3
  <2> QED BY <1>7, <2>1, <2>2, <2>3
<1> QED BY <1>10, <1>11, <1>13, <1>14 DEF Open

LEMMA OtherStep ==
  ASSUME Open, \/ \E l \in LABELS : Label(l)
               \/ \E n \in GAPS : Gap(n) \/ Org(n)
  PROVE  Open'
<1>1. UNCHANGED <<buf, placed, fixups>> /\ Put' = Put
  BY DEF Label, Gap, Org, Put
<1>2. pos' \in Nat /\ (~over' => ~over /\ pos <= pos')
  <2>1. pos \in Nat
    BY DEF Open, Types
  <2>2. CASE \E l \in LABELS : Label(l)
    BY <2>1, <2>2 DEF Label
  <2>3. ASSUME NEW n \in GAPS, Gap(n) PROVE pos' \in Nat /\ (~over' => ~over /\ pos <= pos')
    BY <2>1, <2>3, AssemblerAssumptions DEF Gap
  <2>4. ASSUME NEW n \in GAPS, Org(n) PROVE pos' \in Nat /\ (~over' => ~over /\ pos <= pos')
    <3>1. n \in Nat /\ pos' = n /\ over' = (over \/ n < pos)
      BY <2>4, AssemblerAssumptions DEF Org
    <3>2. ~over' => ~over /\ ~(n < pos)
      BY <3>1, Zenon
    <3>3. ~(n < pos) => pos <= n
      BY <2>1, <3>1
    <3> QED BY <3>1, <3>2, <3>3
  <2> QED BY <2>2, <2>3, <2>4
<1>3. /\ labels' \in [DOMAIN labels' -> Int]
      /\ \A m \in DOMAIN labels : m \in DOMAIN labels' /\ labels'[m] = labels[m]
  <2>1. labels \in [DOMAIN labels -> Int]
    BY DEF Open, Types
  <2>2. CASE \E l \in LABELS : Label(l)
    <3>1. PICK l \in LABELS : Labelled(l, Here)
      BY <2>2 DEF Label
    <3>2. Here \in Int
      BY AssemblerAssumptions DEF Here, Open, Types
    <3> QED BY <2>1, <3>1, <3>2 DEF Labelled
  <2>3. CASE labels' = labels
    BY <2>1, <2>3
  <2> QED BY <2>2, <2>3 DEF Gap, Org
<1>4. Types'
  BY <1>1, <1>2, <1>3 DEF Open, Types
<1>5. Laid'
  <2> SUFFICES ASSUME ~over' PROVE LaidOut(Put, buf, pos)'
    BY DEF Laid
  <2>1. LaidOut(Put, buf, pos) /\ pos \in Nat /\ pos <= pos' /\ pos' \in Nat
    BY <1>2 DEF Open, Laid, Types
  <2>2. ASSUME NEW p \in Put PROVE p.at + Len(Raw(p.i)) <= pos'
    <3>1. p.at + Len(Raw(p.i)) <= pos /\ p.at \in Nat /\ Len(Raw(p.i)) \in Nat
      BY <2>1, PutTypes, RawBytes DEF LaidOut, Open
    <3> QED BY <2>1, <3>1
  <2> QED BY <1>1, <2>1, <2>2 DEF LaidOut
<1>6. Holed'
  BY <1>1 DEF Open, Holed
<1>7. Skips'
  BY <1>1, <1>3 DEF Open, Skips
<1> QED BY <1>4, <1>5, <1>6, <1>7 DEF Open

LEMMA AsmStepKeeps == AsmInv /\ [AsmNext]_asmVars => AsmInv'
<1> SUFFICES ASSUME AsmInv, [AsmNext]_asmVars PROVE AsmInv'
  OBVIOUS
<1>1. CASE UNCHANGED asmVars
  <2>1. ASSUME NEW i PROVE Meant(i)' = Meant(i)
    BY <1>1 DEF Meant, asmVars
  <2>2. ASSUME NEW p PROVE TooFar(p)' = TooFar(p)
    BY <1>1 DEF TooFar, asmVars
  <2>3. Disassembles'
    BY <1>1, <2>1, <2>2 DEF asmVars, AsmInv, Disassembles
  <2>4. Put' = Put
    BY <1>1 DEF Put, asmVars
  <2>5. (status = "open" => Types /\ Laid /\ Holed /\ Skips)'
    BY <1>1, <2>4 DEF asmVars, AsmInv, Types, Laid, LaidOut, Holed, Skips
  <2> QED BY <1>1, <2>3, <2>5 DEF AsmInv, asmVars
<1>2. CASE AsmNext
  <2>1. status = "open" /\ (status' = "open" \/ Resolve)
    BY <1>2 DEF AsmNext, Emit, EmitRef, EmitFar, Label, Gap, Org, Resolve, Calling
  <2>2. Open
    BY <2>1 DEF AsmInv, Open
  <2>3. CASE Resolve
    BY <2>2, <2>3, ResolveDisassembles DEF Open, AsmInv
  <2>4. CASE ~Resolve
    <3>1. Open'
      BY <1>2, <2>2, <2>4, EmitStep, RefStep, FarStep, OtherStep DEF AsmNext
    <3> QED BY <2>1, <2>4, <3>1, OpenStays
  <2> QED BY <2>3, <2>4
<1> QED BY <1>1, <1>2

(* Whatever calls a program makes, in whatever order, the image that       *)
(* resolve leaves reads as the instructions asked for, and resolve refuses *)
(* a program with all its labels only for a short jump it wrote itself.    *)
THEOREM AssemblerDisassembles == AsmSpec => []Disassembles
<1>1. AsmInv => Disassembles
  BY DEF AsmInv
<1> QED BY AsmStart, AsmStepKeeps, <1>1, PTL DEF AsmSpec

-----------------------------------------------------------------------------
(* Cylinder, head and sector.                                              *)

(* What a quotient and a remainder are, for a divisor that is not known.   *)
LEMMA Division ==
  ASSUME NEW n \in Nat, NEW d \in Nat \ {0}
  PROVE  /\ n \div d \in Nat /\ n % d \in 0..d - 1
         /\ n = d * (n \div d) + (n % d)
PROOF
<1> d \in Int /\ d > 0 /\ n \in Int
  OBVIOUS
<1>1. n \div d \in Int /\ n \div d >= 0
  OBVIOUS
<1>2. n % d \in 0..d - 1
  OBVIOUS
<1>3. n = d * (n \div d) + (n % d)
  OBVIOUS
<1> QED BY <1>1, <1>2, <1>3

LEMMA QuotientBound ==
  ASSUME NEW n \in Nat, NEW d \in Nat \ {0}, NEW m \in Nat, n < m * d
  PROVE  n \div d < m
PROOF
<1>1. n \div d \in Nat /\ d * (n \div d) <= n
  BY Division
<1> DEFINE q == n \div d
<1> HIDE DEF q
<1>2. CASE q >= m
  <2>1. q \in Nat /\ d * q < m * d
    BY <1>1 DEF q
  <2>2. d * q >= d * m /\ d * m = m * d
    BY <1>2, <2>1
  <2> QED BY <2>1, <2>2
<1> QED BY <1>1, <1>2 DEF q

(* INT 13h reads the sector the boot sector means, for every geometry and  *)
(* every sector of the first CBYTE cylinders.                              *)
THEOREM GeometryRoundTrip ==
  ASSUME NEW spt \in 1..63, NEW heads \in Nat \ {0},
         NEW lba \in Nat, lba < CBYTE * heads * spt, lba < 65536
  PROVE  LET geo == [spt |-> spt, heads |-> heads]
         IN LbaOf(ChsOf(lba, geo), geo) = lba
PROOF
<1> DEFINE geo == [spt |-> spt, heads |-> heads]
           track == lba \div spt
           sec == lba % spt
           ch == track \div heads
           dh == track % heads
<1>1. track \in Nat /\ sec \in 0..spt - 1 /\ lba = spt * track + sec
  BY Division
<1>2. ch \in Nat /\ dh \in 0..heads - 1 /\ track = heads * ch + dh
  <2>1. track \in Nat
    BY <1>1
  <2> HIDE DEF track
  <2> QED BY ONLY <2>1, heads \in Nat \ {0}, Division
<1>3. CBYTE \in Nat /\ CBYTE * heads \in Nat
  BY GeometryAssumption
<1>4. track < CBYTE * heads
  BY <1>3, QuotientBound
<1>5. ch < CBYTE
  BY <1>1, <1>3, <1>4, QuotientBound
<1>6. ChsOf(lba, geo) = [ch |-> ch % CBYTE, dh |-> dh, cl |-> sec + 1]
  BY DEF ChsOf
<1> HIDE DEF ch, dh, sec, track
<1>7. ch % CBYTE = ch /\ (sec + 1) % 64 = sec + 1
  BY <1>1, <1>2, <1>3, <1>5
<1>8. LbaOf(ChsOf(lba, geo), geo)
        = ((ch * heads + dh) * spt + (sec + 1) - 1) % 65536
  BY <1>6, <1>7 DEF LbaOf
<1>9. ch * heads + dh = track
  BY <1>2
<1>10. track * spt + (sec + 1) - 1 = lba
  BY <1>1
<1>11. LbaOf(ChsOf(lba, geo), geo) = lba % 65536
  BY <1>8, <1>9, <1>10
<1>12. lba % 65536 = lba
  BY ONLY lba < 65536
<1> QED BY <1>11, <1>12
-----------------------------------------------------------------------------
(* Entries of a FAT12.                                                     *)

Byte == 0..255
Fat(len) == [0..len - 1 -> Byte]
Entries12 == {x \in Nat : x < 4096}
Words == {w \in Nat : w < 65536}

(* The bytes of entry c are bytes of the FAT. *)
Within(c, len) == EntryAt(c) + 1 < len

LEMMA EntryAtIsNat ==
  ASSUME NEW c \in Nat
  PROVE  EntryAt(c) \in Nat
BY DEF EntryAt

LEMMA BytesInside ==
  ASSUME NEW len \in Nat, NEW f \in Fat(len), NEW o \in Nat, o + 1 < len
  PROVE  \E lo \in Byte, hi \in Byte :
           f[o] = lo /\ f[o + 1] = hi /\ PairAt(f, o) = lo + 256 * hi
PROOF
<1>1. f[o] \in Byte /\ f[o + 1] \in Byte
  BY DEF Fat
<1> QED BY <1>1 DEF PairAt

LEMMA PutWordBytes ==
  ASSUME NEW len \in Nat, NEW f \in Fat(len), NEW o \in Nat, o + 1 < len,
         NEW w \in Words
  PROVE  /\ PutWord(f, o, w) \in Fat(len)
         /\ PutWord(f, o, w)[o] = Low(w)
         /\ PutWord(f, o, w)[o + 1] = High(w)
PROOF
<1>1. Low(w) \in Byte /\ High(w) \in Byte
  BY DEF Low, High, Byte, Words
<1> QED BY <1>1 DEF PutWord, Fat

LEMMA PutWordElsewhere ==
  ASSUME NEW len \in Nat, NEW f \in Fat(len), NEW o \in Nat, NEW w \in Words,
         NEW b \in 0..len - 1, b # o, b # o + 1
  PROVE  PutWord(f, o, w)[b] = f[b]
BY DEF PutWord, Fat

(* What put writes: the entry, and of the neighbour what was there. *)
Keeps(f, c, x, w) ==
  /\ c % 2 = 1 => w \div 16 = x /\ w % 16 = f[EntryAt(c)] % 16
  /\ c % 2 # 1 => w % 4096 = x /\ w \div 4096 = f[EntryAt(c) + 1] \div 16

LEMMA PutIsPutWord ==
  ASSUME NEW len \in Nat, NEW f \in Fat(len), NEW c \in Nat, Within(c, len),
         NEW x \in Entries12
  PROVE  \E w \in Words : /\ Keeps(f, c, x, w)
                          /\ Put12(f, c, x) = PutWord(f, EntryAt(c), w)
PROOF
<1>1. PICK lo \in Byte, hi \in Byte :
        /\ f[EntryAt(c)] = lo /\ f[EntryAt(c) + 1] = hi
        /\ PairAt(f, EntryAt(c)) = lo + 256 * hi
  BY EntryAtIsNat, BytesInside DEF Within
<1> DEFINE v == lo + 256 * hi
           odd == x * 16 + (v % 16)
           even == (v \div 4096) * 4096 + (x % 4096)
<1>2. Put12(f, c, x) = PutWord(f, EntryAt(c), IF c % 2 = 1 THEN odd ELSE even)
  BY <1>1 DEF Put12
<1>3. odd \in Words /\ odd \div 16 = x /\ odd % 16 = lo % 16
  BY ONLY x \in Entries12 DEF Byte, Entries12, Words
<1>4. /\ even \in Words
      /\ even % 4096 = x /\ even \div 4096 = hi \div 16
  BY ONLY x \in Entries12 DEF Byte, Entries12, Words
<1> HIDE DEF odd, even
<1>5. CASE c % 2 = 1
  <2>1. Put12(f, c, x) = PutWord(f, EntryAt(c), odd) /\ Keeps(f, c, x, odd)
    BY <1>1, <1>2, <1>3, <1>5 DEF Keeps
  <2> QED BY <1>3, <2>1
<1>6. CASE c % 2 # 1
  <2>1. Put12(f, c, x) = PutWord(f, EntryAt(c), even) /\ Keeps(f, c, x, even)
    BY <1>1, <1>2, <1>4, <1>6 DEF Keeps
  <2> QED BY <1>4, <2>1
<1> QED BY <1>5, <1>6

(* What addfile puts into an entry is what it and mkdisk read from it.     *)
THEOREM FatPutThenGet ==
  ASSUME NEW len \in Nat, NEW f \in Fat(len), NEW c \in Nat, Within(c, len),
         NEW x \in Entries12
  PROVE  Put12(f, c, x) \in Fat(len) /\ Get(Put12(f, c, x), c) = x
PROOF
<1> DEFINE g == Put12(f, c, x)
<1>1. PICK o \in Nat : o = EntryAt(c) /\ o + 1 < len
  BY EntryAtIsNat DEF Within
<1>2. PICK w \in Words : Keeps(f, c, x, w) /\ g = PutWord(f, o, w)
  BY <1>1, PutIsPutWord
<1> HIDE DEF g
<1>3. g \in Fat(len) /\ g[o] = Low(w) /\ g[o + 1] = High(w)
  <2>1. /\ PutWord(f, o, w) \in Fat(len) /\ PutWord(f, o, w)[o] = Low(w)
        /\ PutWord(f, o, w)[o + 1] = High(w)
    BY <1>1, PutWordBytes
  <2> QED BY <1>2, <2>1
<1>4. (w % 256) + 256 * ((w \div 256) % 256) = w
  BY ONLY w \in Words DEF Words
<1>5. PairAt(g, o) = w
  BY <1>3, <1>4 DEF PairAt, Low, High
<1>6. Get(g, c) = x
  BY <1>1, <1>2, <1>5 DEF Get, Keeps
<1> QED BY <1>3, <1>6 DEF g

(* ... and every other entry reads as before, the one that shares a byte   *)
(* with it included.                                                       *)
THEOREM FatPutKeepsOthers ==
  ASSUME NEW len \in Nat, NEW f \in Fat(len),
         NEW c \in Nat, Within(c, len), NEW d \in Nat, Within(d, len), d # c,
         NEW x \in Entries12
  PROVE  Get(Put12(f, c, x), d) = Get(f, d)
PROOF
<1> DEFINE g == Put12(f, c, x)
<1>1. PICK o \in Nat, p \in Nat :
        o = EntryAt(c) /\ o + 1 < len /\ p = EntryAt(d) /\ p + 1 < len
  BY EntryAtIsNat DEF Within
<1>2. PICK w \in Words : Keeps(f, c, x, w) /\ g = PutWord(f, o, w)
  BY <1>1, PutIsPutWord
<1>3. \/ p > o + 1 \/ p + 1 < o
      \/ c % 2 # 1 /\ d % 2 = 1 /\ p = o + 1
      \/ c % 2 = 1 /\ d % 2 # 1 /\ o = p + 1
  BY ONLY <1>1, d # c DEF EntryAt
<1>4. /\ c % 2 = 1 => w % 16 = f[o] % 16
      /\ c % 2 # 1 => w \div 4096 = f[o + 1] \div 16
  BY <1>1, <1>2 DEF Keeps
<1> HIDE DEF g
<1>5. /\ g \in Fat(len) /\ g[o] = Low(w) /\ g[o + 1] = High(w)
      /\ \A b \in 0..len - 1 : b # o /\ b # o + 1 => g[b] = f[b]
  <2>1. /\ PutWord(f, o, w) \in Fat(len) /\ PutWord(f, o, w)[o] = Low(w)
        /\ PutWord(f, o, w)[o + 1] = High(w)
    BY <1>1, PutWordBytes
  <2>2. \A b \in 0..len - 1 :
          b # o /\ b # o + 1 => PutWord(f, o, w)[b] = f[b]
    BY <1>1, PutWordElsewhere
  <2> QED BY <1>2, <2>1, <2>2
<1>6. PICK a \in Byte, e \in Byte :
        f[p] = a /\ f[p + 1] = e /\ PairAt(f, p) = a + 256 * e
  BY <1>1, BytesInside
<1>7. CASE p > o + 1 \/ p + 1 < o
  <2>1. g[p] = f[p] /\ g[p + 1] = f[p + 1]
    BY <1>1, <1>5, <1>7
  <2>2. PairAt(g, p) = PairAt(f, p)
    BY <2>1 DEF PairAt
  <2> QED BY <1>1, <2>2 DEF Get, g
<1>8. CASE c % 2 # 1 /\ d % 2 = 1 /\ p = o + 1
  <2>1. g[p] = (w \div 256) % 256 /\ g[p + 1] = e
    BY <1>1, <1>5, <1>6, <1>8 DEF High
  <2>2. w \div 4096 = a \div 16
    BY <1>4, <1>6, <1>8
  <2>3. (((w \div 256) % 256) + 256 * e) \div 16 = (a + 256 * e) \div 16
    BY ONLY w \in Words, <2>2 DEF Byte, Words
  <2>4. PairAt(g, p) = ((w \div 256) % 256) + 256 * e
    BY <2>1 DEF PairAt
  <2> QED BY <1>6, <1>8, <2>3, <2>4, <1>1 DEF Get, g
<1>9. CASE c % 2 = 1 /\ d % 2 # 1 /\ o = p + 1
  <2>1. g[p] = a /\ g[p + 1] = w % 256
    BY <1>1, <1>5, <1>6, <1>9 DEF Low
  <2>2. w % 16 = e % 16
    BY <1>4, <1>6, <1>9
  <2>3. (a + 256 * (w % 256)) % 4096 = (a + 256 * e) % 4096
    BY ONLY w \in Words, <2>2 DEF Byte, Words
  <2>4. PairAt(g, p) = a + 256 * (w % 256)
    BY <2>1 DEF PairAt
  <2> QED BY <1>6, <1>9, <2>3, <2>4, <1>1 DEF Get, g
<1> QED BY <1>3, <1>7, <1>8, <1>9

LEMMA EntryRange ==
  ASSUME NEW n \in Nat, NEW fat \in [0..n - 1 -> Entries12], NEW c \in Nat
  PROVE  /\ Entry(fat, c) \in Nat /\ Entry(fat, c) < 4096
         /\ c < n => Entry(fat, c) = fat[c]
PROOF
<1>1. CASE c < n
  <2>1. PICK x \in Nat : x < 4096 /\ x = fat[c]
    BY <1>1 DEF Entries12
  <2>2. x % 4096 = x
    BY ONLY <2>1
  <2>3. Entry(fat, c) = x % 4096
    BY <1>1, <2>1 DEF Entry
  <2> QED BY <2>1, <2>2, <2>3
<1>2. CASE ~(c < n)
  BY <1>2 DEF Entry
<1> QED BY <1>1, <1>2

(* The builder's bytes read as the entries it packed.                      *)
THEOREM FatPackThenGet ==
  ASSUME NEW n \in Nat, NEW fat \in [0..n - 1 -> Entries12], NEW len \in Nat,
         NEW c \in Nat, c < n, Within(c, len)
  PROVE  Get(Pack(fat, len), c) = fat[c]
PROOF
<1> DEFINE g == Pack(fat, len)
<1>1. PICK k \in Nat, o \in Nat :
      /\ k = c \div 2 /\ o = EntryAt(c) /\ o + 1 < len
      /\ \/ c = 2 * k /\ c % 2 # 1 /\ o = 3 * k
         \/ c = 2 * k + 1 /\ c % 2 = 1 /\ o = 3 * k + 1
  <2>1. c \div 2 \in Nat /\ EntryAt(c) \in Nat
    BY EntryAtIsNat
  <2> QED BY <2>1 DEF Within, EntryAt
<1>2. PICK lo \in Nat, hi \in Nat :
        /\ lo < 4096 /\ hi < 4096
        /\ lo = Entry(fat, 2 * k) /\ hi = Entry(fat, 2 * k + 1)
  <2>1. 2 * k \in Nat /\ 2 * k + 1 \in Nat
    BY <1>1
  <2> QED BY <2>1, EntryRange
<1>3. fat[c] = Entry(fat, c)
  BY EntryRange
<1>6. lo < 4096 /\ hi < 4096
  BY <1>2
<1> HIDE DEF g
<1>4. CASE c % 2 # 1
  <2>0. o = 3 * k /\ o + 1 < len
    BY <1>1, <1>4
  <2>1. /\ o \in 0..len - 1 /\ o % 3 = 0 /\ o \div 3 = k
        /\ o + 1 \in 0..len - 1 /\ (o + 1) % 3 = 1 /\ (o + 1) \div 3 = k
    BY ONLY <2>0, len \in Nat
  <2>2. g[o] = LowByte(lo, hi)
    BY <1>2, <2>1 DEF g, Pack
  <2>3. g[o + 1] = MiddleByte(lo, hi)
    BY <1>2, <2>1 DEF g, Pack
  <2>4. PairAt(g, o) = (lo % 256) + 256 * (lo \div 256 + 16 * (hi % 16))
    BY <2>2, <2>3 DEF PairAt, LowByte, MiddleByte, HighByte
  <2>5. ((lo % 256) + 256 * (lo \div 256 + 16 * (hi % 16))) % 4096 = lo
    BY ONLY <1>6
  <2>6. fat[c] = lo
    BY <1>1, <1>2, <1>3, <1>4
  <2> QED BY <1>4, <2>4, <2>5, <2>6, <1>1 DEF Get, g
<1>5. CASE c % 2 = 1
  <2>0. o = 3 * k + 1 /\ o + 1 < len
    BY <1>1, <1>5
  <2>1. /\ o \in 0..len - 1 /\ o % 3 = 1 /\ o \div 3 = k
        /\ o + 1 \in 0..len - 1 /\ (o + 1) % 3 = 2 /\ (o + 1) \div 3 = k
    BY ONLY <2>0, len \in Nat
  <2>2. g[o] = MiddleByte(lo, hi)
    BY <1>2, <2>1 DEF g, Pack
  <2>3. g[o + 1] = HighByte(lo, hi)
    <3>1. PICK b \in 0..len - 1 : 
            b = o + 1 /\ b % 3 # 0 /\ b % 3 # 1 /\ b \div 3 = k
      BY <2>1
    <3>2. Pack(fat, len)[b] = HighByte(Entry(fat, 2 * k), Entry(fat, 2 * k + 1))
      BY ONLY <3>1 DEF Pack
    <3> QED BY <1>2, <3>1, <3>2 DEF g
  <2>4. PairAt(g, o) = lo \div 256 + 16 * (hi % 16) + 256 * (hi \div 16)
    BY <2>2, <2>3 DEF PairAt, LowByte, MiddleByte, HighByte
  <2>5. (lo \div 256 + 16 * (hi % 16) + 256 * (hi \div 16)) \div 16 = hi
    BY ONLY <1>6
  <2>6. fat[c] = hi
    BY <1>1, <1>2, <1>3, <1>5
  <2> QED BY <1>5, <2>4, <2>5, <2>6, <1>1 DEF Get, g
<1> QED BY <1>4, <1>5

(* The boot sector's machine code reads the entries the tools read.        *)
THEOREM FatNextIsGet ==
  ASSUME NEW f, NEW c \in Nat
  PROVE  FatNext(f, c) = Get(f, c)
PROOF
<1>1. c + (c \div 2) = EntryAt(c) /\ (c % 2 = 0 <=> c % 2 # 1)
  BY DEF EntryAt
<1> QED BY <1>1 DEF FatNext, Get

-----------------------------------------------------------------------------
(* Volumes.  The layout comes first: a FAT that has an entry for each      *)
(* cluster.  Then files: Kept says that a set of files has its chains,     *)
(* each of its own clusters and ending where the file does, that they      *)
(* share none, and that no other cluster is in use; Listed says what the   *)
(* directory says of them.  The builder keeps this as it takes files, and  *)
(* so do giving back and writing a file; Good is the two, for an image.    *)

(* A larger number has no smaller a quotient.                              *)
LEMMA QuotientOrder ==
  ASSUME NEW a \in Nat, NEW b \in Nat, a <= b, NEW d \in Nat \ {0}
  PROVE  a \div d <= b \div d
<1> DEFINE x == a \div d
           y == b \div d
<1>1. x \in Nat /\ a % d \in 0..d - 1 /\ a = d * x + (a % d)
  BY Division
<1>2. y \in Nat /\ b % d \in 0..d - 1 /\ b = d * y + (b % d)
  BY Division
<1> DEFINE r == a % d
           s == b % d
<1> HIDE DEF x, y, r, s
<1>3. SUFFICES ASSUME y + 1 <= x PROVE FALSE
  BY <1>1, <1>2 DEF x, y
<1>4. d * (y + 1) <= d * x
  BY <1>1, <1>2, <1>3
<1>5. d * (y + 1) = d * y + d
  BY <1>2
<1>6. d * y \in Nat /\ d * x \in Nat
  BY <1>1, <1>2
<1> QED BY <1>1, <1>2, <1>4, <1>5, <1>6 DEF r, s

(* CeilDiv is the least number of pieces of size d that hold n.            *)
LEMMA CeilDivHolds ==
  ASSUME NEW n \in Nat, NEW d \in Nat \ {0}
  PROVE  CeilDiv(n, d) \in Nat /\ n <= CeilDiv(n, d) * d
<1> DEFINE m == n + d - 1
           q == m \div d
           r == m % d
<1>1. m \in Nat
  OBVIOUS
<1>2. q \in Nat /\ r \in 0..d - 1 /\ m = d * q + r
  <2> HIDE DEF m
  <2> QED BY <1>1, Division
<1>3. CeilDiv(n, d) = q
  BY DEF CeilDiv
<1>4. n + d - 1 = d * q + r
  BY <1>2
<1> HIDE DEF m, q, r
<1>5. d * q \in Nat /\ q * d = d * q
  BY <1>2
<1>6. n <= q * d
  BY <1>2, <1>4, <1>5
<1> QED BY <1>2, <1>3, <1>6

(* More to hold takes no fewer pieces.                                     *)
LEMMA CeilDivOrder ==
  ASSUME NEW a \in Nat, NEW b \in Nat, a <= b, NEW d \in Nat \ {0}
  PROVE  CeilDiv(a, d) <= CeilDiv(b, d)
<1> DEFINE x == a + d - 1
           y == b + d - 1
<1>1. x \in Nat /\ y \in Nat /\ x <= y
  OBVIOUS
<1> HIDE DEF x, y
<1>2. x \div d <= y \div d
  BY <1>1, QuotientOrder
<1> QED BY <1>2 DEF CeilDiv, x, y

(* The constants as numbers.                                               *)
LEMMA VolumeTypes == SECTOR \in Nat \ {0} /\ ENDMARKS \in 3..4088
  BY VolumeAssumptions

(* The sizes of the parts of a volume are numbers.                         *)
LEMMA RootSectorsNat ==
  ASSUME NEW rootn \in Nat PROVE RootSectors(rootn) \in Nat
<1> DEFINE m == rootn * 32
<1>1. m \in Nat
  OBVIOUS
<1> HIDE DEF m
<1>2. m \div SECTOR \in Nat
  BY <1>1, VolumeTypes, Division
<1> QED BY <1>2 DEF RootSectors, m

LEMMA DataStartNat ==
  ASSUME NEW rootn \in Nat, NEW s \in Nat PROVE DataStart(rootn, s) \in Nat
BY RootSectorsNat DEF DataStart

(* A larger FAT moves the clusters up.                                     *)
LEMMA DataStartOrder ==
  ASSUME NEW rootn \in Nat, NEW s \in Nat, NEW t \in Nat, s <= t
  PROVE  DataStart(rootn, s) <= DataStart(rootn, t)
<1>1. RootSectors(rootn) \in Nat
  BY RootSectorsNat
<1> QED BY <1>1 DEF DataStart

(* More sectors of FAT leave no more clusters.                             *)
LEMMA FewerClusters ==
  ASSUME NEW total \in Nat, NEW rootn \in Nat, NEW spc \in Nat \ {0},
         NEW s \in Nat, NEW t \in Nat, s <= t, total >= DataStart(rootn, t)
  PROVE  /\ ClusterCount(total, rootn, spc, t) \in Nat
         /\ ClusterCount(total, rootn, spc, s) \in Nat
         /\ ClusterCount(total, rootn, spc, t) <= ClusterCount(total, rootn, spc, s)
<1> DEFINE a == total - DataStart(rootn, t)
           b == total - DataStart(rootn, s)
<1>1. a \in Nat /\ b \in Nat /\ a <= b
  <2>1. DataStart(rootn, t) \in Nat /\ DataStart(rootn, s) \in Nat
    BY DataStartNat
  <2>2. DataStart(rootn, s) <= DataStart(rootn, t)
    BY DataStartOrder
  <2> QED BY <2>1, <2>2
<1> HIDE DEF a, b
<1>2. a \div spc \in Nat /\ b \div spc \in Nat /\ a \div spc <= b \div spc
  BY <1>1, QuotientOrder, Division
<1> QED BY <1>2 DEF ClusterCount, a, b

(* More clusters need no smaller a FAT.                                    *)
LEMMA FatSectorsOrder ==
  ASSUME NEW m \in Nat, NEW n \in Nat, m <= n
  PROVE  FatSectorsFor(m) \in Nat /\ FatSectorsFor(m) <= FatSectorsFor(n)
<1> DEFINE a == ((m + 2) * 3 + 1) \div 2
           b == ((n + 2) * 3 + 1) \div 2
<1>1. a \in Nat /\ b \in Nat /\ a <= b
  OBVIOUS
<1> HIDE DEF a, b
<1>2. CeilDiv(a, SECTOR) <= CeilDiv(b, SECTOR) /\ CeilDiv(a, SECTOR) \in Nat
  BY <1>1, CeilDivOrder, CeilDivHolds, VolumeTypes
<1> QED BY <1>2 DEF FatSectorsFor, a, b

(* A FAT of len bytes has an entry for each of n clusters.                 *)
FatHolds(n, len) == ((n + 2) * 3 + 1) \div 2 <= len

(* The loop of Fat12 ends after one growth, with a FAT that has an entry   *)
(* for each cluster.                                                       *)
LEMMA SizeFatFits ==
  ASSUME NEW total \in Nat, NEW rootn \in Nat, NEW spc \in Nat \ {0},
         NEW spf, spf = SizeFat(total, rootn, spc), spf # 0
  PROVE  /\ spf \in Nat /\ spf >= 1 /\ total > DataStart(rootn, spf)
         /\ ClusterCount(total, rootn, spc, spf) \in Nat
         /\ Grown(total, rootn, spc, spf) = spf
         /\ FatHolds(ClusterCount(total, rootn, spc, spf), spf * SECTOR)
<1> DEFINE one == 1
           count(s) == ClusterCount(total, rootn, spc, s)
           need(s) == FatSectorsFor(count(s))
<1>1. /\ spf = Grown(total, rootn, spc, one)
      /\ total > DataStart(rootn, one) /\ total > DataStart(rootn, spf)
  BY DEF SizeFat
<1>2. one \in Nat /\ one = 1
  OBVIOUS
<1> HIDE DEF one
<1>3. DataStart(rootn, one) \in Nat
  BY <1>2, DataStartNat
<1>4. count(one) \in Nat /\ need(one) \in Nat
  <2>1. count(one) \in Nat
    BY <1>1, <1>2, <1>3, FewerClusters
  <2> HIDE DEF count
  <2> QED BY <2>1, FatSectorsOrder
<1>5. spf = IF need(one) <= one THEN one ELSE need(one)
  BY <1>1 DEF Grown
<1>6. spf \in Nat /\ spf >= one
  <2> HIDE DEF need
  <2> QED BY <1>2, <1>4, <1>5
<1>7. DataStart(rootn, spf) \in Nat
  BY <1>6, DataStartNat
<1>8. count(spf) \in Nat /\ count(spf) <= count(one)
  BY <1>1, <1>2, <1>6, <1>7, FewerClusters
<1>9. need(spf) \in Nat /\ need(spf) <= need(one)
  <2> HIDE DEF count
  <2> QED BY <1>4, <1>8, FatSectorsOrder
<1>10. need(spf) <= spf
  <2>1. CASE need(one) <= one
    <3>1. spf = one
      BY <1>5, <2>1
    <3> QED BY <2>1, <3>1
  <2>2. CASE ~(need(one) <= one)
    <3>1. spf = need(one)
      BY <1>5, <2>2
    <3> HIDE DEF need
    <3> QED BY <1>9, <3>1
  <2> QED BY <2>1, <2>2
<1>11. Grown(total, rootn, spc, spf) = spf
  BY <1>10 DEF Grown
<1> DEFINE bytes == ((count(spf) + 2) * 3 + 1) \div 2
<1>12. bytes \in Nat
  <2> HIDE DEF count
  <2> QED BY <1>8
<1>13. bytes <= need(spf) * SECTOR
  <2>1. need(spf) = CeilDiv(bytes, SECTOR)
    BY DEF FatSectorsFor
  <2> HIDE DEF bytes
  <2>2. bytes <= CeilDiv(bytes, SECTOR) * SECTOR
    BY <1>12, CeilDivHolds, VolumeTypes
  <2> QED BY <2>1, <2>2
<1>14. need(spf) * SECTOR <= spf * SECTOR /\ need(spf) * SECTOR \in Nat /\ spf * SECTOR \in Nat
  <2> HIDE DEF need
  <2>1. SECTOR \in Nat
    BY VolumeTypes
  <2> QED BY <1>6, <1>9, <1>10, <2>1
<1>15. bytes <= spf * SECTOR
  <2> HIDE DEF bytes, need
  <2> QED BY <1>12, <1>13, <1>14
<1>16. FatHolds(count(spf), spf * SECTOR)
  BY <1>15 DEF FatHolds
<1> QED BY <1>1, <1>2, <1>6, <1>8, <1>11, <1>16

(* Entries of clusters have their bytes in the FAT.                        *)
LEMMA EntriesInside ==
  ASSUME NEW n \in Nat, NEW len \in Nat, FatHolds(n, len), NEW c \in 0..n + 1
  PROVE  Within(c, len)
<1>1. c \in Nat /\ c <= n + 1
  OBVIOUS
<1>2. (c * 3) \div 2 + 1 < ((n + 2) * 3 + 1) \div 2
  BY <1>1
<1> QED BY <1>2 DEF Within, EntryAt, FatHolds

(* What is read from a FAT has twelve bits.                                *)
LEMMA GetIsEntry ==
  ASSUME NEW len \in Nat, NEW f \in Fat(len), NEW c \in Nat, Within(c, len)
  PROVE  Get(f, c) \in Entries12
<1>1. EntryAt(c) \in Nat /\ EntryAt(c) + 1 < len
  BY EntryAtIsNat DEF Within
<1>2. PICK lo \in Byte, hi \in Byte : PairAt(f, EntryAt(c)) = lo + 256 * hi
  BY <1>1, BytesInside
<1> DEFINE v == PairAt(f, EntryAt(c))
<1>3. v \in Nat /\ v < 65536
  BY <1>2 DEF Byte
<1>4. Get(f, c) = IF c % 2 = 1 THEN v \div 16 ELSE v % 4096
  BY DEF Get
<1> HIDE DEF v
<1>5. v \div 16 \in Nat /\ v \div 16 < 4096 /\ v % 4096 \in Nat /\ v % 4096 < 4096
  BY <1>3
<1> QED BY <1>4, <1>5 DEF Entries12

(* A number is known by its quotient and its remainder.                    *)
Splits(x, d, a, r) == x \in Nat /\ x \div d = a /\ x % d = r

LEMMA QuotientIs ==
  ASSUME NEW a \in Nat, NEW d \in Nat \ {0}, NEW r \in 0..d - 1,
         NEW x \in Int, x = a * d + r
  PROVE  Splits(x, d, a, r)
<1>1. a * d \in Nat /\ x \in Nat
  OBVIOUS
<1> DEFINE q == x \div d
           s == x % d
<1>2. q \in Nat /\ s \in 0..d - 1 /\ x = d * q + s
  BY <1>1, Division
<1> HIDE DEF q, s
<1>3. d * q \in Nat /\ d * a \in Nat /\ d * a = a * d
  BY <1>2
<1>4. ~(q + 1 <= a)
  <2> SUFFICES ASSUME q + 1 <= a PROVE FALSE
    OBVIOUS
  <2>1. d * (q + 1) <= d * a /\ d * (q + 1) = d * q + d
    BY <1>2
  <2> QED BY <1>2, <1>3, <2>1
<1>5. ~(a + 1 <= q)
  <2> SUFFICES ASSUME a + 1 <= q PROVE FALSE
    OBVIOUS
  <2>1. d * (a + 1) <= d * q /\ d * (a + 1) = d * a + d
    BY <1>2
  <2> QED BY <1>2, <1>3, <2>1
<1>6. q = a
  BY <1>2, <1>4, <1>5
<1>7. s = r
  BY <1>2, <1>3, <1>6
<1> QED BY <1>1, <1>6, <1>7 DEF q, s, Splits

-----------------------------------------------------------------------------
(* Files in clusters.  n clusters of spc sectors; g says what the FAT has  *)
(* for each of them, sect what each sector holds, E is a set of files, ch  *)
(* gives each its clusters and body its contents.                          *)

Clus(n) == 2..n + 1

ChainOf(n, g, q) ==
  /\ q \in Seq(Clus(n)) /\ Len(q) >= 1
  /\ \A k \in 1..Len(q) : g[q[k]] = IF k = Len(q) THEN 4095 ELSE q[k + 1]
OneToOne(q) == \A k, l \in 1..Len(q) : q[k] = q[l] => k = l

GenFiles == {"PADDING.BIN", "KERNEL.BIN", "README.TXT"}
Names == FILES \cup GenFiles
Sectors == (Names \cup {"zero"}) \X Nat \X Nat
Length(spc, b) == AtLeast1(CeilDiv(Len(b), spc))
Stored(spc, sect, q, b) == \A j \in 1..Len(b) : sect[Spot(spc, q, j)] = b[j]

HasFile(n, spc, g, sect, q, b) ==
  /\ ChainOf(n, g, q) /\ OneToOne(q)
  /\ b \in Seq(Sectors) /\ Len(q) = Length(spc, b) /\ Stored(spc, sect, q, b)

Kept(n, spc, g, sect, E, ch, body) ==
  /\ \A i \in E : HasFile(n, spc, g, sect, ch[i], body[i])
  /\ \A i, j \in E : i # j => Named(ch[i]) \cap Named(ch[j]) = {}
  /\ \A c \in Clus(n) : g[c] # 0 => \E i \in E : c \in Named(ch[i])

(* The clusters of a chain, as a set.                                      *)
LEMMA NamedIs ==
  ASSUME NEW S, NEW q \in Seq(S)
  PROVE  /\ Named(q) = {q[k] : k \in 1..Len(q)} /\ Named(q) \in SUBSET S
         /\ \A k \in 1..Len(q) : q[k] \in Named(q)
<1>1. DOMAIN q = 1..Len(q) /\ \A k \in 1..Len(q) : q[k] \in S
  BY LenProperties, ElementOfSeq
<1> QED BY <1>1 DEF Named

(* A file fits the clusters that its length asks for, and reading it takes *)
(* one more at most.                                                       *)
LEMMA LengthIs ==
  ASSUME NEW spc \in Nat \ {0}, NEW b \in Seq(Sectors)
  PROVE  /\ Length(spc, b) \in Nat /\ Length(spc, b) >= 1
         /\ Len(b) \in Nat /\ Len(b) <= Length(spc, b) * spc
         /\ CeilDiv(Len(b), spc) \in Nat /\ CeilDiv(Len(b), spc) <= Length(spc, b)
         /\ Length(spc, b) <= CeilDiv(Len(b), spc) + 1
<1> DEFINE len == Len(b)
           m == CeilDiv(len, spc)
<1>1. len \in Nat
  BY LenProperties
<1>2. m \in Nat /\ len <= m * spc
  <2> HIDE DEF len
  <2> QED BY <1>1, CeilDivHolds
<1>3. Length(spc, b) = IF m < 1 THEN 1 ELSE m
  BY DEF Length, AtLeast1
<1> HIDE DEF len, m
<1> DEFINE t == Length(spc, b)
<1> HIDE DEF t
<1>4. t = IF m < 1 THEN 1 ELSE m
  BY <1>3 DEF t
<1>5. t \in Nat /\ t >= 1 /\ m <= t /\ t <= m + 1
  BY <1>2, <1>4
<1>6. len <= t * spc
  <2>1. CASE m < 1
    <3>1. m = 0 /\ m * spc = 0
      BY <1>2, <2>1
    <3>2. len = 0 /\ t * spc \in Nat
      BY <1>1, <1>2, <1>5, <3>1
    <3> QED BY <1>1, <3>2
  <2>2. CASE ~(m < 1)
    <3>1. t = m
      BY <1>4, <2>2
    <3> QED BY <1>2, <3>1
  <2> QED BY <2>1, <2>2
<1> QED BY <1>1, <1>2, <1>5, <1>6 DEF len, m, t

(* Where a sector of a file is.                                            *)
Turn(spc, j) == ((j - 1) \div spc) + 1
Rest(spc, j) == (j - 1) % spc
SpotOf(n, spc, q, j) ==
  /\ Turn(spc, j) \in 1..Len(q) /\ Rest(spc, j) \in 0..spc - 1
  /\ j = (Turn(spc, j) - 1) * spc + Rest(spc, j) + 1
  /\ Spot(spc, q, j) \in 0..n * spc - 1
  /\ Spot(spc, q, j) \div spc = q[Turn(spc, j)] - 2
  /\ Spot(spc, q, j) % spc = Rest(spc, j)

(* Sector j of a file is in the turn of the chain that holds it, at the    *)
(* rest.                                                                   *)
LEMMA SpotIs ==
  ASSUME NEW n \in Nat, NEW spc \in Nat \ {0}, NEW q \in Seq(Clus(n)),
         NEW b \in Seq(Sectors), Len(q) = Length(spc, b), NEW j \in 1..Len(b)
  PROVE  SpotOf(n, spc, q, j)
<1> DEFINE k == j - 1
           m == Length(spc, b)
           a == k \div spc
           r == k % spc
           t == a + 1
<1>1. k \in Nat /\ m \in Nat /\ k < m * spc /\ j \in Int /\ k + 1 = j
  <2>1. m \in Nat /\ Len(b) \in Nat /\ Len(b) <= m * spc
    BY LengthIs
  <2> HIDE DEF m
  <2> QED BY <2>1
<1> HIDE DEF k, m
<1>2. a \in Nat /\ r \in 0..spc - 1 /\ k = spc * a + r
  BY <1>1, Division
<1>3. a < m
  BY <1>1, QuotientBound
<1> HIDE DEF a, r
<1>4. t \in 1..m /\ t \in 1..Len(q)
  BY <1>1, <1>2, <1>3 DEF m
<1>5. j = (t - 1) * spc + r + 1
  <2>1. t - 1 = a /\ a * spc = spc * a
    BY <1>2
  <2> QED BY <1>1, <1>2, <2>1
<1> HIDE DEF t
<1> DEFINE c == q[t] - 2
           s == c * spc + r
<1>6. q[t] \in 2..n + 1 /\ c \in 0..n - 1
  <2>1. q[t] \in Clus(n)
    BY <1>4, ElementOfSeq
  <2> QED BY <2>1 DEF Clus
<1> HIDE DEF c
<1>7. c \in Nat /\ s \in Nat /\ s \div spc = c /\ s % spc = r
  <2>1. c \in Nat
    BY <1>6
  <2>2. s = c * spc + r
    OBVIOUS
  <2>3. c * spc \in Int /\ s \in Int
    BY <1>2, <2>1, <2>2
  <2> HIDE DEF s
  <2>4. Splits(s, spc, c, r)
    BY <1>2, <2>1, <2>2, <2>3, QuotientIs
  <2> QED BY <2>1, <2>4 DEF Splits
<1>8. s < n * spc
  <2>1. (c + 1) * spc <= n * spc /\ (c + 1) * spc = c * spc + spc
    BY <1>6
  <2>2. c * spc \in Nat /\ n * spc \in Nat
    BY <1>7
  <2> QED BY <1>2, <2>1, <2>2
<1>9. Turn(spc, j) = t /\ Rest(spc, j) = r
  BY DEF Turn, Rest, t, a, r, k
<1>10. Spot(spc, q, j) = s
  BY DEF Spot, s, c, t, a, r, k
<1>11. s \in 0..n * spc - 1
  <2>1. n * spc \in Nat
    OBVIOUS
  <2> HIDE DEF s
  <2> QED BY <1>7, <1>8, <2>1
<1> HIDE DEF s
<1>12. s \div spc = q[t] - 2
  BY <1>7 DEF c
<1> QED BY <1>2, <1>4, <1>5, <1>7, <1>9, <1>10, <1>11, <1>12 DEF SpotOf

(* What is written into other clusters does not touch a file.              *)
LEMMA StoredKept ==
  ASSUME NEW n \in Nat, NEW spc \in Nat \ {0}, NEW q \in Seq(Clus(n)),
         NEW b \in Seq(Sectors), Len(q) = Length(spc, b),
         NEW sect, NEW sect2, Stored(spc, sect, q, b),
         \A s \in 0..n * spc - 1 : (s \div spc) + 2 \in Named(q) => sect2[s] = sect[s]
  PROVE  Stored(spc, sect2, q, b)
<1> SUFFICES ASSUME NEW j \in 1..Len(b) PROVE sect2[Spot(spc, q, j)] = b[j]
  BY DEF Stored
<1> DEFINE s == Spot(spc, q, j)
           t == Turn(spc, j)
<1>1. s \in 0..n * spc - 1 /\ s \div spc = q[t] - 2 /\ t \in 1..Len(q)
  <2>1. SpotOf(n, spc, q, j)
    BY SpotIs
  <2> QED BY <2>1 DEF SpotOf
<1>2. q[t] \in Named(q) /\ q[t] \in Clus(n)
  <2> HIDE DEF t
  <2> QED BY <1>1, NamedIs
<1> HIDE DEF s, t
<1> DEFINE d == s \div spc
           c == q[t]
<1>3. (s \div spc) + 2 = q[t]
  <2>1. d = c - 2 /\ c \in 2..n + 1
    BY <1>1, <1>2 DEF Clus
  <2> HIDE DEF d, c
  <2>2. d + 2 = c
    BY <2>1
  <2> QED BY <2>2 DEF d, c
<1>4. sect2[s] = sect[s]
  BY <1>1, <1>2, <1>3
<1> QED BY <1>4 DEF Stored, s

(* A chain that nothing is written into stays.                             *)
LEMMA ChainKept ==
  ASSUME NEW n \in Nat, NEW g, NEW g2, NEW q, ChainOf(n, g, q),
         \A c \in Named(q) : g2[c] = g[c]
  PROVE  ChainOf(n, g2, q)
<1>1. q \in Seq(Clus(n))
  BY DEF ChainOf
<1>2. \A k \in 1..Len(q) : q[k] \in Named(q)
  BY <1>1, NamedIs
<1> QED BY <1>2 DEF ChainOf

(* A cluster of a chain is not free.                                       *)
LEMMA ChainUsed ==
  ASSUME NEW n \in Nat, NEW g, NEW q, ChainOf(n, g, q), NEW c \in Named(q)
  PROVE  c \in Clus(n) /\ g[c] # 0
<1>1. q \in Seq(Clus(n))
  BY DEF ChainOf
<1>2. PICK k \in 1..Len(q) : c = q[k]
  BY <1>1, NamedIs
<1>3. c \in Clus(n)
  BY <1>1, <1>2, ElementOfSeq
<1>4. g[c] = IF k = Len(q) THEN 4095 ELSE q[k + 1]
  BY <1>2 DEF ChainOf
<1>5. Len(q) \in Nat
  BY <1>1, LenProperties
<1>6. CASE k = Len(q)
  BY <1>3, <1>4, <1>6
<1>7. CASE k # Len(q)
  <2>1. k + 1 \in 1..Len(q)
    BY <1>5, <1>7
  <2>2. q[k + 1] \in 2..n + 1
    BY <1>1, <2>1, ElementOfSeq DEF Clus
  <2> QED BY <1>3, <1>4, <1>7, <2>2
<1> QED BY <1>6, <1>7

(* A change that stays within some clusters.                               *)
FreeIn(g, q) == \A c \in Named(q) : g[c] = 0
Untouched(n, g, g2, q) == \A c \in Clus(n) : c \notin Named(q) => g2[c] = g[c]
Unwritten(n, spc, sect, sect2, q) ==
  \A s \in 0..n * spc - 1 : (s \div spc) + 2 \notin Named(q) => sect2[s] = sect[s]
Agree(E, f, f2) == \A i \in E : f2[i] = f[i]

(* A file more, in clusters that were free.                                *)
LEMMA KeptWith ==
  ASSUME NEW n \in Nat, NEW spc \in Nat \ {0}, NEW g, NEW g2, NEW sect, NEW sect2,
         NEW E, NEW ch, NEW body, Kept(n, spc, g, sect, E, ch, body),
         NEW i, i \notin E, NEW q, NEW b,
         HasFile(n, spc, g2, sect2, q, b), FreeIn(g, q), Untouched(n, g, g2, q),
         Unwritten(n, spc, sect, sect2, q), NEW E2, E2 = E \cup {i},
         NEW ch2, Agree(E, ch, ch2), ch2[i] = q,
         NEW body2, Agree(E, body, body2), body2[i] = b
  PROVE  Kept(n, spc, g2, sect2, E2, ch2, body2)
<1> USE DEF FreeIn, Untouched, Unwritten, Agree
<1>1. ASSUME NEW j \in E
      PROVE  HasFile(n, spc, g, sect, ch[j], body[j]) /\ ChainOf(n, g, ch[j])
             /\ Named(ch[j]) \cap Named(q) = {} /\ \A c \in Named(ch[j]) : c \in Clus(n)
  <2>1. HasFile(n, spc, g, sect, ch[j], body[j])
    BY DEF Kept
  <2>2. ChainOf(n, g, ch[j])
    BY <2>1 DEF HasFile
  <2>3. \A c \in Named(ch[j]) : c \in Clus(n) /\ g[c] # 0
    BY <2>2, ChainUsed
  <2> QED BY <2>1, <2>2, <2>3
<1>2. ASSUME NEW j \in E PROVE HasFile(n, spc, g2, sect2, ch[j], body[j])
  <2>1. \A c \in Named(ch[j]) : g2[c] = g[c]
    BY <1>1
  <2>2. ChainOf(n, g2, ch[j])
    BY <1>1, <2>1, ChainKept
  <2> DEFINE p == ch[j]
             d == body[j]
  <2>3. p \in Seq(Clus(n)) /\ d \in Seq(Sectors) /\ Len(p) = Length(spc, d)
        /\ Stored(spc, sect, p, d)
    BY <1>1 DEF HasFile, ChainOf
  <2>4. \A s \in 0..n * spc - 1 : (s \div spc) + 2 \in Named(p) => sect2[s] = sect[s]
    BY <1>1
  <2>5. Stored(spc, sect2, p, d)
    <3> HIDE DEF p, d
    <3> QED BY <2>3, <2>4, StoredKept
  <2> QED BY <1>1, <2>2, <2>5 DEF HasFile
<1>3. ASSUME NEW j \in E2 PROVE HasFile(n, spc, g2, sect2, ch2[j], body2[j])
  BY <1>2
<1>4. ASSUME NEW j \in E2, NEW k \in E2, j # k PROVE Named(ch2[j]) \cap Named(ch2[k]) = {}
  <2>1. CASE j = i
    BY <1>1, <1>4, <2>1
  <2>2. CASE k = i
    BY <1>1, <1>4, <2>2
  <2>3. CASE j # i /\ k # i
    BY <1>4, <2>3 DEF Kept
  <2> QED BY <2>1, <2>2, <2>3
<1>5. ASSUME NEW c \in Clus(n), g2[c] # 0 PROVE \E j \in E2 : c \in Named(ch2[j])
  <2>1. CASE c \in Named(q)
    BY <2>1
  <2>2. CASE c \notin Named(q)
    <3>1. g[c] # 0
      BY <1>5, <2>2
    <3>2. PICK j \in E : c \in Named(ch[j])
      BY <3>1 DEF Kept
    <3> QED BY <3>2
  <2> QED BY <2>1, <2>2
<1> QED BY <1>3, <1>4, <1>5 DEF Kept

(* A file less, its clusters free.                                         *)
LEMMA KeptWithout ==
  ASSUME NEW n \in Nat, NEW spc \in Nat \ {0}, NEW g, NEW g2, NEW sect,
         NEW E, NEW ch, NEW body, Kept(n, spc, g, sect, E, ch, body),
         NEW i \in E, FreeIn(g2, ch[i]), Untouched(n, g, g2, ch[i]),
         NEW E2, E2 = E \ {i}
  PROVE  Kept(n, spc, g2, sect, E2, ch, body)
<1> USE DEF FreeIn, Untouched
<1>1. ASSUME NEW j \in E2 PROVE HasFile(n, spc, g2, sect, ch[j], body[j])
  <2>1. HasFile(n, spc, g, sect, ch[j], body[j]) /\ j # i /\ j \in E
    BY DEF Kept
  <2>2. ChainOf(n, g, ch[j])
    BY <2>1 DEF HasFile
  <2>3. \A c \in Named(ch[j]) : c \in Clus(n)
    BY <2>2, ChainUsed
  <2>4. Named(ch[j]) \cap Named(ch[i]) = {}
    BY <2>1 DEF Kept
  <2>5. \A c \in Named(ch[j]) : g2[c] = g[c]
    BY <2>3, <2>4
  <2>6. ChainOf(n, g2, ch[j])
    BY <2>2, <2>5, ChainKept
  <2> QED BY <2>1, <2>6 DEF HasFile
<1>2. \A j, k \in E2 : j # k => Named(ch[j]) \cap Named(ch[k]) = {}
  BY DEF Kept
<1>3. ASSUME NEW c \in Clus(n), g2[c] # 0 PROVE \E j \in E2 : c \in Named(ch[j])
  <2>1. c \notin Named(ch[i])
    BY <1>3
  <2>2. g[c] # 0
    BY <1>3, <2>1
  <2>3. PICK j \in E : c \in Named(ch[j])
    BY <2>2 DEF Kept
  <2>4. j # i
    BY <2>1, <2>3
  <2> QED BY <2>3, <2>4
<1> QED BY <1>1, <1>2, <1>3 DEF Kept

(* A function defined by recursion up to a bound.                          *)
Turns(S, x, m, G) ==
  \E h \in [0..m -> S] : h[0] = x /\ \A k \in 1..m : h[k] = G[<<k, h[k - 1]>>]

LEMMA Bounded ==
  ASSUME NEW S, NEW x \in S, NEW m \in Nat, NEW G \in [(1..m) \X S -> S]
  PROVE  Turns(S, x, m, G)
<1> DEFINE F == [c \in Nat \X S |-> IF c[1] < m THEN G[<<c[1] + 1, c[2]>>] ELSE c[2]]
<1>1. F \in [Nat \X S -> S]
  <2>1. ASSUME NEW c \in Nat \X S PROVE F[c] \in S
    <3>1. CASE c[1] < m
      <4> DEFINE k == c[1] + 1
                 s == c[2]
      <4>1. k \in 1..m /\ s \in S
        BY <3>1
      <4> HIDE DEF k, s
      <4>2. G[<<k, s>>] \in S
        BY <4>1
      <4> QED BY <3>1, <4>2 DEF k, s
    <3>2. CASE ~(c[1] < m)
      BY <3>2
    <3> QED BY <3>1, <3>2
  <2> QED BY <2>1
<1>2. PICK e \in [Nat -> S] : e[0] = x /\ \A k \in Nat : e[k + 1] = F[<<k, e[k]>>]
  <2> HIDE DEF F
  <2>1. \E e \in [Nat -> S] : Recurs(e, x, F)
    BY <1>1, Recursion
  <2> QED BY <2>1 DEF Recurs
<1>3. ASSUME NEW k \in 1..m PROVE e[k] = G[<<k, e[k - 1]>>]
  <2> DEFINE j == k - 1
  <2>1. j \in Nat /\ j < m /\ k = j + 1
    OBVIOUS
  <2>2. e[j + 1] = F[<<j, e[j]>>] /\ e[j] \in S
    BY <1>2, <2>1
  <2> HIDE DEF j
  <2>3. e[j + 1] = G[<<j + 1, e[j]>>]
    BY <2>1, <2>2
  <2> QED BY <2>1, <2>3 DEF j
<1> HIDE DEF F
<1> DEFINE h == [k \in 0..m |-> e[k]]
<1>4. h \in [0..m -> S] /\ h[0] = x
  BY <1>2
<1>5. ASSUME NEW k \in 1..m PROVE h[k] = G[<<k, h[k - 1]>>]
  <2>1. k \in 0..m /\ k - 1 \in 0..m
    OBVIOUS
  <2>2. h[k] = e[k] /\ h[k - 1] = e[k - 1]
    BY <2>1
  <2> QED BY <1>3, <2>2
<1> HIDE DEF h
<1> QED BY <1>4, <1>5 DEF Turns

-----------------------------------------------------------------------------
(* The FAT as what it says of each cluster.                                *)
Map(f, n) == [c \in Clus(n) |-> Get(f, c)]

(* Entry q[k] is put to x[k], for each k in turn.                          *)
Puts(h, f, q, x, m) ==
  h[0] = f /\ \A k \in 1..m : h[k] = Put12(h[k - 1], q[k], x[k])
PutsIn(q, m) == {q[j] : j \in 1..m}
Into(q, m, S) == \A k \in 1..m : q[k] \in S
Distinct(q, m) == \A k, l \in 1..m : q[k] = q[l] => k = l
CanPut(len, f, q, x, m) == \E h \in [0..m -> Fat(len)] : Puts(h, f, q, x, m)
Changed(n, f, g, q, x, m) ==
  /\ \A j \in 1..m : Map(g, n)[q[j]] = x[j]
  /\ \A c \in Clus(n) : c \notin PutsIn(q, m) => Map(g, n)[c] = Map(f, n)[c]

(* Writing an entry changes what the FAT says of that cluster only.        *)
LEMMA PutMap ==
  ASSUME NEW n \in Nat, NEW len \in Nat, FatHolds(n, len), NEW f \in Fat(len),
         NEW c \in Clus(n), NEW x \in Entries12
  PROVE  /\ Put12(f, c, x) \in Fat(len) /\ Map(Put12(f, c, x), n)[c] = x
         /\ \A d \in Clus(n) : d # c => Map(Put12(f, c, x), n)[d] = Map(f, n)[d]
<1>1. ASSUME NEW d \in Clus(n) PROVE d \in Nat /\ Within(d, len)
  <2>1. d \in Nat /\ d \in 0..n + 1
    BY DEF Clus
  <2> QED BY <2>1, EntriesInside
<1> DEFINE g == Put12(f, c, x)
<1>2. g \in Fat(len) /\ Get(g, c) = x
  BY <1>1, FatPutThenGet
<1>3. ASSUME NEW d \in Clus(n), d # c PROVE Get(g, d) = Get(f, d)
  BY <1>1, <1>3, FatPutKeepsOthers
<1> HIDE DEF g
<1> QED BY <1>2, <1>3 DEF Map, g

(* Entries can be written one after the other,                             *)
LEMMA PutsExist ==
  ASSUME NEW n \in Nat, NEW len \in Nat, FatHolds(n, len), NEW f \in Fat(len),
         NEW m \in Nat, NEW q, Into(q, m, Clus(n)), NEW x, Into(x, m, Entries12)
  PROVE  CanPut(len, f, q, x, m)
<1> USE DEF Into
<1> DEFINE G == [c \in (1..m) \X Fat(len) |-> Put12(c[2], q[c[1]], x[c[1]])]
<1>1. G \in [(1..m) \X Fat(len) -> Fat(len)]
  <2>1. ASSUME NEW c \in (1..m) \X Fat(len) PROVE Put12(c[2], q[c[1]], x[c[1]]) \in Fat(len)
    <3> DEFINE e == c[2]
               d == q[c[1]]
               y == x[c[1]]
    <3>1. e \in Fat(len) /\ d \in Clus(n) /\ y \in Entries12
      OBVIOUS
    <3> HIDE DEF e, d, y
    <3>2. Put12(e, d, y) \in Fat(len)
      BY <3>1, PutMap
    <3> QED BY <3>2 DEF e, d, y
  <2> QED BY <2>1
<1>2. ASSUME NEW k \in 1..m, NEW e \in Fat(len) PROVE G[<<k, e>>] = Put12(e, q[k], x[k])
  OBVIOUS
<1> HIDE DEF G
<1>3. PICK h \in [0..m -> Fat(len)] :
        h[0] = f /\ \A k \in 1..m : h[k] = G[<<k, h[k - 1]>>]
  <2>1. Turns(Fat(len), f, m, G)
    BY <1>1, Bounded
  <2> QED BY <2>1 DEF Turns
<1>4. ASSUME NEW k \in 1..m PROVE h[k] = Put12(h[k - 1], q[k], x[k])
  <2>1. k - 1 \in 0..m
    OBVIOUS
  <2>2. h[k - 1] \in Fat(len)
    BY <2>1
  <2> QED BY <1>2, <1>3, <2>2
<1> QED BY <1>3, <1>4 DEF Puts, CanPut

(* and then the FAT says of each cluster what was written last for it.     *)
LEMMA PutsResult ==
  ASSUME NEW n \in Nat, NEW len \in Nat, FatHolds(n, len), NEW f \in Fat(len),
         NEW m \in Nat, NEW q, Into(q, m, Clus(n)), Distinct(q, m),
         NEW x, Into(x, m, Entries12), NEW h, Puts(h, f, q, x, m)
  PROVE  h[m] \in Fat(len) /\ Changed(n, f, h[m], q, x, m)
<1> USE DEF Into, Distinct
<1> DEFINE P == {k \in Nat : k <= m => h[k] \in Fat(len) /\ Changed(n, f, h[k], q, x, k)}
<1>1. 0 \in P
  <2>1. h[0] = f
    BY DEF Puts
  <2>2. Changed(n, f, f, q, x, 0)
    BY DEF Changed
  <2> QED BY <2>1, <2>2
<1>2. ASSUME NEW k \in Nat, k \in P PROVE k + 1 \in P
  <2> DEFINE t == k + 1
  <2> SUFFICES ASSUME t <= m PROVE h[t] \in Fat(len) /\ Changed(n, f, h[t], q, x, t)
    OBVIOUS
  <2>1. t \in 1..m /\ t - 1 = k /\ k <= m /\ t \in Nat
    OBVIOUS
  <2>2. h[k] \in Fat(len) /\ Changed(n, f, h[k], q, x, k)
    BY <1>2, <2>1
  <2>3. h[t] = Put12(h[k], q[t], x[t]) /\ q[t] \in Clus(n) /\ x[t] \in Entries12
    <3>1. h[t] = Put12(h[t - 1], q[t], x[t])
      <4> HIDE DEF t
      <4> QED BY <2>1 DEF Puts
    <3>2. q[t] \in Clus(n) /\ x[t] \in Entries12
      <4> HIDE DEF t
      <4> QED BY <2>1
    <3> QED BY <2>1, <3>1, <3>2
  <2> DEFINE g == h[k]
             c == q[t]
             y == x[t]
             g2 == h[t]
  <2>4. /\ g2 \in Fat(len) /\ Map(g2, n)[c] = y
        /\ \A d \in Clus(n) : d # c => Map(g2, n)[d] = Map(g, n)[d]
    <3>1. g \in Fat(len) /\ c \in Clus(n) /\ y \in Entries12 /\ g2 = Put12(g, c, y)
      BY <2>2, <2>3
    <3> HIDE DEF g, c, y, g2
    <3> QED BY <3>1, PutMap
  <2>5. ASSUME NEW j \in 1..t PROVE Map(g2, n)[q[j]] = x[j]
    <3>1. CASE j = t
      BY <2>4, <3>1
    <3>2. CASE j # t
      <4>1. j \in 1..k /\ j \in 1..m /\ t \in 1..m
        BY <2>1, <3>2
      <4>2. q[j] \in Clus(n) /\ q[j] # c
        <5> HIDE DEF t
        <5> QED BY <3>2, <4>1 DEF c
      <4>3. Map(g, n)[q[j]] = x[j]
        BY <2>2, <4>1 DEF Changed
      <4> HIDE DEF g, g2, c
      <4> QED BY <2>4, <4>2, <4>3
    <3> QED BY <3>1, <3>2
  <2>6. ASSUME NEW d \in Clus(n), d \notin PutsIn(q, t) PROVE Map(g2, n)[d] = Map(f, n)[d]
    <3>1. d # c
      <4>1. t \in 1..t
        BY <2>1
      <4> HIDE DEF t
      <4> QED BY <2>6, <4>1 DEF PutsIn, c
    <3>2. d \notin PutsIn(q, k)
      <4>1. \A j \in 1..k : j \in 1..t
        BY <2>1
      <4> HIDE DEF t
      <4> QED BY <2>6, <4>1 DEF PutsIn
    <3>3. Map(g, n)[d] = Map(f, n)[d]
      BY <2>2, <3>2 DEF Changed
    <3> HIDE DEF g, g2, c
    <3> QED BY <2>4, <3>1, <3>3
  <2>7. Changed(n, f, g2, q, x, t)
    <3> HIDE DEF t, g2
    <3> QED BY <2>5, <2>6 DEF Changed
  <2> QED BY <2>4, <2>7
<1>3. \A k \in Nat : k \in P
  <2> HIDE DEF P
  <2> QED BY <1>1, <1>2, Induction
<1>4. m <= m
  OBVIOUS
<1> QED BY <1>3, <1>4

(* Giving back a chain: its clusters become free, the others stay.         *)
LEMMA FreeChainIs ==
  ASSUME NEW n \in Nat, NEW len \in Nat, FatHolds(n, len), NEW f \in Fat(len),
         NEW v, v.fats[1] = f, NEW c, NEW q, q = WholeChain(v, c),
         q \in Seq(Clus(n)), OneToOne(q)
  PROVE  \E g \in Fat(len) :
           /\ FreeChain(v, c) = PutAll(v, g)
           /\ \A d \in Named(q) : Map(g, n)[d] = 0
           /\ \A d \in Clus(n) : d \notin Named(q) => Map(g, n)[d] = Map(f, n)[d]
<1> DEFINE m == Len(q)
           x == [k \in 1..m |-> 0]
<1>1. /\ m \in Nat /\ \A k \in 1..m : q[k] \in Clus(n)
      /\ \A k, l \in 1..m : q[k] = q[l] => k = l
  BY LenProperties, ElementOfSeq DEF OneToOne
<1>2. \A k \in 1..m : x[k] = 0 /\ x[k] \in Entries12
  BY DEF Entries12
<1> HIDE DEF m, x
<1>3. PICK h \in [0..m -> Fat(len)] : Puts(h, f, q, x, m)
  <2>1. Into(q, m, Clus(n)) /\ Into(x, m, Entries12)
    BY <1>1, <1>2 DEF Into
  <2>2. CanPut(len, f, q, x, m)
    BY <1>1, <2>1, PutsExist
  <2> QED BY <2>2 DEF CanPut
<1> DEFINE Is(t) == t = [k \in 0..m |-> IF k = 0 THEN f ELSE Put12(t[k - 1], q[k], 0)]
           freed == CHOOSE t : Is(t)
<1>4. Is(h)
  <2>1. ASSUME NEW k \in 0..m PROVE h[k] = IF k = 0 THEN f ELSE Put12(h[k - 1], q[k], 0)
    <3>1. CASE k = 0
      BY <1>3, <3>1 DEF Puts
    <3>2. CASE k # 0
      <4>1. k \in 1..m
        BY <1>1, <3>2
      <4> QED BY <1>2, <1>3, <3>2, <4>1 DEF Puts
    <3> QED BY <3>1, <3>2
  <2>2. h = [k \in 0..m |-> h[k]]
    OBVIOUS
  <2> QED BY <2>1, <2>2
<1>5. Is(freed)
  <2> HIDE DEF Is
  <2> QED BY <1>4
<1>6. Puts(freed, f, q, x, m)
  <2> HIDE DEF freed
  <2>1. freed[0] = f
    BY <1>1, <1>5
  <2>2. ASSUME NEW k \in 1..m PROVE freed[k] = Put12(freed[k - 1], q[k], x[k])
    <3>1. k \in 0..m /\ k # 0
      BY <1>1
    <3> QED BY <1>2, <1>5, <3>1
  <2> QED BY <2>1, <2>2 DEF Puts
<1>7. FreeChain(v, c) = PutAll(v, freed[m])
  BY DEF FreeChain, m
<1> DEFINE g == freed[m]
<1> HIDE DEF freed
<1>8. g \in Fat(len) /\ Changed(n, f, g, q, x, m)
  <2>1. Into(q, m, Clus(n)) /\ Into(x, m, Entries12) /\ Distinct(q, m)
    BY <1>1, <1>2 DEF Into, Distinct
  <2>2. freed[m] \in Fat(len) /\ Changed(n, f, freed[m], q, x, m)
    BY <1>1, <1>6, <2>1, PutsResult
  <2> QED BY <2>2
<1>9. PutsIn(q, m) = Named(q)
  BY NamedIs DEF PutsIn, m
<1> HIDE DEF g
<1>10. ASSUME NEW d \in Named(q) PROVE Map(g, n)[d] = 0
  <2>1. PICK k \in 1..m : d = q[k]
    BY <1>9 DEF PutsIn
  <2> QED BY <1>2, <1>8, <2>1 DEF Changed
<1>11. \A d \in Clus(n) : d \notin Named(q) => Map(g, n)[d] = Map(f, n)[d]
  BY <1>8, <1>9 DEF Changed
<1> QED BY <1>7, <1>8, <1>10, <1>11 DEF g

(* Linking the clusters of a file: they become a chain, the others stay.   *)
LEMMA LinkedIs ==
  ASSUME NEW n \in Nat, n + 1 < 4095, NEW len \in Nat, FatHolds(n, len),
         NEW f \in Fat(len), NEW use \in Seq(Clus(n)), OneToOne(use), Len(use) >= 1,
         NEW g, g = Linked(f, use, Len(use))
  PROVE  /\ g \in Fat(len) /\ ChainOf(n, Map(g, n), use)
         /\ \A d \in Clus(n) : d \notin Named(use) => Map(g, n)[d] = Map(f, n)[d]
<1> DEFINE m == Len(use)
           x == [k \in 1..m |-> IF k = m THEN 4095 ELSE use[k + 1]]
<1>1. /\ m \in Nat /\ \A k \in 1..m : use[k] \in Clus(n)
      /\ \A k, l \in 1..m : use[k] = use[l] => k = l
  BY LenProperties, ElementOfSeq DEF OneToOne
<1>2. \A k \in 1..m : x[k] = IF k = m THEN 4095 ELSE use[k + 1]
  OBVIOUS
<1> HIDE DEF m, x
<1>3. ASSUME NEW k \in 1..m PROVE x[k] \in Entries12
  <2>1. CASE k = m
    BY <1>2, <2>1 DEF Entries12
  <2>2. CASE k # m
    <3>1. k + 1 \in 1..m
      BY <1>1, <2>2
    <3>2. use[k + 1] \in 2..n + 1
      BY <1>1, <3>1 DEF Clus
    <3> QED BY <1>2, <2>2, <3>2 DEF Entries12
  <2> QED BY <2>1, <2>2
<1>4. PICK h \in [0..m -> Fat(len)] : Puts(h, f, use, x, m)
  <2>1. Into(use, m, Clus(n)) /\ Into(x, m, Entries12)
    BY <1>1, <1>3 DEF Into
  <2>2. CanPut(len, f, use, x, m)
    BY <1>1, <2>1, PutsExist
  <2> QED BY <2>2 DEF CanPut
<1> DEFINE Is(t) == t = [i \in 0..m |->
                           IF i = 0 THEN f
                           ELSE Put12(t[i - 1], use[i], IF i = m THEN 4095 ELSE use[i + 1])]
           linked == CHOOSE t : Is(t)
           value(i) == IF i = m THEN 4095 ELSE use[i + 1]
<1>5. Is(h)
  <2>1. ASSUME NEW k \in 0..m
        PROVE  h[k] = IF k = 0 THEN f
                      ELSE Put12(h[k - 1], use[k], IF k = m THEN 4095 ELSE use[k + 1])
    <3>1. CASE k = 0
      BY <1>4, <3>1 DEF Puts
    <3>2. CASE k # 0
      <4>1. k \in 1..m
        BY <1>1, <3>2
      <4>2. h[k] = Put12(h[k - 1], use[k], x[k])
        BY <1>4, <4>1 DEF Puts
      <4>3. x[k] = IF k = m THEN 4095 ELSE use[k + 1]
        BY <1>2, <4>1
      <4> QED BY <3>2, <4>2, <4>3
    <3> QED BY <3>1, <3>2
  <2>2. h = [k \in 0..m |-> h[k]]
    OBVIOUS
  <2> QED BY <2>1, <2>2
<1>6. Is(linked)
  <2> HIDE DEF Is
  <2> QED BY <1>5
<1>7. Puts(linked, f, use, x, m)
  <2>0. linked = [i \in 0..m |-> IF i = 0 THEN f
                                 ELSE Put12(linked[i - 1], use[i], value(i))]
    BY <1>6
  <2> HIDE DEF linked
  <2>1. linked[0] = f
    BY <1>1, <2>0
  <2>2. ASSUME NEW k \in 1..m PROVE linked[k] = Put12(linked[k - 1], use[k], x[k])
    <3>1. k \in 0..m /\ k # 0
      BY <1>1
    <3>2. x[k] = value(k)
      BY <1>2
    <3> HIDE DEF value
    <3>3. linked[k] = Put12(linked[k - 1], use[k], value(k))
      BY <2>0, <3>1
    <3> QED BY <3>2, <3>3
  <2> QED BY <2>1, <2>2 DEF Puts
<1>8. g = linked[m]
  BY DEF Linked, m
<1> HIDE DEF linked, value
<1>9. g \in Fat(len) /\ Changed(n, f, g, use, x, m)
  <2>1. Into(use, m, Clus(n)) /\ Into(x, m, Entries12) /\ Distinct(use, m)
    BY <1>1, <1>3 DEF Into, Distinct
  <2>4. linked[m] \in Fat(len) /\ Changed(n, f, linked[m], use, x, m)
    BY <1>1, <1>7, <2>1, PutsResult
  <2> QED BY <1>8, <2>4
<1>10. PutsIn(use, m) = Named(use)
  BY NamedIs DEF PutsIn, m
<1>11. ASSUME NEW k \in 1..m PROVE Map(g, n)[use[k]] = IF k = m THEN 4095 ELSE use[k + 1]
  BY <1>2, <1>9 DEF Changed
<1>12. ChainOf(n, Map(g, n), use)
  <2>1. m >= 1
    BY DEF m
  <2> DEFINE w == Map(g, n)
  <2>2. \A k \in 1..m : w[use[k]] = IF k = m THEN 4095 ELSE use[k + 1]
    BY <1>11
  <2> HIDE DEF w
  <2>3. ChainOf(n, w, use)
    BY <2>1, <2>2 DEF ChainOf, m
  <2> QED BY <2>3 DEF w
<1>13. \A d \in Clus(n) : d \notin Named(use) => Map(g, n)[d] = Map(f, n)[d]
  BY <1>9, <1>10 DEF Changed
<1> QED BY <1>9, <1>12, <1>13

-----------------------------------------------------------------------------
(* Scans: what passes a test is appended, in order.                        *)
Scans(h, T, val, m) ==
  h[0] = <<>> /\ \A k \in 1..m :
                   h[k] = IF k \in T THEN Append(h[k - 1], val[k]) ELSE h[k - 1]

(* A scan has a result,                                                    *)
LEMMA ScanExists ==
  ASSUME NEW S, NEW m \in Nat, NEW T, NEW val, \A k \in T : val[k] \in S
  PROVE  \E h \in [0..m -> Seq(S)] : Scans(h, T, val, m)
<1> DEFINE Q == Seq(S)
           G == [c \in (1..m) \X Seq(S) |->
                   IF c[1] \in T THEN Append(c[2], val[c[1]]) ELSE c[2]]
<1>1. G \in [(1..m) \X Seq(S) -> Seq(S)]
  <2>1. ASSUME NEW c \in (1..m) \X Seq(S)
        PROVE  (IF c[1] \in T THEN Append(c[2], val[c[1]]) ELSE c[2]) \in Seq(S)
    <3> DEFINE e == c[2]
               y == val[c[1]]
    <3>1. e \in Seq(S) /\ (c[1] \in T => y \in S)
      OBVIOUS
    <3> HIDE DEF e, y
    <3>2. c[1] \in T => Append(e, y) \in Seq(S)
      BY <3>1, AppendProperties
    <3> QED BY <3>1, <3>2 DEF e, y
  <2> QED BY <2>1
<1>2. ASSUME NEW k \in 1..m, NEW e \in Seq(S)
      PROVE  G[<<k, e>>] = IF k \in T THEN Append(e, val[k]) ELSE e
  OBVIOUS
<1> HIDE DEF G
<1>3. <<>> \in Seq(S)
  BY EmptySeq
<1> DEFINE zero == <<>>
<1>4. zero \in Seq(S)
  BY <1>3
<1> HIDE DEF zero
<1>5. PICK h \in [0..m -> Seq(S)] :
        h[0] = zero /\ \A k \in 1..m : h[k] = G[<<k, h[k - 1]>>]
  <2>1. G \in [(1..m) \X Q -> Q] /\ zero \in Q
    BY <1>1, <1>4
  <2> HIDE DEF Q
  <2>2. Turns(Q, zero, m, G)
    BY <2>1, Bounded
  <2> QED BY <2>2 DEF Q, Turns
<1>6. ASSUME NEW k \in 1..m
      PROVE  h[k] = IF k \in T THEN Append(h[k - 1], val[k]) ELSE h[k - 1]
  <2>1. k - 1 \in 0..m
    OBVIOUS
  <2>2. h[k - 1] \in Seq(S)
    BY <2>1
  <2> QED BY <1>2, <1>5, <2>2
<1> QED BY <1>5, <1>6 DEF Scans, zero

Scanned(S, s, T, val, k) ==
  /\ s \in Seq(S)
  /\ \A i \in 1..Len(s) : \E t \in T : t \in 1..k /\ s[i] = val[t]
  /\ \A t \in T : t \in 1..k => \E i \in 1..Len(s) : s[i] = val[t]
  /\ OneToOne(s)

(* and the result has the values that pass the test, each once.            *)
LEMMA ScanResult ==
  ASSUME NEW S, NEW m \in Nat, NEW T \in SUBSET Nat, NEW val,
         \A k \in T : val[k] \in S, \A k, l \in T : val[k] = val[l] => k = l,
         NEW h, Scans(h, T, val, m)
  PROVE  Scanned(S, h[m], T, val, m)
<1> DEFINE P == {k \in Nat : k <= m => Scanned(S, h[k], T, val, k)}
<1>1. 0 \in P
  <2>1. h[0] = <<>>
    BY DEF Scans
  <2> DEFINE s == <<>>
  <2>2. s \in Seq(S) /\ Len(s) = 0
    BY EmptySeq
  <2> HIDE DEF s
  <2>3. Scanned(S, s, T, val, 0)
    BY <2>2 DEF Scanned, OneToOne
  <2> QED BY <2>1, <2>3 DEF s
<1>2. ASSUME NEW k \in Nat, k \in P PROVE k + 1 \in P
  <2> DEFINE t == k + 1
             s == h[k]
             r == h[t]
  <2> SUFFICES ASSUME t <= m PROVE Scanned(S, r, T, val, t)
    OBVIOUS
  <2>1. t \in 1..m /\ t - 1 = k /\ k <= m /\ t \in Nat
    OBVIOUS
  <2>2. Scanned(S, s, T, val, k)
    BY <1>2, <2>1
  <2>3. r = IF t \in T THEN Append(s, val[t]) ELSE s
    <3>1. h[t] = IF t \in T THEN Append(h[t - 1], val[t]) ELSE h[t - 1]
      <4> HIDE DEF t
      <4> QED BY <2>1 DEF Scans
    <3> QED BY <2>1, <3>1
  <2>4. \A j \in Nat : j \in 1..t <=> j \in 1..k \/ j = t
    BY <2>1
  <2>5. t \notin 1..k /\ t \in 1..t
    BY <2>1
  <2> HIDE DEF t, s, r
  <2>6. CASE t \notin T
    <3>1. r = s
      BY <2>3, <2>6
    <3>2. \A j \in T : j \in 1..t <=> j \in 1..k
      BY <2>4, <2>6
    <3> QED BY <2>2, <3>1, <3>2 DEF Scanned
  <2>7. CASE t \in T
    <3> DEFINE y == val[t]
    <3>1. y \in S /\ r = Append(s, y) /\ s \in Seq(S)
      BY <2>2, <2>3, <2>7 DEF Scanned
    <3> HIDE DEF y
    <3>2. /\ r \in Seq(S) /\ Len(r) = Len(s) + 1 /\ Len(s) \in Nat
          /\ \A i \in 1..Len(s) : r[i] = s[i]
          /\ r[Len(s) + 1] = y
      BY <3>1, AppendProperties, LenProperties
    <3> DEFINE l == Len(s)
               o == l + 1
    <3>3. /\ l \in Nat /\ Len(r) = o /\ r[o] = y /\ o \in 1..o
          /\ \A i \in 1..o : i \in 1..l \/ i = o
          /\ \A i \in 1..l : i \in 1..o /\ i # o /\ r[i] = s[i]
      BY <3>2
    <3>4. /\ \A i \in 1..l : \E j \in T : j \in 1..k /\ s[i] = val[j]
          /\ \A j \in T : j \in 1..k => \E i \in 1..l : s[i] = val[j]
          /\ \A i, j \in 1..l : s[i] = s[j] => i = j
      BY <2>2 DEF Scanned, OneToOne
    <3> HIDE DEF l, o
    <3>5. ASSUME NEW i \in 1..o PROVE \E j \in T : j \in 1..t /\ r[i] = val[j]
      <4>1. CASE i = o
        BY <2>5, <2>7, <3>3, <4>1 DEF y
      <4>2. CASE i # o
        <5>1. i \in 1..l /\ r[i] = s[i]
          BY <3>3, <4>2
        <5>2. PICK j \in T : j \in 1..k /\ s[i] = val[j]
          BY <3>4, <5>1
        <5> QED BY <2>4, <5>1, <5>2
      <4> QED BY <4>1, <4>2
    <3>6. ASSUME NEW j \in T, j \in 1..t PROVE \E i \in 1..o : r[i] = val[j]
      <4>1. CASE j = t
        BY <3>3, <4>1 DEF y
      <4>2. CASE j # t
        <5>1. j \in 1..k
          BY <2>4, <3>6, <4>2
        <5>2. PICK i \in 1..l : s[i] = val[j]
          BY <3>4, <5>1
        <5> QED BY <3>3, <5>2
      <4> QED BY <4>1, <4>2
    <3>7. ASSUME NEW i \in 1..l PROVE s[i] # y
      <4>1. PICK j \in T : j \in 1..k /\ s[i] = val[j]
        BY <3>4
      <4>2. j # t
        BY <2>5, <4>1
      <4> QED BY <2>7, <4>1, <4>2 DEF y
    <3>8. ASSUME NEW i \in 1..o, NEW j \in 1..o, r[i] = r[j] PROVE i = j
      <4>1. CASE i = o /\ j = o
        BY <4>1
      <4>2. CASE i # o /\ j # o
        BY <3>3, <3>4, <3>8, <4>2
      <4>3. CASE i = o /\ j # o
        BY <3>3, <3>7, <3>8, <4>3
      <4>4. CASE i # o /\ j = o
        BY <3>3, <3>7, <3>8, <4>4
      <4> QED BY <4>1, <4>2, <4>3, <4>4
    <3>9. OneToOne(r)
      BY <3>3, <3>8 DEF OneToOne
    <3> QED BY <3>2, <3>3, <3>5, <3>6, <3>9 DEF Scanned
  <2> QED BY <2>6, <2>7
<1>3. \A k \in Nat : k \in P
  <2> HIDE DEF P
  <2> QED BY <1>1, <1>2, Induction
<1>4. m <= m
  OBVIOUS
<1> QED BY <1>3, <1>4

(* What addfile finds free is free, and nothing is found twice.            *)
LEMMA FreeClustersAre ==
  ASSUME NEW n \in Nat, NEW f, NEW s, s = FreeClusters(f, n)
  PROVE  /\ s \in Seq(Clus(n)) /\ OneToOne(s)
         /\ \A c \in Named(s) : c \in Clus(n) /\ Map(f, n)[c] = 0
<1> DEFINE T == {k \in 1..n : Get(f, k + 1) = 0}
           val == [k \in 1..n |-> k + 1]
<1>1. /\ T \in SUBSET Nat /\ \A k \in T : k \in 1..n /\ val[k] \in Clus(n)
      /\ \A k, l \in T : val[k] = val[l] => k = l
  BY DEF Clus
<1>2. ASSUME NEW k \in 1..n
      PROVE  val[k] = k + 1 /\ (k \in T <=> Get(f, k + 1) = 0)
  OBVIOUS
<1> HIDE DEF T, val
<1>3. PICK h \in [0..n -> Seq(Clus(n))] : Scans(h, T, val, n)
  <2>1. \A k \in T : val[k] \in Clus(n)
    BY <1>1
  <2> QED BY <2>1, ScanExists
<1> DEFINE Is(t) == t = [k \in 0..n |->
                 IF k = 0 THEN <<>>
                 ELSE IF Get(f, k + 1) = 0 THEN Append(t[k - 1], k + 1) ELSE t[k - 1]]
           found == CHOOSE t : Is(t)
<1>4. Is(h)
  <2>1. ASSUME NEW k \in 0..n
        PROVE  h[k] = IF k = 0 THEN <<>>
                      ELSE IF Get(f, k + 1) = 0 THEN Append(h[k - 1], k + 1) ELSE h[k - 1]
    <3>1. CASE k = 0
      BY <1>3, <3>1 DEF Scans
    <3>2. CASE k # 0
      <4>1. k \in 1..n
        BY <3>2
      <4>2. h[k] = IF k \in T THEN Append(h[k - 1], val[k]) ELSE h[k - 1]
        BY <1>3, <4>1 DEF Scans
      <4>3. val[k] = k + 1 /\ (k \in T <=> Get(f, k + 1) = 0)
        BY <1>2, <4>1
      <4> QED BY <3>2, <4>2, <4>3
    <3> QED BY <3>1, <3>2
  <2>2. h = [k \in 0..n |-> h[k]]
    OBVIOUS
  <2> QED BY <2>1, <2>2
<1>5. Is(found)
  <2> HIDE DEF Is
  <2> QED BY <1>4
<1>6. Scans(found, T, val, n)
  <2> HIDE DEF found
  <2>1. found[0] = <<>>
    BY <1>5
  <2>2. ASSUME NEW k \in 1..n
        PROVE  found[k] = IF k \in T THEN Append(found[k - 1], val[k]) ELSE found[k - 1]
    <3>1. k \in 0..n /\ k # 0
      OBVIOUS
    <3>2. val[k] = k + 1 /\ (k \in T <=> Get(f, k + 1) = 0)
      BY <1>2
    <3>3. found[k] = IF Get(f, k + 1) = 0 THEN Append(found[k - 1], k + 1) ELSE found[k - 1]
      BY <1>5, <3>1
    <3> QED BY <3>2, <3>3
  <2> QED BY <2>1, <2>2 DEF Scans
<1>7. s = found[n]
  BY DEF FreeClusters
<1> HIDE DEF found
<1> DEFINE S == Clus(n)
<1>8. \A k \in T : val[k] \in S
  BY <1>1
<1>9. Scanned(S, s, T, val, n)
  <2> HIDE DEF S
  <2> QED BY <1>1, <1>6, <1>7, <1>8, ScanResult
<1>10. ASSUME NEW c \in Named(s) PROVE c \in Clus(n) /\ Map(f, n)[c] = 0
  <2>1. PICK i \in 1..Len(s) : c = s[i]
    <3>1. s \in Seq(Clus(n))
      BY <1>9 DEF Scanned
    <3> QED BY <3>1, NamedIs
  <2>2. PICK k \in T : s[i] = val[k]
    BY <1>9, <2>1 DEF Scanned
  <2>3. c \in Clus(n) /\ Get(f, c) = 0
    BY <1>1, <1>2, <2>1, <2>2
  <2> QED BY <2>3 DEF Map
<1> QED BY <1>9, <1>10 DEF Scanned

(* The first k clusters of a chain.                                        *)
First(q, k) == IF k <= Len(q) THEN SubSeq(q, 1, k) ELSE q

IsFirst(p, S, q, k) ==
  /\ p \in Seq(S)
  /\ k <= Len(q) => Len(p) = k
  /\ k >= Len(q) => p = q
  /\ \A i \in 1..k : i <= Len(q) => p[i] = q[i]

LEMMA FirstIs ==
  ASSUME NEW S, NEW q \in Seq(S), NEW k \in Nat, NEW p, p = First(q, k)
  PROVE  IsFirst(p, S, q, k)
<1> DEFINE l == Len(q)
           sub == SubSeq(q, 1, k)
<1>1. l \in Nat /\ \A i \in 1..l : q[i] \in S
  BY LenProperties, ElementOfSeq
<1>2. CASE k <= l
  <2>1. \A i \in 1..k : q[i] \in S
    BY <1>1, <1>2
  <2> DEFINE one == 1
  <2>2. one \in Int /\ one = 1
    OBVIOUS
  <2> HIDE DEF one
  <2>3. /\ SubSeq(q, one, k) \in Seq(S)
        /\ Len(SubSeq(q, one, k)) = IF one <= k THEN k - one + 1 ELSE 0
        /\ \A i \in 1..k - one + 1 : SubSeq(q, one, k)[i] = q[one + i - 1]
    BY <2>1, <2>2, SubSeqProperties
  <2>4. sub \in Seq(S) /\ Len(sub) = k /\ \A i \in 1..k : sub[i] = q[i]
    BY <2>2, <2>3
  <2>5. p = sub
    BY <1>2 DEF First
  <2>6. k = l => sub = q
    BY SubSeqFull
  <2> HIDE DEF sub
  <2>7. k >= l => k = l
    BY <1>1, <1>2
  <2> QED BY <2>4, <2>5, <2>6, <2>7 DEF IsFirst
<1>3. CASE ~(k <= l)
  <2>1. p = q
    BY <1>3 DEF First
  <2> QED BY <1>3, <2>1 DEF IsFirst
<1> QED BY <1>2, <1>3

(* What Chain reads along a chain: it all, if it may read as many.         *)
LEMMA ChainRead ==
  ASSUME NEW n \in Nat, n + 1 < ENDMARKS, NEW f, NEW q, ChainOf(n, Map(f, n), q),
         NEW m \in Nat, Len(q) <= m
  PROVE  Chain(f, q[1], m) = q
<1> DEFINE l == Len(q)
           c == q[1]
<1>1. q \in Seq(Clus(n)) /\ l \in Nat /\ l >= 1 /\ ENDMARKS \in 3..4088
  BY VolumeTypes, LenProperties DEF ChainOf
<1>2. ASSUME NEW k \in 1..l
      PROVE  /\ q[k] \in 2..ENDMARKS - 1 /\ q[k] \in Clus(n)
             /\ Get(f, q[k]) = IF k = l THEN 4095 ELSE q[k + 1]
  <2>1. q[k] \in Clus(n)
    BY <1>1, ElementOfSeq
  <2>2. Map(f, n)[q[k]] = IF k = l THEN 4095 ELSE q[k + 1]
    BY DEF ChainOf
  <2>3. Get(f, q[k]) = IF k = l THEN 4095 ELSE q[k + 1]
    BY <2>1, <2>2 DEF Map
  <2> QED BY <1>1, <2>1, <2>3 DEF Clus
<1>3. 4095 \notin 2..ENDMARKS - 1
  BY <1>1
<1> DEFINE next(k, s) == IF k = 1 THEN c ELSE Get(f, s[k - 1])
           after(k, s) == IF Len(s) = k - 1 /\ next(k, s) \in 2..ENDMARKS - 1
                          THEN Append(s, next(k, s)) ELSE s
<1>4. ASSUME NEW k \in 1..m PROVE after(k, First(q, k - 1)) = First(q, k)
  <2> DEFINE j == k - 1
             s == First(q, j)
             t == First(q, k)
  <2>1. j \in Nat /\ k \in Nat /\ j + 1 = k
    OBVIOUS
  <2> HIDE DEF j
  <2>2. /\ s \in Seq(Clus(n)) /\ (j <= l => Len(s) = j) /\ (j >= l => s = q)
        /\ \A i \in 1..j : i <= l => s[i] = q[i]
    <3>1. IsFirst(s, Clus(n), q, j)
      BY <1>1, <2>1, FirstIs
    <3> QED BY <3>1 DEF IsFirst
  <2>3. /\ t \in Seq(Clus(n)) /\ (k <= l => Len(t) = k) /\ (k >= l => t = q)
        /\ \A i \in 1..k : i <= l => t[i] = q[i]
    <3>1. IsFirst(t, Clus(n), q, k)
      BY <1>1, <2>1, FirstIs
    <3> QED BY <3>1 DEF IsFirst
  <2> HIDE DEF s, t
  <2>4. CASE k <= l
    <3>1. Len(s) = j /\ k \in 1..l
      BY <1>1, <2>1, <2>2, <2>4
    <3>2. next(k, s) = q[k]
      <4>1. CASE k = 1
        BY <4>1
      <4>2. CASE k # 1
        <5>1. j \in 1..j /\ j <= l /\ j \in 1..l /\ j # l /\ k - 1 = j
          BY <1>1, <2>1, <2>4, <4>2
        <5>2. s[j] = q[j] /\ Get(f, q[j]) = q[k]
          BY <1>2, <2>1, <2>2, <5>1
        <5> QED BY <4>2, <5>1, <5>2
      <4> QED BY <4>1, <4>2
    <3>3. q[k] \in 2..ENDMARKS - 1 /\ q[k] \in Clus(n)
      BY <1>2, <3>1
    <3>4. after(k, s) = Append(s, q[k])
      BY <2>1, <3>1, <3>2, <3>3
    <3> DEFINE x == q[k]
               r == Append(s, x)
    <3>5. /\ r \in Seq(Clus(n)) /\ Len(r) = Len(s) + 1
          /\ (\A i \in 1..Len(s) : r[i] = s[i]) /\ r[Len(s) + 1] = x
      <4>1. x \in Clus(n)
        BY <3>3
      <4> HIDE DEF x
      <4> QED BY <2>2, <4>1, AppendProperties
    <3> HIDE DEF r
    <3>6. Len(r) = k /\ Len(t) = k /\ r[k] = x
      BY <2>1, <2>3, <2>4, <3>1, <3>5
    <3>7. ASSUME NEW i \in 1..k PROVE r[i] = t[i]
      <4>1. t[i] = q[i]
        BY <2>3, <2>4
      <4>2. CASE i = k
        BY <3>6, <4>1, <4>2 DEF x
      <4>3. CASE i # k
        <5>1. i \in 1..j /\ i <= l
          BY <2>1, <2>4, <4>3
        <5>2. r[i] = s[i] /\ s[i] = q[i]
          BY <2>2, <3>1, <3>5, <5>1
        <5> QED BY <4>1, <5>2
      <4> QED BY <4>2, <4>3
    <3>8. r = t
      BY <2>3, <3>5, <3>6, <3>7, SeqEqual
    <3> QED BY <3>4, <3>8 DEF r, x, s, t, j
  <2>5. CASE k = l + 1
    <3>1. s = q /\ t = q /\ Len(s) = j /\ j = l
      BY <1>1, <2>1, <2>2, <2>3, <2>5
    <3>2. k # 1 /\ k - 1 = l /\ l \in 1..l
      BY <1>1, <2>5
    <3>3. next(k, s) = 4095
      BY <1>2, <3>1, <3>2
    <3>4. after(k, s) = s
      BY <1>3, <3>3
    <3> QED BY <3>1, <3>4 DEF s, t, j
  <2>6. CASE k > l + 1
    <3>1. s = q /\ t = q /\ Len(s) # k - 1
      BY <1>1, <2>1, <2>2, <2>3, <2>6
    <3>2. after(k, s) = s
      BY <3>1
    <3> QED BY <3>1, <3>2 DEF s, t, j
  <2> QED BY <1>1, <2>4, <2>5, <2>6
<1>5. First(q, 0) = <<>>
  <2>1. 0 <= l
    BY <1>1
  <2> QED BY <2>1, SubSeqEmpty DEF First
<1> DEFINE Is(t) == t = [k \in 0..m |->
                 IF k = 0 THEN <<>>
                 ELSE LET s == t[k - 1]
                          d == IF k = 1 THEN c ELSE Get(f, s[k - 1])
                      IN IF Len(s) = k - 1 /\ d \in 2..ENDMARKS - 1 THEN Append(s, d) ELSE s]
           read == CHOOSE t : Is(t)
           h == [k \in 0..m |-> First(q, k)]
<1>6. \A t : Is(t) <=> t = [k \in 0..m |-> IF k = 0 THEN <<>> ELSE after(k, t[k - 1])]
  OBVIOUS
<1> HIDE DEF after, Is
<1>7. Is(h)
  <2>1. ASSUME NEW k \in 0..m
        PROVE  h[k] = IF k = 0 THEN <<>> ELSE after(k, h[k - 1])
    <3>1. CASE k = 0
      BY <1>5, <3>1
    <3>2. CASE k # 0
      <4>1. k \in 1..m /\ k - 1 \in 0..m
        BY <3>2
      <4>2. h[k] = First(q, k) /\ h[k - 1] = First(q, k - 1)
        BY <4>1
      <4> QED BY <1>4, <3>2, <4>1, <4>2
    <3> QED BY <3>1, <3>2
  <2>2. h = [k \in 0..m |-> h[k]]
    OBVIOUS
  <2> HIDE DEF h
  <2>3. h = [k \in 0..m |-> IF k = 0 THEN <<>> ELSE after(k, h[k - 1])]
    BY <2>1, <2>2
  <2> QED BY <1>6, <2>3
<1>8. Is(read)
  <2> HIDE DEF h
  <2> QED BY <1>7
<1>9. read = [k \in 0..m |-> IF k = 0 THEN <<>> ELSE after(k, read[k - 1])]
  <2> HIDE DEF read
  <2> QED BY <1>6, <1>8
<1>10. Chain(f, c, m) = read[m]
  BY DEF Chain, Is
<1> HIDE DEF read
<1> DEFINE P == {k \in Nat : k <= m => read[k] = First(q, k)}
<1>11. 0 \in P
  BY <1>5, <1>9
<1>12. ASSUME NEW k \in Nat, k \in P PROVE k + 1 \in P
  <2> DEFINE t == k + 1
  <2> SUFFICES ASSUME t <= m PROVE read[t] = First(q, t)
    OBVIOUS
  <2>1. t \in 1..m /\ t \in 0..m /\ t # 0 /\ t - 1 = k /\ k <= m
    OBVIOUS
  <2>2. read[k] = First(q, k)
    BY <1>12, <2>1
  <2> HIDE DEF t
  <2>3. read[t] = after(t, read[t - 1])
    BY <1>9, <2>1
  <2>4. after(t, First(q, t - 1)) = First(q, t)
    BY <1>4, <2>1
  <2> QED BY <2>1, <2>2, <2>3, <2>4
<1>13. \A k \in Nat : k \in P
  <2> HIDE DEF P
  <2> QED BY <1>11, <1>12, Induction
<1>14. read[m] = First(q, m)
  <2>1. m <= m
    OBVIOUS
  <2> QED BY <1>13, <2>1
<1>15. First(q, m) = q
  <2> DEFINE p == First(q, m)
  <2> HIDE DEF p
  <2>1. IsFirst(p, Clus(n), q, m)
    BY <1>1, FirstIs DEF p
  <2> QED BY <1>1, <2>1 DEF IsFirst, p
<1> QED BY <1>10, <1>14, <1>15

(* A chain of different clusters is no longer than there are clusters.     *)
LEMMA ChainFits ==
  ASSUME NEW n \in Nat, NEW q \in Seq(Clus(n)), OneToOne(q)
  PROVE  Cardinality(Clus(n)) = n /\ Len(q) <= n
<1> DEFINE S == Clus(n)
           D == 1..Len(q)
<1>1. IsFiniteSet(S) /\ Cardinality(S) = n
  <2> DEFINE a == 2
             b == n + 1
  <2>1. a \in Int /\ b \in Int /\ (IF a > b THEN 0 ELSE b - a + 1) = n /\ S = a..b
    BY DEF Clus
  <2> HIDE DEF a, b, S
  <2>2. IsFiniteSet(a..b) /\ Cardinality(a..b) = IF a > b THEN 0 ELSE b - a + 1
    BY <2>1, FS_Interval
  <2> QED BY <2>1, <2>2
<1>2. Len(q) \in Nat /\ q \in [D -> S]
  BY LenProperties
<1>3. IsFiniteSet(D) /\ Cardinality(D) = Len(q)
  <2> DEFINE a == 1
             b == Len(q)
  <2>1. a \in Int /\ b \in Int /\ (IF a > b THEN 0 ELSE b - a + 1) = b /\ D = a..b
    BY <1>2
  <2> HIDE DEF a, b, D
  <2>2. IsFiniteSet(a..b) /\ Cardinality(a..b) = IF a > b THEN 0 ELSE b - a + 1
    BY <2>1, FS_Interval
  <2> QED BY <2>1, <2>2 DEF b
<1>4. q \in Injection(D, S)
  <2>1. DOMAIN q = D
    BY <1>2
  <2> QED BY <1>2, <2>1 DEF Injection, IsInjective, OneToOne
<1>5. Cardinality(D) <= Cardinality(S)
  <2> HIDE DEF D, S
  <2> QED BY <1>1, <1>4, FS_Injection
<1> QED BY <1>1, <1>3, <1>5

-----------------------------------------------------------------------------
(* The directory.  E is the set of its entries in use.                     *)
Dirent(name, q, b) == [name |-> name, first |-> q[1], size |-> Len(b)]
NamesOf(root, E) == {root[i].name : i \in E}
Listed(root, E, ch, body, fls) ==
  /\ \A i \in E : root[i] = Dirent(root[i].name, ch[i], body[i])
  /\ \A i, j \in E : root[i].name = root[j].name => i = j
  /\ fls = [name \in NamesOf(root, E) |-> fls[name]]
  /\ \A i \in E : fls[root[i].name] = body[i]

(* A packed FAT is made of bytes.                                          *)
LEMMA PackType ==
  ASSUME NEW n \in Nat, NEW fat \in [0..n - 1 -> Entries12], NEW len \in Nat
  PROVE  Pack(fat, len) \in Fat(len)
<1> DEFINE g == Pack(fat, len)
<1>1. ASSUME NEW b \in 0..len - 1 PROVE g[b] \in Byte
  <2>1. PICK k \in Nat : k = b \div 3
    OBVIOUS
  <2>2. 2 * k \in Nat /\ 2 * k + 1 \in Nat
    BY <2>1
  <2>3. PICK lo \in Nat, hi \in Nat :
          lo < 4096 /\ hi < 4096 /\ lo = Entry(fat, 2 * k) /\ hi = Entry(fat, 2 * k + 1)
    BY <2>2, EntryRange
  <2>4. g[b] = CASE b % 3 = 0 -> LowByte(lo, hi)
                 [] b % 3 = 1 -> MiddleByte(lo, hi)
                 [] OTHER -> HighByte(lo, hi)
    BY <2>1, <2>3 DEF Pack
  <2>5. LowByte(lo, hi) \in Byte /\ MiddleByte(lo, hi) \in Byte /\ HighByte(lo, hi) \in Byte
    <3>0. lo < 4096 /\ hi < 4096
      BY <2>3
    <3>1. lo % 256 \in 0..255 /\ hi \div 16 \in 0..255
      BY ONLY <3>0, lo \in Nat, hi \in Nat
    <3>2. lo \div 256 \in 0..15 /\ hi % 16 \in 0..15
      BY ONLY <3>0, lo \in Nat, hi \in Nat
    <3>3. lo \div 256 + 16 * (hi % 16) \in 0..255
      BY <3>2
    <3> QED BY <3>1, <3>3 DEF LowByte, MiddleByte, HighByte, Byte
  <2> HIDE DEF g
  <2> QED BY <2>4, <2>5
<1> QED BY <1>1 DEF Fat, Pack

-----------------------------------------------------------------------------
(* A file that gets clusters in a row.                                     *)
Row(first, need) == [j \in 1..need |-> first + j - 1]
RowFat(fat, first, last) ==
  [c \in DOMAIN fat |-> IF c \notin first..last THEN fat[c]
                        ELSE IF c < last THEN c + 1 ELSE 4095]
RowSect(sect, at, b) ==
  [s \in DOMAIN sect |-> IF s - at \in 0..Len(b) - 1 THEN b[s - at + 1] ELSE sect[s]]

RowEnd(first, need) == first + need - 1
RowAt(first, spc) == (first - 2) * spc
Table(fat, n) == fat \in [0..n + 1 -> Entries12]

(* Clusters in a row are a chain of different clusters.                    *)
LEMMA RowIs ==
  ASSUME NEW first \in Nat, NEW need \in Nat, NEW n \in Nat, first >= 2,
         NEW last, last = RowEnd(first, need), last <= n + 1, NEW q, q = Row(first, need)
  PROVE  /\ q \in Seq(Clus(n)) /\ Len(q) = need /\ OneToOne(q)
         /\ Named(q) = first..last
<1> USE DEF RowEnd
<1>1. ASSUME NEW j \in 1..need PROVE q[j] = first + j - 1 /\ q[j] \in Clus(n)
  BY DEF Row, Clus
<1>2. q \in [1..need -> Clus(n)]
  BY <1>1 DEF Row
<1>3. q \in Seq(Clus(n))
  BY <1>2, SeqDef
<1>4. Len(q) = need
  <2>1. DOMAIN q = 1..need
    BY <1>2
  <2>2. Len(q) \in Nat /\ DOMAIN q = 1..Len(q)
    BY <1>3, LenProperties
  <2>3. 1..need = 1..Len(q)
    BY <2>1, <2>2
  <2> DEFINE l == Len(q)
  <2> HIDE DEF l
  <2>4. l \in Nat /\ 1..need = 1..l
    BY <2>2, <2>3 DEF l
  <2>5. ~(need < l)
    <3> SUFFICES ASSUME need < l PROVE FALSE
      OBVIOUS
    <3>1. l \in 1..l /\ l \notin 1..need
      BY <2>4
    <3> QED BY <2>4, <3>1
  <2>6. ~(l < need)
    <3> SUFFICES ASSUME l < need PROVE FALSE
      OBVIOUS
    <3>1. need \in 1..need /\ need \notin 1..l
      BY <2>4
    <3> QED BY <2>4, <3>1
  <2>7. l = need
    BY <2>4, <2>5, <2>6
  <2> QED BY <2>7 DEF l
<1>5. OneToOne(q)
  BY <1>1, <1>4 DEF OneToOne
<1>6. ASSUME NEW c \in first..first + need - 1 PROVE c \in Named(q)
  <2> DEFINE j == c - first + 1
  <2>1. j \in 1..need /\ first + j - 1 = c
    OBVIOUS
  <2> HIDE DEF j
  <2>2. q[j] = c /\ j \in DOMAIN q
    BY <1>1, <1>2, <2>1
  <2> QED BY <2>2 DEF Named
<1>7. ASSUME NEW c \in Named(q) PROVE c \in first..first + need - 1
  <2>1. PICK j \in 1..need : c = q[j]
    BY <1>2 DEF Named
  <2> QED BY <1>1, <2>1
<1> QED BY <1>3, <1>4, <1>5, <1>6, <1>7

(* Linking a row in the table makes it a chain and leaves the others.      *)
LEMMA RowChain ==
  ASSUME NEW first \in Nat, NEW need \in Nat, NEW n \in Nat, first >= 2, need >= 1,
         NEW last, last = RowEnd(first, need), last <= n + 1, n + 1 < 4095,
         NEW q, q = Row(first, need), NEW fat, Table(fat, n),
         NEW fat2, fat2 = RowFat(fat, first, last)
  PROVE  Table(fat2, n) /\ ChainOf(n, fat2, q) /\ Untouched(n, fat, fat2, q)
<1> USE DEF RowEnd, Table
<1>1. /\ q \in Seq(Clus(n)) /\ Len(q) = need /\ Named(q) = first..last
  BY RowIs
<1>2. last \in Nat /\ last <= n + 1
  OBVIOUS
<1>3. ASSUME NEW c \in 0..n + 1
      PROVE  /\ fat2[c] = IF c \notin first..last THEN fat[c]
                          ELSE IF c < last THEN c + 1 ELSE 4095
             /\ fat[c] \in Entries12
  BY DEF RowFat
<1>4. ASSUME NEW c \in 0..n + 1 PROVE fat2[c] \in Entries12
  <2>1. CASE c \notin first..last
    BY <1>3, <2>1
  <2>2. CASE c \in first..last /\ c < last
    <3>1. fat2[c] = c + 1 /\ c + 1 <= n + 1
      BY <1>2, <1>3, <2>2
    <3> QED BY <3>1 DEF Entries12
  <2>3. CASE c \in first..last /\ ~(c < last)
    BY <1>3, <2>3 DEF Entries12
  <2> QED BY <2>1, <2>2, <2>3
<1>5. fat2 \in [0..n + 1 -> Entries12]
  <2>1. DOMAIN fat = 0..n + 1
    OBVIOUS
  <2>2. fat2 = [c \in 0..n + 1 |-> fat2[c]]
    BY <2>1 DEF RowFat
  <2> QED BY <1>4, <2>2
<1>6. ASSUME NEW k \in 1..need
      PROVE  fat2[q[k]] = IF k = need THEN 4095 ELSE q[k + 1]
  <2> DEFINE c == first + k - 1
  <2>1. q[k] = c /\ c \in 0..n + 1 /\ c \in first..last /\ (c < last <=> k # need)
    BY DEF Row
  <2>2. k # need => q[k + 1] = c + 1
    BY DEF Row
  <2> HIDE DEF c
  <2> QED BY <1>3, <2>1, <2>2
<1>7. ChainOf(n, fat2, q)
  BY <1>1, <1>6 DEF ChainOf
<1>8. ASSUME NEW c \in Clus(n), c \notin Named(q) PROVE fat2[c] = fat[c]
  BY <1>1, <1>3, <1>8 DEF Clus
<1> QED BY <1>5, <1>7, <1>8 DEF Untouched

Covers(sect, n, spc) == DOMAIN sect = 0..n * spc - 1

(* A file that is written to a row can be found there, and nothing else is *)
(* written.                                                                *)
LEMMA RowStored ==
  ASSUME NEW first \in Nat, NEW need \in Nat, NEW n \in Nat, first >= 2,
         NEW last, last = RowEnd(first, need), last <= n + 1,
         NEW spc \in Nat \ {0}, NEW q, q = Row(first, need),
         NEW b \in Seq(Sectors), need = Length(spc, b), NEW sect,
         Covers(sect, n, spc), NEW at, at = RowAt(first, spc),
         NEW sect2, sect2 = RowSect(sect, at, b)
  PROVE  /\ Stored(spc, sect2, q, b) /\ Covers(sect2, n, spc)
         /\ Unwritten(n, spc, sect, sect2, q)
<1> USE DEF Covers, RowEnd, RowAt
<1> DEFINE l == Len(b)
<1>1. /\ q \in Seq(Clus(n)) /\ Len(q) = need /\ Named(q) = first..last
  BY RowIs
<1>2. l \in Nat /\ l <= need * spc
  BY LengthIs
<1>3. at \in Nat
  <2> DEFINE p == first - 2
  <2>1. p \in Nat
    OBVIOUS
  <2> HIDE DEF p
  <2>2. p * spc \in Nat
    BY <2>1
  <2> QED BY <2>2 DEF p
<1>4. ASSUME NEW s \in 0..n * spc - 1
      PROVE  sect2[s] = IF s - at \in 0..l - 1 THEN b[s - at + 1] ELSE sect[s]
  BY DEF RowSect
<1>5. DOMAIN sect2 = 0..n * spc - 1
  BY DEF RowSect
<1> HIDE DEF l
<1>6. ASSUME NEW j \in 1..l PROVE sect2[Spot(spc, q, j)] = b[j]
  <2> DEFINE t == Turn(spc, j)
             r == Rest(spc, j)
             s == Spot(spc, q, j)
             p == first - 2
             u == t - 1
  <2>1. SpotOf(n, spc, q, j)
    BY <1>1, <1>6, SpotIs DEF l
  <2>2. /\ t \in 1..need /\ r \in 0..spc - 1 /\ j = u * spc + r + 1
        /\ s \in 0..n * spc - 1
    BY <1>1, <2>1 DEF SpotOf
  <2>3. s = (q[t] - 2) * spc + r
    BY DEF Spot, Turn, Rest
  <2>4. q[t] - 2 = p + u /\ p \in Nat /\ u \in Nat
    <3>1. q[t] = first + t - 1
      <4> HIDE DEF t
      <4> QED BY <2>2 DEF Row
    <3>2. t \in 1..need
      BY <2>2
    <3> DEFINE z == q[t]
    <3>3. z = first + t - 1
      BY <3>1
    <3> HIDE DEF t, z
    <3>4. z - 2 = (first - 2) + (t - 1) /\ first - 2 \in Nat /\ t - 1 \in Nat
      BY <3>2, <3>3
    <3> QED BY <3>4 DEF z
  <2>5. at = p * spc
    OBVIOUS
  <2> DEFINE z == q[t] - 2
             x == p * spc
             y == u * spc
  <2>10. s = z * spc + r /\ z = p + u /\ j = y + r + 1 /\ at = x /\ r \in 0..spc - 1
    BY <2>2, <2>3, <2>4, <2>5
  <2> HIDE DEF t, r, s, p, u
  <2>6. (p + u) * spc = x + y /\ x \in Nat /\ y \in Nat
    BY <2>4
  <2> HIDE DEF z, x, y
  <2> DEFINE w == z * spc
  <2>11. w = x + y /\ s = w + r
    BY <2>6, <2>10
  <2> HIDE DEF w
  <2>7. s - at = j - 1
    <3>1. /\ s = w + r /\ w = x + y /\ at = x /\ j = y + r + 1
          /\ x \in Nat /\ y \in Nat /\ r \in Int
      BY <2>6, <2>10, <2>11
    <3> QED BY ONLY <3>1
  <2>8. s - at \in 0..l - 1 /\ s - at + 1 = j
    BY <1>2, <2>7
  <2>9. sect2[s] = b[s - at + 1]
    BY <1>4, <2>2, <2>8
  <2> QED BY <2>8, <2>9 DEF s
<1>7. ASSUME NEW s \in 0..n * spc - 1, s - at \in 0..l - 1
      PROVE  (s \div spc) + 2 \in Named(q)
  <2> DEFINE k == s - at
             a == k \div spc
             r == k % spc
             p == first - 2
             c == p + a
  <2>1. k \in Nat /\ k < need * spc /\ s = at + k
    <3>1. need * spc \in Nat
      OBVIOUS
    <3> QED BY <1>2, <1>3, <1>7, <3>1
  <2> HIDE DEF k
  <2>2. a \in Nat /\ r \in 0..spc - 1 /\ k = spc * a + r
    BY <2>1, Division
  <2>3. a < need
    BY <2>1, QuotientBound
  <2>4. at = p * spc /\ p \in Nat
    OBVIOUS
  <2> HIDE DEF a, r, p
  <2>5. c \in Nat
    BY <2>2, <2>4
  <2>6. c * spc = p * spc + a * spc /\ a * spc = spc * a /\ p * spc \in Nat /\ a * spc \in Nat
    BY <2>2, <2>4
  <2> HIDE DEF c
  <2>7. s = c * spc + r
    <3> DEFINE x == p * spc
               y == a * spc
               z == c * spc
    <3>1. z = x + y /\ x \in Nat /\ y \in Nat /\ at = x /\ k = y + r
      BY <2>2, <2>4, <2>6
    <3> HIDE DEF x, y, z
    <3>2. s = z + r
      BY <2>1, <2>2, <3>1
    <3> QED BY <3>2 DEF z
  <2>8. Splits(s, spc, c, r)
    <3>1. s \in Int
      OBVIOUS
    <3> QED BY <2>2, <2>5, <2>7, <3>1, QuotientIs
  <2>9. s \div spc = c
    BY <2>8 DEF Splits
  <2>10. c + 2 \in first..first + need - 1
    BY <2>2, <2>3, <2>4 DEF c, p
  <2> QED BY <1>1, <2>9, <2>10
<1>8. ASSUME NEW s \in 0..n * spc - 1, (s \div spc) + 2 \notin Named(q)
      PROVE  sect2[s] = sect[s]
  BY <1>4, <1>7, <1>8
<1> QED BY <1>5, <1>6, <1>8 DEF Stored, l, Unwritten

-----------------------------------------------------------------------------
(* The builder.                                                            *)
Sized(total, rootn, spc, spf, n) ==
  /\ total \in Nat /\ total >= 16 /\ rootn \in Nat /\ spc \in Nat \ {0} /\ spf \in Nat
  /\ n = ClusterCount(total, rootn, spc, spf) /\ n \in Nat
  /\ n + 1 < ENDMARKS /\ FatHolds(n, spf * SECTOR)

Fs(total, rootn, spc, spf, n, fat, dirents, next, sect) ==
  [total |-> total, rootn |-> rootn, spc |-> spc, spf |-> spf, count |-> n,
   fat |-> fat, dirents |-> dirents, next |-> next, sect |-> sect]

NewEntry(name, first, b) == [name |-> name, first |-> first, size |-> Len(b)]

(* What the builder does when it takes a file.                             *)
LEMMA AddFileIs ==
  ASSUME NEW total \in Nat, total >= 16, NEW rootn, NEW spc, NEW spf, NEW n, NEW fat,
         NEW dirents, NEW next, NEW sect,
         NEW fs, fs = Fs(total, rootn, spc, spf, n, fat, dirents, next, sect),
         NEW name, NEW b, NEW need, need = Length(spc, b),
         NEW last, last = RowEnd(next, need), NEW at, at = RowAt(next, spc),
         NEW r, r = AddFile(fs, name, b), r # NoFs
  PROVE  /\ \A i \in DOMAIN dirents : dirents[i].name # name
         /\ ~(Len(dirents) >= rootn) /\ ~(last > n + 1)
         /\ r = Fs(total, rootn, spc, spf, n, RowFat(fat, next, last),
                   Append(dirents, NewEntry(name, next, b)), last + 1,
                   RowSect(sect, at, b))
<1>1. /\ fs.total = total /\ fs.rootn = rootn /\ fs.spc = spc /\ fs.count = n
      /\ fs.fat = fat /\ fs.dirents = dirents /\ fs.next = next /\ fs.sect = sect
  BY DEF Fs
<1>2. fs # NoFs
  <2>1. NoFs.total = 0
    BY DEF NoFs
  <2> QED BY <1>1, <2>1
<1>3. AddFile(fs, name, b) =
        IF (\E i \in DOMAIN dirents : dirents[i].name = name)
           \/ Len(dirents) >= rootn \/ last > n + 1 THEN NoFs
        ELSE [fs EXCEPT !.next = last + 1,
                        !.dirents = Append(@, NewEntry(name, next, b)),
                        !.fat = RowFat(fat, next, last),
                        !.sect = RowSect(sect, at, b)]
  BY <1>1, <1>2 DEF AddFile, NewEntry, RowFat, RowSect, Length, RowEnd, RowAt
<1>4. /\ \A i \in DOMAIN dirents : dirents[i].name # name
      /\ ~(Len(dirents) >= rootn) /\ ~(last > n + 1)
      /\ r = [fs EXCEPT !.next = last + 1,
                        !.dirents = Append(@, NewEntry(name, next, b)),
                        !.fat = RowFat(fat, next, last),
                        !.sect = RowSect(sect, at, b)]
  BY <1>3
<1> QED BY <1>1, <1>4 DEF Fs

(* What has been built when k files are in.                                *)
Bodies(order, bodies) == [i \in 0..Len(order) - 1 |-> bodies[order[i + 1]]]
Entered(k, order, body, ch, dirents) ==
  \A i \in 0..k - 1 : dirents[i + 1] = Dirent(order[i + 1], ch[i], body[i])
Different(k, order) == \A i, j \in 0..k - 1 : order[i + 1] = order[j + 1] => i = j
FreeFrom(n, fat, next) == \A c \in Clus(n) : c >= next => fat[c] = 0
EntrySet(order) == [name : Named(order), first : Nat, size : Nat]

BuiltWith(k, n, rootn, spc, order, body, fat, dirents, next, sect, ch) ==
  /\ k <= rootn
  /\ Table(fat, n)
  /\ next \in 2..n + 2 /\ FreeFrom(n, fat, next)
  /\ Covers(sect, n, spc)
  /\ dirents \in Seq(EntrySet(order)) /\ Len(dirents) = k
  /\ Kept(n, spc, fat, sect, 0..k - 1, ch, body)
  /\ Entered(k, order, body, ch, dirents) /\ Different(k, order)

Built(fs, k, total, rootn, spc, spf, n, order, body) ==
  \E fat, dirents, next, sect, ch :
    /\ fs = Fs(total, rootn, spc, spf, n, fat, dirents, next, sect)
    /\ BuiltWith(k, n, rootn, spc, order, body, fat, dirents, next, sect, ch)

(* The builder starts with no file,                                        *)
LEMMA BuiltFirst ==
  ASSUME NEW total, NEW rootn \in Nat, NEW spc \in Nat \ {0}, NEW spf,
         spf = SizeFat(total, rootn, spc),
         NEW n \in Nat, n = ClusterCount(total, rootn, spc, spf),
         NEW order, NEW body
  PROVE  Built(NewFs(total, rootn, spc), 0, total, rootn, spc, spf, n, order, body)
<1> DEFINE fat == [c \in 0..n + 1 |-> IF c = 0 THEN 4088 ELSE IF c = 1 THEN 4095 ELSE 0]
           sect == [s \in 0..n * spc - 1 |-> Zero]
           dirents == <<>>
           next == 2
           zero == 0
<1>1. NewFs(total, rootn, spc)
        = Fs(total, rootn, spc, spf, n, fat, dirents, next, sect)
  BY DEF NewFs, Fs
<1>2. Table(fat, n) /\ \A c \in Clus(n) : fat[c] = 0
  BY DEF Entries12, Clus, Table
<1>3. next \in 2..n + 2 /\ FreeFrom(n, fat, next)
  <2>1. next \in 2..n + 2
    OBVIOUS
  <2> HIDE DEF fat, next
  <2> QED BY <1>2, <2>1 DEF FreeFrom
<1>4. Covers(sect, n, spc)
  BY DEF Covers
<1>5. dirents \in Seq(EntrySet(order)) /\ Len(dirents) = 0
  BY EmptySeq
<1>6. 0..zero - 1 = {}
  OBVIOUS
<1> HIDE DEF fat, sect, dirents, next, zero
<1>7. Kept(n, spc, fat, sect, 0..zero - 1, body, body)
  BY <1>2, <1>6 DEF Kept
<1>8. Entered(zero, order, body, body, dirents) /\ Different(zero, order)
  BY <1>6 DEF Entered, Different
<1>10. zero <= rootn
  BY DEF zero
<1>9. BuiltWith(zero, n, rootn, spc, order, body, fat, dirents, next, sect, body)
  BY <1>2, <1>3, <1>4, <1>5, <1>7, <1>8, <1>10 DEF BuiltWith, zero
<1> QED BY <1>1, <1>9 DEF Built, zero

(* and every file it takes is stored beside the others.                    *)
LEMMA BuiltNext ==
  ASSUME NEW total, NEW rootn, NEW spc, NEW spf, NEW n, Sized(total, rootn, spc, spf, n),
         NEW order, NEW body, NEW k \in Nat, NEW name, name = order[k + 1],
         name \in Named(order), NEW b \in Seq(Sectors), b = body[k],
         NEW fs, Built(fs, k, total, rootn, spc, spf, n, order, body),
         NEW r, r = AddFile(fs, name, b), r # NoFs, NEW t, t = k + 1
  PROVE  Built(r, t, total, rootn, spc, spf, n, order, body)
<1>0. /\ total \in Nat /\ total >= 16 /\ spc \in Nat \ {0} /\ n \in Nat
      /\ rootn \in Nat /\ n + 1 < 4095
  <2>1. /\ total \in Nat /\ total >= 16 /\ spc \in Nat \ {0} /\ n \in Nat
        /\ rootn \in Nat /\ n + 1 < ENDMARKS
    BY DEF Sized
  <2> QED BY <2>1, VolumeTypes
<1>1. PICK fat, dirents, next, sect, ch :
        /\ fs = Fs(total, rootn, spc, spf, n, fat, dirents, next, sect)
        /\ BuiltWith(k, n, rootn, spc, order, body, fat, dirents, next, sect, ch)
  BY DEF Built
<1>2. /\ k <= rootn /\ Table(fat, n)
      /\ next \in 2..n + 2 /\ FreeFrom(n, fat, next)
      /\ Covers(sect, n, spc)
      /\ dirents \in Seq(EntrySet(order)) /\ Len(dirents) = k
      /\ Kept(n, spc, fat, sect, 0..k - 1, ch, body)
      /\ Entered(k, order, body, ch, dirents) /\ Different(k, order)
  BY <1>1 DEF BuiltWith
<1> DEFINE need == Length(spc, b)
           last == RowEnd(next, need)
           at == RowAt(next, spc)
           fat2 == RowFat(fat, next, last)
           dirents2 == Append(dirents, NewEntry(name, next, b))
           sect2 == RowSect(sect, at, b)
           q == Row(next, need)
           ch2 == [i \in 0..k |-> IF i = k THEN q ELSE ch[i]]
<1>3. need \in Nat /\ need >= 1 /\ Len(b) \in Nat
  BY <1>0, LengthIs
<1>4. /\ \A i \in DOMAIN dirents : dirents[i].name # name
      /\ ~(Len(dirents) >= rootn) /\ ~(last > n + 1)
      /\ r = Fs(total, rootn, spc, spf, n, fat2, dirents2, last + 1, sect2)
  <2> HIDE DEF need, last, at
  <2>1. need = Length(spc, b) /\ last = RowEnd(next, need) /\ at = RowAt(next, spc)
    BY DEF need, last, at
  <2> HIDE DEF fat2, dirents2, sect2
  <2>2. fat2 = RowFat(fat, next, last) /\ sect2 = RowSect(sect, at, b)
        /\ dirents2 = Append(dirents, NewEntry(name, next, b))
    BY DEF fat2, dirents2, sect2
  <2> QED BY <1>0, <1>1, <2>1, <2>2, AddFileIs
<1> HIDE DEF need
<1>5. next \in Nat /\ next >= 2 /\ last \in Nat /\ last <= n + 1 /\ last + 1 \in 2..n + 2
  <2>1. ~(last > n + 1) /\ next \in 2..n + 2
    BY <1>2, <1>4, Zenon
  <2> QED BY <1>0, <1>3, <2>1 DEF RowEnd
<1> HIDE DEF last, at, fat2, dirents2, sect2, q
<1>6. /\ q \in Seq(Clus(n)) /\ Len(q) = need /\ OneToOne(q) /\ Named(q) = next..last
  <2>1. q = Row(next, need) /\ last = RowEnd(next, need)
    BY <1>5 DEF q, last
  <2> QED BY <1>0, <1>3, <1>5, <2>1, RowIs
<1>7. /\ Table(fat2, n) /\ ChainOf(n, fat2, q)
      /\ Untouched(n, fat, fat2, q)
  <2>1. /\ q = Row(next, need) /\ last = RowEnd(next, need)
        /\ fat2 = RowFat(fat, next, last)
    BY <1>5 DEF q, last, fat2
  <2> QED BY <1>0, <1>2, <1>3, <1>5, <2>1, RowChain
<1>8. /\ Stored(spc, sect2, q, b) /\ Covers(sect2, n, spc)
      /\ Unwritten(n, spc, sect, sect2, q)
  <2>1. /\ q = Row(next, need) /\ last = RowEnd(next, need) /\ need = Length(spc, b)
        /\ at = RowAt(next, spc) /\ sect2 = RowSect(sect, at, b)
    BY <1>5 DEF q, last, sect2, at, need
  <2>2. /\ next \in Nat /\ need \in Nat /\ n \in Nat /\ next >= 2 /\ last <= n + 1
        /\ spc \in Nat \ {0} /\ Covers(sect, n, spc)
    BY <1>0, <1>2, <1>3, <1>5
  <2> QED BY ONLY <2>1, <2>2, b \in Seq(Sectors), RowStored
<1>9. HasFile(n, spc, fat2, sect2, q, b)
  BY <1>6, <1>7, <1>8 DEF HasFile, need
<1>10. \A c \in next..last : c \in Clus(n) /\ c >= next
  BY <1>0, <1>5 DEF Clus
<1>11. FreeIn(fat, q)
  BY <1>2, <1>6, <1>10 DEF FreeIn, FreeFrom
<1>12. ASSUME NEW c \in Clus(n), c >= last + 1 PROVE fat2[c] = 0
  <2>1. c \notin next..last /\ c >= next
    BY <1>3, <1>5, <1>12 DEF last, Clus, RowEnd
  <2> QED BY <1>2, <1>6, <1>7, <2>1 DEF FreeFrom, Untouched
<1> DEFINE E == 0..k - 1
           E2 == 0..t - 1
<1>13. E2 = E \cup {k} /\ k \notin E /\ E2 = 0..k
  OBVIOUS
<1>14. ch2[k] = q /\ Agree(E, ch, ch2) /\ Agree(E, body, body)
  BY DEF Agree
<1> HIDE DEF ch2, E, E2
<1>15. Kept(n, spc, fat2, sect2, E2, ch2, body)
  <2>1. Kept(n, spc, fat, sect, E, ch, body)
    BY <1>2 DEF E
  <2> QED BY <1>0, <1>7, <1>8, <1>9, <1>11, <1>13, <1>14, <2>1, KeptWith
<1>16. /\ dirents2 \in Seq(EntrySet(order)) /\ Len(dirents2) = t
       /\ dirents2[t] = NewEntry(name, next, b)
       /\ \A i \in 1..k : dirents2[i] = dirents[i]
  <2> DEFINE e == NewEntry(name, next, b)
  <2>1. e \in EntrySet(order)
    BY <1>3, <1>5 DEF NewEntry, EntrySet
  <2> HIDE DEF e
  <2> QED BY <1>2, <2>1, AppendProperties DEF dirents2, e
<1>17. NewEntry(name, next, b) = Dirent(name, q, b)
  <2>1. q[1] = next
    BY <1>3, <1>5 DEF q, Row
  <2> QED BY <2>1 DEF NewEntry, Dirent
<1>18. ASSUME NEW i \in E2
       PROVE  dirents2[i + 1] = Dirent(order[i + 1], ch2[i], body[i])
  <2>1. CASE i = k
    BY <1>14, <1>16, <1>17, <2>1
  <2>2. CASE i # k
    <3>1. i \in E
      BY <1>13, <2>2
    <3>2. ch2[i] = ch[i] /\ i \in 0..k - 1 /\ i + 1 \in 1..k
      BY <1>14, <3>1 DEF Agree, E
    <3> QED BY <1>2, <1>16, <3>2 DEF Entered
  <2> QED BY <2>1, <2>2
<1>19. ASSUME NEW i \in E PROVE order[i + 1] # name
  <2>1. i \in 0..k - 1 /\ i + 1 \in 1..k
    BY DEF E
  <2>2. dirents[i + 1] = Dirent(order[i + 1], ch[i], body[i])
    BY <1>2, <2>1 DEF Entered
  <2>3. i + 1 \in DOMAIN dirents
    BY <1>2, <2>1, LenProperties
  <2>4. dirents[i + 1].name = order[i + 1]
    BY <2>2 DEF Dirent
  <2> QED BY <1>4, <2>3, <2>4
<1>20. ASSUME NEW i \in E2, NEW j \in E2, order[i + 1] = order[j + 1] PROVE i = j
  <2>1. CASE i = k /\ j = k
    BY <2>1
  <2>2. CASE i # k /\ j # k
    <3>1. i \in 0..k - 1 /\ j \in 0..k - 1
      BY <1>13, <2>2 DEF E
    <3> QED BY <1>2, <1>20, <3>1 DEF Different
  <2>3. CASE i = k /\ j # k
    BY <1>13, <1>19, <1>20, <2>3
  <2>4. CASE i # k /\ j = k
    BY <1>13, <1>19, <1>20, <2>4
  <2> QED BY <2>1, <2>2, <2>3, <2>4
<1>21. Entered(t, order, body, ch2, dirents2) /\ Different(t, order)
  BY <1>18, <1>20 DEF Entered, Different, E2
<1>22. FreeFrom(n, fat2, last + 1)
  BY <1>12 DEF FreeFrom
<1> DEFINE next2 == last + 1
<1>23. next2 \in 2..n + 2 /\ FreeFrom(n, fat2, next2)
  BY <1>5, <1>22
<1>24. r = Fs(total, rootn, spc, spf, n, fat2, dirents2, next2, sect2)
  BY <1>4
<1> HIDE DEF next2
<1>26. t <= rootn
  <2>1. ~(k >= rootn)
    BY <1>2, <1>4
  <2> QED BY <1>0, <2>1
<1>25. BuiltWith(t, n, rootn, spc, order, body, fat2, dirents2, next2, sect2, ch2)
  BY <1>7, <1>8, <1>15, <1>16, <1>21, <1>23, <1>26 DEF BuiltWith, E2
<1> QED BY <1>24, <1>25 DEF Built

(* The builder's loop, for the files of an order.                          *)
Building(t, m, x, order, bodies) ==
  t = [k \in 0..m |-> IF k = 0 THEN x
                      ELSE AddFile(t[k - 1], order[k], bodies[order[k]])]

(* The loop has a result, whatever it is given.                            *)
LEMMA BuildingExists ==
  ASSUME NEW m \in Nat, NEW x, NEW order, NEW bodies
  PROVE  \E t : Building(t, m, x, order, bodies)
<1> DEFINE P == {j \in Nat : \E t : Building(t, j, x, order, bodies)}
<1>1. 0 \in P
  <2> DEFINE t == [k \in 0..0 |-> x]
  <2>1. t = [k \in 0..0 |-> IF k = 0 THEN x
                            ELSE AddFile(t[k - 1], order[k], bodies[order[k]])]
    OBVIOUS
  <2> HIDE DEF t
  <2>2. Building(t, 0, x, order, bodies)
    BY <2>1 DEF Building
  <2> QED BY <2>2
<1>2. ASSUME NEW j \in Nat, j \in P PROVE j + 1 \in P
  <2> DEFINE l == j + 1
  <2>1. PICK t : Building(t, j, x, order, bodies)
    BY <1>2
  <2>2. l \in Nat /\ l \notin 0..j /\ \A k \in 0..l : k \in 0..j \/ k = l
    OBVIOUS
  <2>3. l # 0 /\ l - 1 \in 0..j /\ \A k \in 0..j : k \in 0..l /\ (k = 0 \/ k - 1 \in 0..j)
    OBVIOUS
  <2>4. \A k \in 0..j : k # 0 => k - 1 # l
    OBVIOUS
  <2>8. l - 1 # l
    OBVIOUS
  <2>9. \A k \in 0..j : k # 0 => k - 1 \in 0..l
    OBVIOUS
  <2>10. l - 1 \in 0..l
    OBVIOUS
  <2> HIDE DEF l
  <2> DEFINE u == [k \in 0..l |-> IF k = l THEN AddFile(t[l - 1], order[l], bodies[order[l]])
                                  ELSE t[k]]
  <2>5. ASSUME NEW k \in 0..l
        PROVE  u[k] = IF k = 0 THEN x ELSE AddFile(u[k - 1], order[k], bodies[order[k]])
    <3>1. CASE k = l
      <4>1. u[l - 1] = t[l - 1]
        BY <2>8, <2>10
      <4> QED BY <2>3, <3>1, <4>1
    <3>2. CASE k # l
      <4>1. k \in 0..j
        BY <2>2, <3>2
      <4>2. t[k] = IF k = 0 THEN x ELSE AddFile(t[k - 1], order[k], bodies[order[k]])
        BY <2>1, <4>1 DEF Building
      <4>3. u[k] = t[k]
        BY <3>2
      <4>4. k # 0 => u[k - 1] = t[k - 1]
        BY <2>4, <2>9, <4>1
      <4> HIDE DEF u
      <4> QED BY <4>2, <4>3, <4>4
    <3> QED BY <3>1, <3>2
  <2>6. u = [k \in 0..l |-> u[k]]
    OBVIOUS
  <2> HIDE DEF u
  <2>7. Building(u, l, x, order, bodies)
    BY <2>5, <2>6 DEF Building
  <2> QED BY <2>2, <2>7 DEF l
<1>3. \A j \in Nat : j \in P
  <2> HIDE DEF P
  <2> QED BY <1>1, <1>2, Induction
<1> QED BY <1>3

(* A volume that failed stays failed.                                      *)
LEMMA AddToNone ==
  ASSUME NEW name, NEW b PROVE AddFile(NoFs, name, b) = NoFs
BY DEF AddFile

(* The directory: entries that were never used come last.                  *)
Suffix(root, rootn) ==
  \A i, j \in 0..rootn - 1 : i <= j /\ root[i] = Vacant => root[j] = Vacant
Live(root, rootn) ==
  {i \in 0..rootn - 1 : root[i] # Deleted /\ \A j \in 0..i : root[j] # Vacant}

InUse(root, rootn) == {i \in 0..rootn - 1 : root[i] \notin {Vacant, Deleted}}

(* The entries that are read are the entries in use, when none in use lies *)
(* behind one that was never used.                                         *)
LEMMA LiveIs ==
  ASSUME NEW rootn \in Nat, NEW root, Suffix(root, rootn)
  PROVE  Live(root, rootn) = InUse(root, rootn)
<1>1. ASSUME NEW i \in 0..rootn - 1, root[i] # Vacant, NEW j \in 0..i PROVE root[j] # Vacant
  <2>1. j \in 0..rootn - 1 /\ j <= i
    OBVIOUS
  <2> QED BY <1>1, <2>1 DEF Suffix
<1>2. \A i \in 0..rootn - 1 : i \in 0..i
  OBVIOUS
<1> QED BY <1>1, <1>2 DEF Live, InUse

(* An entry of a file is not one of an empty slot.                         *)
LEMMA DirentIs ==
  ASSUME NEW n \in Nat, NEW name, NEW q \in Seq(Clus(n)), Len(q) >= 1, NEW b
  PROVE  Dirent(name, q, b) \notin {Vacant, Deleted} /\ Dirent(name, q, b).name = name
<1>1. q[1] \in Clus(n)
  <2>1. Len(q) \in Nat
    BY LenProperties
  <2>2. 1 \in 1..Len(q)
    BY <2>1
  <2> QED BY <2>2, ElementOfSeq
<1>2. q[1] # 0
  BY <1>1 DEF Clus
<1>3. Dirent(name, q, b).first = q[1] /\ Vacant.first = 0 /\ Deleted.first = 0
  BY DEF Dirent, Vacant, Deleted
<1> QED BY <1>2, <1>3 DEF Dirent

-----------------------------------------------------------------------------
(* A volume and the files that are on it.                                  *)
Vol(total, rootn, spc, spf, f, root, sect) ==
  [total |-> total, rootn |-> rootn, spc |-> spc, spf |-> spf, fats |-> <<f, f>>,
   root |-> root, sect |-> sect]

Slots(root, rootn) == root = [i \in 0..rootn - 1 |-> root[i]]

Filed(n, spc, len, rootn, f, root, sect, ch, body, fls) ==
  /\ f \in Fat(len) /\ Covers(sect, n, spc)
  /\ Slots(root, rootn) /\ Suffix(root, rootn)
  /\ Kept(n, spc, Map(f, n), sect, Live(root, rootn), ch, body)
  /\ Listed(root, Live(root, rootn), ch, body, fls)

Good(v, fls) ==
  \E total, rootn, spc, spf, n, f, root, sect, ch, body :
    /\ v = Vol(total, rootn, spc, spf, f, root, sect)
    /\ Sized(total, rootn, spc, spf, n) /\ rootn \in ROOTS
    /\ Filed(n, spc, spf * SECTOR, rootn, f, root, sect, ch, body, fls)

(* Two FATs that say the same keep the same files.                         *)
LEMMA KeptSame ==
  ASSUME NEW n \in Nat, NEW spc, NEW g, NEW g2, NEW sect, NEW E, NEW ch, NEW body,
         Kept(n, spc, g, sect, E, ch, body), \A c \in Clus(n) : g2[c] = g[c]
  PROVE  Kept(n, spc, g2, sect, E, ch, body)
<1>1. ASSUME NEW i \in E PROVE HasFile(n, spc, g2, sect, ch[i], body[i])
  <2>1. HasFile(n, spc, g, sect, ch[i], body[i])
    BY DEF Kept
  <2>2. ChainOf(n, g, ch[i])
    BY <2>1 DEF HasFile
  <2>3. \A c \in Named(ch[i]) : c \in Clus(n)
    BY <2>2, ChainUsed
  <2>4. \A c \in Named(ch[i]) : g2[c] = g[c]
    BY <2>3
  <2>5. ChainOf(n, g2, ch[i])
    BY <2>2, <2>4, ChainKept
  <2> QED BY <2>1, <2>5 DEF HasFile
<1> QED BY <1>1 DEF Kept

(* A packed FAT says of each cluster what the table says.                  *)
LEMMA PackMap ==
  ASSUME NEW n \in Nat, NEW fat, Table(fat, n), NEW len \in Nat, FatHolds(n, len),
         NEW f, f = Pack(fat, len)
  PROVE  f \in Fat(len) /\ \A c \in Clus(n) : Map(f, n)[c] = fat[c]
<1> DEFINE l == n + 2
<1>1. l \in Nat /\ l - 1 = n + 1 /\ fat \in [0..l - 1 -> Entries12]
  BY DEF Table
<1>2. ASSUME NEW c \in Clus(n) PROVE c \in Nat /\ c < l /\ Within(c, len)
  <2>1. c \in Nat /\ c \in 0..n + 1 /\ c < l
    BY DEF Clus
  <2> QED BY <2>1, EntriesInside
<1> HIDE DEF l
<1>3. Pack(fat, len) \in Fat(len)
  BY <1>1, PackType
<1>4. ASSUME NEW c \in Clus(n) PROVE Get(Pack(fat, len), c) = fat[c]
  BY <1>1, <1>2, FatPackThenGet
<1> QED BY <1>3, <1>4 DEF Map

(* The root directory of a new volume.                                     *)
InOrder(root, rootn, order, k) ==
  \A i \in 0..k - 1 : i \in Live(root, rootn) /\ root[i].name = order[i + 1]

FirstSlots(rootn, k, dirents) ==
  [i \in 0..rootn - 1 |-> IF i < k THEN dirents[i + 1] ELSE Vacant]
FilledRow(ch, n, k) == \A i \in 0..k - 1 : ch[i] \in Seq(Clus(n)) /\ Len(ch[i]) >= 1
NamesUpTo(order, k) == {order[i + 1] : i \in 0..k - 1}
BodiesOf(body, order, bodies, k) ==
  /\ bodies = [x \in Named(order) |-> bodies[x]]
  /\ \A i \in 0..k - 1 : body[i] = bodies[order[i + 1]]

(* The directory of a new volume lists its files.                          *)
LEMMA RootBuilt ==
  ASSUME NEW n \in Nat, NEW rootn \in Nat, NEW k \in Nat, k <= rootn,
         NEW order, Named(order) = NamesUpTo(order, k),
         NEW ch, NEW dirents, NEW body, Entered(k, order, body, ch, dirents),
         Different(k, order), FilledRow(ch, n, k),
         NEW bodies, BodiesOf(body, order, bodies, k),
         NEW root, root = FirstSlots(rootn, k, dirents), NEW E, E = 0..k - 1
  PROVE  /\ Slots(root, rootn) /\ Suffix(root, rootn)
         /\ Live(root, rootn) = E /\ InOrder(root, rootn, order, k)
         /\ Listed(root, E, ch, body, bodies)
<1> USE DEF FirstSlots, FilledRow, BodiesOf, NamesUpTo
<1>1. ASSUME NEW i \in E
      PROVE  /\ i \in 0..rootn - 1 /\ root[i] = Dirent(order[i + 1], ch[i], body[i])
             /\ root[i] \notin {Vacant, Deleted} /\ root[i].name = order[i + 1]
  <2>1. i \in 0..rootn - 1 /\ i < k
    OBVIOUS
  <2>2. root[i] = dirents[i + 1]
    BY <2>1
  <2>3. root[i] = Dirent(order[i + 1], ch[i], body[i])
    BY <2>2 DEF Entered
  <2> DEFINE q == ch[i]
             b == body[i]
             name == order[i + 1]
  <2>4. q \in Seq(Clus(n)) /\ Len(q) >= 1
    OBVIOUS
  <2>5. root[i] = Dirent(name, q, b)
    BY <2>3
  <2> HIDE DEF q, b, name
  <2>6. Dirent(name, q, b) \notin {Vacant, Deleted} /\ Dirent(name, q, b).name = name
    BY <2>4, DirentIs
  <2> QED BY <2>1, <2>5, <2>6 DEF q, b, name
<1>2. ASSUME NEW i \in 0..rootn - 1, i \notin E PROVE root[i] = Vacant
  BY <1>2
<1>3. Slots(root, rootn)
  BY DEF Slots
<1>4. ASSUME NEW i \in 0..rootn - 1, NEW j \in 0..rootn - 1, i <= j, root[i] = Vacant
      PROVE  root[j] = Vacant
  <2>1. i \notin E
    BY <1>1, <1>4
  <2>2. j \notin E
    BY <1>4, <2>1
  <2> QED BY <1>2, <2>2
<1>5. Suffix(root, rootn)
  BY <1>4 DEF Suffix
<1>6. Live(root, rootn) = E
  <2>1. Live(root, rootn) = InUse(root, rootn)
    BY <1>5, LiveIs
  <2> QED BY <1>1, <1>2, <2>1 DEF InUse
<1>7. InOrder(root, rootn, order, k)
  BY <1>1, <1>6 DEF InOrder
<1>8. NamesOf(root, E) = Named(order)
  <2>1. Named(order) = {order[i + 1] : i \in E}
    OBVIOUS
  <2>2. \A i \in E : root[i].name = order[i + 1]
    BY <1>1
  <2>3. {root[i].name : i \in E} = {order[i + 1] : i \in E}
    BY ONLY <2>2
  <2> QED BY <2>1, <2>3 DEF NamesOf
<1>9. \A i \in E : root[i] = Dirent(root[i].name, ch[i], body[i])
  BY <1>1
<1>10. ASSUME NEW i \in E, NEW j \in E, root[i].name = root[j].name PROVE i = j
  <2>1. order[i + 1] = order[j + 1]
    BY <1>1, <1>10
  <2> QED BY <2>1 DEF Different
<1>11. \A i \in E : bodies[root[i].name] = body[i]
  BY <1>1
<1>12. Listed(root, E, ch, body, bodies)
  <2> QED BY <1>8, <1>9, <1>10, <1>11 DEF Listed
<1> QED BY <1>3, <1>5, <1>6, <1>7, <1>12

(* The image has the files that were built.                                *)
LEMMA ImageGood ==
  ASSUME NEW total, NEW rootn, NEW spc, NEW spf, NEW n, Sized(total, rootn, spc, spf, n),
         rootn \in ROOTS, NEW k \in Nat,
         NEW order, Named(order) = NamesUpTo(order, k),
         NEW bodies, NEW body, BodiesOf(body, order, bodies, k),
         NEW fs, Built(fs, k, total, rootn, spc, spf, n, order, body),
         NEW v, v = Image(fs), v # NoImage
  PROVE  Good(v, bodies) /\ InOrder(v.root, v.rootn, order, k)
<1>0. /\ total \in Nat /\ total >= 16 /\ spc \in Nat \ {0} /\ n \in Nat /\ spf \in Nat
      /\ rootn \in Nat /\ FatHolds(n, spf * SECTOR)
  BY DEF Sized
<1> DEFINE len == spf * SECTOR
<1>1. len \in Nat /\ FatHolds(n, len)
  <2>1. SECTOR \in Nat
    BY VolumeTypes
  <2> QED BY <1>0, <2>1
<1> HIDE DEF len
<1>2. PICK fat, dirents, next, sect, ch :
        /\ fs = Fs(total, rootn, spc, spf, n, fat, dirents, next, sect)
        /\ BuiltWith(k, n, rootn, spc, order, body, fat, dirents, next, sect, ch)
  BY DEF Built
<1>3. /\ k <= rootn /\ Table(fat, n) /\ Covers(sect, n, spc) /\ Len(dirents) = k
      /\ Kept(n, spc, fat, sect, 0..k - 1, ch, body)
      /\ Entered(k, order, body, ch, dirents) /\ Different(k, order)
  BY <1>2 DEF BuiltWith
<1> DEFINE f == Pack(fat, len)
           root == FirstSlots(rootn, k, dirents)
           E == 0..k - 1
<1>4. v = Vol(total, rootn, spc, spf, f, root, sect)
  <2>1. /\ fs.total = total /\ fs.rootn = rootn /\ fs.spc = spc /\ fs.spf = spf
        /\ fs.fat = fat /\ fs.dirents = dirents /\ fs.sect = sect
    BY <1>2 DEF Fs
  <2>2. v = [total |-> fs.total, rootn |-> fs.rootn, spc |-> fs.spc, spf |-> fs.spf,
             fats |-> <<FatBytes(fs), FatBytes(fs)>>,
             root |-> [i \in 0..fs.rootn - 1 |->
                    IF i < Len(fs.dirents) THEN fs.dirents[i + 1] ELSE Vacant],
             sect |-> fs.sect]
    BY DEF Image
  <2>3. FatBytes(fs) = f
    BY <2>1 DEF FatBytes, len
  <2>4. [i \in 0..fs.rootn - 1 |->
           IF i < Len(fs.dirents) THEN fs.dirents[i + 1] ELSE Vacant] = root
    BY <1>3, <2>1 DEF FirstSlots
  <2> HIDE DEF f, root
  <2> QED BY <2>1, <2>2, <2>3, <2>4 DEF Vol
<1>5. f \in Fat(len) /\ \A c \in Clus(n) : Map(f, n)[c] = fat[c]
  <2> HIDE DEF f
  <2>1. f = Pack(fat, len)
    BY DEF f
  <2> QED BY <1>0, <1>1, <1>3, <2>1, PackMap
<1> HIDE DEF f
<1>6. FilledRow(ch, n, k)
  BY <1>3 DEF Kept, HasFile, ChainOf, FilledRow
<1> HIDE DEF root, E
<1>7. /\ Slots(root, rootn) /\ Suffix(root, rootn)
      /\ Live(root, rootn) = E /\ InOrder(root, rootn, order, k)
      /\ Listed(root, E, ch, body, bodies)
  <2>1. root = FirstSlots(rootn, k, dirents) /\ E = 0..k - 1
    BY DEF root, E
  <2> QED BY <1>0, <1>3, <1>6, <2>1, RootBuilt
<1>8. Kept(n, spc, Map(f, n), sect, E, ch, body)
  <2> DEFINE g == Map(f, n)
  <2>1. Kept(n, spc, fat, sect, E, ch, body) /\ \A c \in Clus(n) : g[c] = fat[c]
    BY <1>3, <1>5 DEF E
  <2> HIDE DEF g
  <2>2. Kept(n, spc, g, sect, E, ch, body)
    BY <1>0, <2>1, KeptSame
  <2> QED BY <2>2 DEF g
<1>9. Filed(n, spc, len, rootn, f, root, sect, ch, body, bodies)
  BY <1>3, <1>5, <1>7, <1>8 DEF Filed
<1>10. Good(v, bodies)
  BY <1>4, <1>9 DEF Good, len
<1>11. v.root = root /\ v.rootn = rootn
  BY <1>4 DEF Vol
<1> QED BY <1>7, <1>10, <1>11

(* The size of cluster that is picked is one that is accepted,             *)
LEMMA PickedAccepted ==
  ASSUME NEW total, NEW rootn, NEW spc, spc = PickClusterSize(total, rootn), spc # 0
  PROVE  spc \in {1, 2, 4, 8, 16, 32, 64} /\ Accepts(total, rootn, spc)
<1> DEFINE all == {1, 2, 4, 8, 16, 32, 64}
           ok == {s \in all : Accepts(total, rootn, s)}
<1>1. ok # {} /\ spc = CHOOSE s \in ok : \A more \in ok : s <= more
  BY DEF PickClusterSize
<1>2. \E s \in ok : \A more \in ok : s <= more
  <2>1. \A s \in ok : s \in {1, 2, 4, 8, 16, 32, 64}
    OBVIOUS
  <2> HIDE DEF ok
  <2>2. CASE 1 \in ok
    BY <2>1, <2>2
  <2>3. CASE 1 \notin ok /\ 2 \in ok
    BY <2>1, <2>3
  <2>4. CASE 1 \notin ok /\ 2 \notin ok /\ 4 \in ok
    BY <2>1, <2>4
  <2>5. CASE 1 \notin ok /\ 2 \notin ok /\ 4 \notin ok /\ 8 \in ok
    BY <2>1, <2>5
  <2>6. CASE 1 \notin ok /\ 2 \notin ok /\ 4 \notin ok /\ 8 \notin ok /\ 16 \in ok
    BY <2>1, <2>6
  <2>7. CASE 1 \notin ok /\ 2 \notin ok /\ 4 \notin ok /\ 8 \notin ok /\ 16 \notin ok
             /\ 32 \in ok
    BY <2>1, <2>7
  <2>8. CASE 1 \notin ok /\ 2 \notin ok /\ 4 \notin ok /\ 8 \notin ok /\ 16 \notin ok
             /\ 32 \notin ok
    <3>1. \A s \in ok : s = 64
      BY <2>1, <2>8
    <3>2. PICK s \in ok : TRUE
      BY <1>1
    <3> QED BY <3>1, <3>2
  <2> QED BY <2>2, <2>3, <2>4, <2>5, <2>6, <2>7, <2>8
<1>3. spc \in ok
  <2> HIDE DEF ok
  <2> QED BY <1>1, <1>2
<1> QED BY <1>3

(* and gives a volume whose FAT holds its clusters.                        *)
LEMMA AcceptedSized ==
  ASSUME NEW total \in Nat, BelowMarks(total), NEW rootn \in ROOTS,
         NEW spc \in {1, 2, 4, 8, 16, 32, 64}, Accepts(total, rootn, spc),
         NEW spf, spf = SizeFat(total, rootn, spc),
         NEW n, n = ClusterCount(total, rootn, spc, spf)
  PROVE  Sized(total, rootn, spc, spf, n)
<1>1. total \in Nat /\ rootn \in Nat /\ spc \in Nat \ {0}
  BY VolumeAssumptions
<1>2. total >= 16 /\ spf > 0
  BY DEF Accepts
<1>3. spf # 0
  BY <1>2
<1>4. spf \in Nat /\ n \in Nat /\ FatHolds(n, spf * SECTOR)
  BY <1>1, <1>3, SizeFatFits
<1>5. n + 1 < ENDMARKS
  BY DEF BelowMarks
<1> QED BY <1>1, <1>2, <1>4, <1>5 DEF Sized

(* What the builder is given: a size of cluster that is accepted, numbers  *)
(* of clusters below the marks, and a body for each name.                  *)
Fitting(total, rootn, spc) ==
  /\ total \in Nat /\ BelowMarks(total)
  /\ spc \in {1, 2, 4, 8, 16, 32, 64} /\ Accepts(total, rootn, spc)
Wanted(order, bodies) ==
  /\ bodies = [x \in Named(order) |-> bodies[x]]
  /\ \A x \in Named(order) : bodies[x] \in Seq(Sectors)

LEMMA PickedFits ==
  ASSUME NumbersBelowMarks, NEW total \in SIZES, NEW rootn,
         NEW spc, spc = PickClusterSize(total, rootn), spc # 0
  PROVE  Fitting(total, rootn, spc)
<1>1. total \in Nat /\ BelowMarks(total)
  BY VolumeAssumptions DEF NumbersBelowMarks
<1>2. spc \in {1, 2, 4, 8, 16, 32, 64} /\ Accepts(total, rootn, spc)
  BY PickedAccepted
<1> QED BY <1>1, <1>2 DEF Fitting

(* What the builder makes has its files on it, in their order.             *)
LEMMA BuildGood ==
  ASSUME NEW total, NEW rootn \in ROOTS, NEW spc, Fitting(total, rootn, spc),
         NEW S, NEW order \in Seq(S), NEW bodies, Wanted(order, bodies),
         NEW v, v = Build(total, rootn, spc, order, bodies), v # NoImage
  PROVE  Good(v, bodies) /\ InOrder(v.root, v.rootn, order, Len(order))
<1> DEFINE spf == SizeFat(total, rootn, spc)
           n == ClusterCount(total, rootn, spc, spf)
           m == Len(order)
           x == NewFs(total, rootn, spc)
           body == Bodies(order, bodies)
<1>1. /\ m \in Nat /\ DOMAIN order = 1..m
      /\ \A i \in 0..m - 1 : i + 1 \in 1..m /\ body[i] = bodies[order[i + 1]]
  BY LenProperties DEF Bodies
<1>2. Sized(total, rootn, spc, spf, n)
  <2> HIDE DEF spf, n
  <2> QED BY AcceptedSized DEF spf, n, Fitting
<1>3. Named(order) = NamesUpTo(order, m)
  <2>1. Named(order) = {order[k] : k \in 1..m}
    BY <1>1 DEF Named
  <2> DEFINE N == Named(order)
  <2>2. ASSUME NEW k \in 1..m PROVE k - 1 \in 0..m - 1 /\ order[k] = order[(k - 1) + 1]
    BY <1>1
  <2>3. \A k \in 1..m : order[k] \in NamesUpTo(order, m)
    BY <2>2 DEF NamesUpTo
  <2>4. \A i \in 0..m - 1 : order[i + 1] \in N
    BY <1>1, <2>1
  <2> QED BY <2>1, <2>3, <2>4 DEF NamesUpTo
<1> DEFINE built == CHOOSE t : Building(t, m, x, order, bodies)
<1>4. Building(built, m, x, order, bodies)
  <2> HIDE DEF m, x
  <2>1. \E t : Building(t, m, x, order, bodies)
    BY <1>1, BuildingExists
  <2> QED BY <2>1
<1>5. v = Image(built[m])
  BY DEF Build, Building
<1> HIDE DEF built, m, x, body, spf, n
<1>6. /\ built[0] = x
      /\ \A k \in 1..m : built[k] = AddFile(built[k - 1], order[k], bodies[order[k]])
  <2>1. built[0] = x
    BY <1>1, <1>4 DEF Building
  <2>2. ASSUME NEW k \in 1..m
        PROVE  built[k] = AddFile(built[k - 1], order[k], bodies[order[k]])
    <3>1. k \in 0..m /\ k # 0
      BY <1>1
    <3> QED BY <1>4, <3>1 DEF Building
  <2> QED BY <2>1, <2>2
<1> DEFINE P == {k \in Nat : k <= m /\ built[k] # NoFs =>
                               Built(built[k], k, total, rootn, spc, spf, n, order, body)}
<1>7. 0 \in P
  <2>1. rootn \in Nat /\ spc \in Nat \ {0} /\ n \in Nat
    BY <1>2 DEF Sized
  <2>2. spf = SizeFat(total, rootn, spc) /\ n = ClusterCount(total, rootn, spc, spf)
    BY DEF spf, n
  <2>3. Built(NewFs(total, rootn, spc), 0, total, rootn, spc, spf, n, order, body)
    BY <2>1, <2>2, BuiltFirst
  <2> QED BY <1>6, <2>3 DEF x
<1>8. ASSUME NEW k \in Nat, k \in P PROVE k + 1 \in P
  <2> DEFINE t == k + 1
  <2> SUFFICES ASSUME t <= m, built[t] # NoFs
               PROVE  Built(built[t], t, total, rootn, spc, spf, n, order, body)
    OBVIOUS
  <2>1. t \in 1..m /\ t - 1 = k /\ k <= m /\ t \in Nat /\ k \in 0..m - 1 /\ t = k + 1
    BY <1>1
  <2> DEFINE name == order[t]
             b == bodies[name]
             fs == built[k]
             r == built[t]
  <2>2. r = AddFile(fs, name, b)
    <3> HIDE DEF t
    <3> QED BY <1>6, <2>1
  <2>3. name \in Named(order) /\ name = order[k + 1]
    <3>1. t \in DOMAIN order
      BY <1>1, <2>1
    <3> HIDE DEF t
    <3> QED BY <2>1, <3>1 DEF Named
  <2>4. b = body[k] /\ b \in Seq(Sectors)
    <3>1. bodies[name] \in Seq(Sectors)
      <4> HIDE DEF name
      <4> QED BY <2>3 DEF Wanted
    <3>2. body[k] = bodies[order[k + 1]]
      BY <1>1, <2>1
    <3> QED BY <2>3, <3>1, <3>2
  <2>5. fs # NoFs
    <3> HIDE DEF r, fs, name, b, t
    <3>1. r # NoFs
      BY DEF r
    <3> QED BY <2>2, <3>1, AddToNone
  <2>6. Built(fs, k, total, rootn, spc, spf, n, order, body)
    BY <1>8, <2>1, <2>5
  <2>7. r # NoFs
    OBVIOUS
  <2> HIDE DEF r, fs, name, b, t
  <2>8. Built(r, t, total, rootn, spc, spf, n, order, body)
    BY <1>2, <2>1, <2>2, <2>3, <2>4, <2>6, <2>7, BuiltNext
  <2> QED BY <2>8 DEF r
<1>9. \A k \in Nat : k \in P
  <2> HIDE DEF P
  <2> QED BY <1>7, <1>8, Induction
<1>10. built[m] # NoFs
  <2>1. Image(NoFs) = NoImage
    BY DEF Image
  <2> QED BY <1>5, <2>1
<1>11. Built(built[m], m, total, rootn, spc, spf, n, order, body)
  <2>1. m <= m
    BY <1>1
  <2> QED BY <1>1, <1>9, <1>10, <2>1
<1>12. BodiesOf(body, order, bodies, m)
  BY <1>1 DEF BodiesOf, Wanted
<1> DEFINE fs == built[m]
<1>13. Built(fs, m, total, rootn, spc, spf, n, order, body) /\ v = Image(fs)
  BY <1>5, <1>11
<1> HIDE DEF fs, P
<1>14. Good(v, bodies) /\ InOrder(v.root, v.rootn, order, m)
  BY <1>1, <1>2, <1>3, <1>12, <1>13, ImageGood
<1> QED BY <1>14 DEF m

-----------------------------------------------------------------------------
(* Reading a volume.                                                       *)
LEMMA FileRead ==
  ASSUME NEW total, NEW rootn, NEW spc, NEW spf, NEW n, Sized(total, rootn, spc, spf, n),
         NEW f, NEW root, NEW sect, NEW v, v = Vol(total, rootn, spc, spf, f, root, sect),
         NEW name, NEW q, NEW b, HasFile(n, spc, Map(f, n), sect, q, b),
         NEW e, e = Dirent(name, q, b)
  PROVE  ReadFile(v, e) = b
<1>0. n \in Nat /\ spc \in Nat \ {0} /\ n + 1 < ENDMARKS
  BY DEF Sized
<1>1. /\ v.fats[1] = f /\ v.spc = spc /\ v.sect = sect
      /\ e.first = q[1] /\ e.size = Len(b)
  BY DEF Vol, Dirent
<1>2. /\ ChainOf(n, Map(f, n), q) /\ q \in Seq(Clus(n)) /\ b \in Seq(Sectors)
      /\ Len(q) = Length(spc, b) /\ Stored(spc, sect, q, b)
  BY DEF HasFile, ChainOf
<1> DEFINE m == CeilDiv(Len(b), spc) + 1
<1>3. m \in Nat /\ Len(q) <= m /\ Len(b) \in Nat /\ Len(q) \in Nat
  <2>1. b \in Seq(Sectors) /\ spc \in Nat \ {0}
    BY <1>0, <1>2
  <2>2. /\ Length(spc, b) \in Nat /\ Len(b) \in Nat /\ CeilDiv(Len(b), spc) \in Nat
        /\ Length(spc, b) <= CeilDiv(Len(b), spc) + 1
    BY <2>1, LengthIs, Zenon
  <2> QED BY <1>2, <2>2
<1>4. Chain(f, q[1], m) = q
  <2> HIDE DEF m
  <2> QED BY <1>0, <1>2, <1>3, ChainRead
<1> DEFINE got == Len(q) * spc
<1>5. got \in Nat /\ Len(b) <= got
  <2>1. b \in Seq(Sectors) /\ spc \in Nat \ {0}
    BY <1>0, <1>2
  <2>2. Len(b) <= Length(spc, b) * spc
    BY <2>1, LengthIs, Zenon
  <2> QED BY <1>0, <1>2, <1>3, <2>2
<1>6. ReadFile(v, e) = [j \in 1..(IF Len(b) < got THEN Len(b) ELSE got) |-> sect[Spot(spc, q, j)]]
  BY <1>1, <1>4 DEF ReadFile
<1> HIDE DEF got
<1>7. (IF Len(b) < got THEN Len(b) ELSE got) = Len(b)
  BY <1>3, <1>5
<1>8. ReadFile(v, e) = [j \in 1..Len(b) |-> sect[Spot(spc, q, j)]]
  BY <1>6, <1>7
<1>9. b = [j \in 1..Len(b) |-> b[j]]
  BY <1>2, LenProperties
<1>10. [j \in 1..Len(b) |-> sect[Spot(spc, q, j)]] = [j \in 1..Len(b) |-> b[j]]
  BY <1>2 DEF Stored
<1> QED BY <1>8, <1>9, <1>10

(* A chain is read to its end, and no further.                             *)
LEMMA ChainWhole ==
  ASSUME NEW total, NEW rootn, NEW spc, NEW spf, NEW n, Sized(total, rootn, spc, spf, n),
         NEW f, NEW root, NEW sect, NEW v, v = Vol(total, rootn, spc, spf, f, root, sect),
         NEW q, ChainOf(n, Map(f, n), q), OneToOne(q), NEW c, c = q[1]
  PROVE  WholeChain(v, c) = q /\ ClustersOf(v) = Clus(n)
<1>0. n \in Nat /\ n + 1 < ENDMARKS /\ n = ClusterCount(total, rootn, spc, spf)
  BY DEF Sized
<1>1. /\ v.fats[1] = f /\ v.total = total /\ v.rootn = rootn /\ v.spc = spc /\ v.spf = spf
  BY DEF Vol
<1>2. ClustersOf(v) = Clus(n)
  BY <1>0, <1>1 DEF ClustersOf, Clus
<1>3. q \in Seq(Clus(n))
  BY DEF ChainOf
<1>4. Cardinality(Clus(n)) = n /\ Len(q) <= n
  BY <1>0, <1>3, ChainFits
<1>5. Chain(f, q[1], n) = q
  BY <1>0, <1>4, ChainRead
<1> QED BY <1>1, <1>2, <1>4, <1>5 DEF WholeChain

(* A good volume, taken apart.                                             *)
Parts(v, fls, total, rootn, spc, spf, n, f, root, sect, ch, body) ==
  /\ v = Vol(total, rootn, spc, spf, f, root, sect)
  /\ Sized(total, rootn, spc, spf, n) /\ rootn \in ROOTS
  /\ Filed(n, spc, spf * SECTOR, rootn, f, root, sect, ch, body, fls)

LEMMA VolFields ==
  ASSUME NEW total, NEW rootn, NEW spc, NEW spf, NEW f, NEW root, NEW sect,
         NEW v, v = Vol(total, rootn, spc, spf, f, root, sect)
  PROVE  /\ v.total = total /\ v.rootn = rootn /\ v.spc = spc /\ v.spf = spf
         /\ v.fats = <<f, f>> /\ v.fats[1] = f /\ v.fats[2] = f
         /\ v.root = root /\ v.sect = sect
         /\ Entries(v) = Live(root, rootn) /\ NamesIn(v) = NamesOf(root, Live(root, rootn))
<1>1. /\ v.total = total /\ v.rootn = rootn /\ v.spc = spc /\ v.spf = spf
      /\ v.fats = <<f, f>> /\ v.root = root /\ v.sect = sect
  BY DEF Vol
<1>2. Entries(v) = Live(root, rootn)
  BY <1>1 DEF Entries, Live
<1>3. v.fats[1] = f /\ v.fats[2] = f
  BY <1>1
<1> QED BY <1>1, <1>2, <1>3 DEF NamesIn, NamesOf

(* A name leads to the entry of its file.                                  *)
LEMMA EntryIs ==
  ASSUME NEW v, NEW fls, NEW total, NEW rootn, NEW spc, NEW spf, NEW n, NEW f, NEW root,
         NEW sect, NEW ch, NEW body,
         Parts(v, fls, total, rootn, spc, spf, n, f, root, sect, ch, body),
         NEW i \in Entries(v), NEW name, name = v.root[i].name
  PROVE  /\ EntryOf(v, name) = i /\ fls[name] = body[i] /\ name \in DOMAIN fls
         /\ root[i] = Dirent(name, ch[i], body[i])
         /\ HasFile(n, spc, Map(f, n), sect, ch[i], body[i])
<1> DEFINE E == Live(root, rootn)
<1>1. v.root = root /\ Entries(v) = E
  <2>1. v = Vol(total, rootn, spc, spf, f, root, sect)
    BY DEF Parts
  <2> QED BY <2>1, VolFields
<1>2. Kept(n, spc, Map(f, n), sect, E, ch, body) /\ Listed(root, E, ch, body, fls)
  BY DEF Parts, Filed
<1> HIDE DEF E
<1>3. i \in E /\ root[i].name = name
  BY <1>1
<1> DEFINE p == CHOOSE j \in E : root[j].name = name
<1>4. p \in E /\ root[p].name = name
  BY <1>3
<1>5. EntryOf(v, name) = p
  BY <1>1 DEF EntryOf
<1> HIDE DEF p
<1>6. p = i
  BY <1>2, <1>3, <1>4 DEF Listed
<1>7. fls[name] = body[i] /\ root[i] = Dirent(name, ch[i], body[i])
  BY <1>2, <1>3 DEF Listed
<1>8. name \in DOMAIN fls
  <2>1. name \in NamesOf(root, E)
    BY <1>3 DEF NamesOf
  <2> DEFINE N == NamesOf(root, E)
  <2>2. fls = [x \in N |-> fls[x]]
    BY <1>2 DEF Listed
  <2>3. name \in N
    BY <2>1
  <2> HIDE DEF N
  <2> QED BY <2>2, <2>3
<1>9. HasFile(n, spc, Map(f, n), sect, ch[i], body[i])
  BY <1>2, <1>3 DEF Kept
<1> QED BY <1>5, <1>6, <1>7, <1>8, <1>9

LEMMA GoodParts ==
  ASSUME NEW v, NEW fls, Good(v, fls)
  PROVE  \E total, rootn, spc, spf, n, f, root, sect, ch, body :
           Parts(v, fls, total, rootn, spc, spf, n, f, root, sect, ch, body)
BY DEF Good, Parts

LEMMA PartsGood ==
  ASSUME NEW v, NEW fls, NEW total, NEW rootn, NEW spc, NEW spf, NEW n, NEW f, NEW root,
         NEW sect, NEW ch, NEW body,
         Parts(v, fls, total, rootn, spc, spf, n, f, root, sect, ch, body)
  PROVE  Good(v, fls)
BY DEF Good, Parts

(* A good volume reads back as its files.                                  *)
LEMMA GoodReads ==
  ASSUME NEW v, NEW fls, Good(v, fls)
  PROVE  Listing(v) = fls /\ DOMAIN fls = NamesIn(v)
<1>1. PICK total, rootn, spc, spf, n, f, root, sect, ch, body :
        Parts(v, fls, total, rootn, spc, spf, n, f, root, sect, ch, body)
  BY GoodParts
<1>2. /\ v = Vol(total, rootn, spc, spf, f, root, sect)
      /\ Sized(total, rootn, spc, spf, n)
  BY <1>1 DEF Parts
<1> DEFINE E == Live(root, rootn)
           N == NamesIn(v)
<1>3. v.root = root /\ Entries(v) = E /\ N = NamesOf(root, E)
  BY <1>2, VolFields
<1>4. fls = [x \in N |-> fls[x]]
  BY <1>1, <1>3 DEF Parts, Filed, Listed
<1>5. ASSUME NEW x \in N PROVE ReadFile(v, v.root[EntryOf(v, x)]) = fls[x]
  <2>1. PICK i \in Entries(v) : x = v.root[i].name
    BY DEF NamesIn
  <2>2. /\ EntryOf(v, x) = i /\ fls[x] = body[i]
        /\ root[i] = Dirent(x, ch[i], body[i])
        /\ HasFile(n, spc, Map(f, n), sect, ch[i], body[i])
    BY <1>1, <2>1, EntryIs
  <2> DEFINE q == ch[i]
             b == body[i]
             e == root[i]
  <2>3. e = Dirent(x, q, b) /\ HasFile(n, spc, Map(f, n), sect, q, b)
    BY <2>2
  <2> HIDE DEF q, b, e
  <2>4. ReadFile(v, e) = b
    BY <1>2, <2>3, FileRead
  <2> QED BY <1>3, <2>2, <2>4 DEF b, e
<1>6. Listing(v) = [x \in N |-> ReadFile(v, v.root[EntryOf(v, x)])]
  BY DEF Listing
<1> HIDE DEF N
<1>7. DOMAIN fls = N
  BY <1>4
<1> QED BY <1>4, <1>5, <1>6, <1>7 DEF N

(* On a good volume a cluster is in use exactly when one file has it.      *)
LEMMA GoodClusters ==
  ASSUME NEW v, NEW fls, Good(v, fls)
  PROVE  /\ v.fats[1] = v.fats[2]
         /\ \A c \in ClustersOf(v) :
              Cardinality({i \in Entries(v) : c \in Named(WholeChain(v, v.root[i].first))})
                = IF Get(v.fats[1], c) = 0 THEN 0 ELSE 1
<1>1. PICK total, rootn, spc, spf, n, f, root, sect, ch, body :
        Parts(v, fls, total, rootn, spc, spf, n, f, root, sect, ch, body)
  BY GoodParts
<1>2. /\ v = Vol(total, rootn, spc, spf, f, root, sect)
      /\ Sized(total, rootn, spc, spf, n)
  BY <1>1 DEF Parts
<1> DEFINE E == Live(root, rootn)
<1>3. v.root = root /\ Entries(v) = E /\ v.fats[1] = f /\ v.fats[2] = f
  BY <1>2, VolFields
<1>4. Kept(n, spc, Map(f, n), sect, E, ch, body)
  BY <1>1 DEF Parts, Filed
<1>5. ASSUME NEW i \in E
      PROVE  /\ WholeChain(v, v.root[i].first) = ch[i]
             /\ ChainOf(n, Map(f, n), ch[i])
  <2> DEFINE name == v.root[i].name
             q == ch[i]
             b == body[i]
             e == root[i]
  <2>1. i \in Entries(v) /\ name = v.root[i].name
    BY <1>3
  <2>2. e = Dirent(name, q, b) /\ HasFile(n, spc, Map(f, n), sect, q, b)
    <3> HIDE DEF name
    <3> QED BY <1>1, <2>1, EntryIs
  <2> DEFINE c == e.first
  <2>3. c = q[1] /\ ChainOf(n, Map(f, n), q) /\ OneToOne(q)
    BY <2>2 DEF Dirent, HasFile
  <2> HIDE DEF q, b, e, c
  <2>4. WholeChain(v, c) = q
    BY <1>2, <2>3, ChainWhole
  <2> QED BY <1>3, <2>3, <2>4 DEF c, e, q
<1>6. n \in Nat /\ n = ClusterCount(total, rootn, spc, spf)
  BY <1>2 DEF Sized
<1>7. ClustersOf(v) = Clus(n)
  <2>1. v.total = total /\ v.rootn = rootn /\ v.spc = spc /\ v.spf = spf
    BY <1>2, VolFields
  <2> QED BY <1>6, <2>1 DEF ClustersOf, Clus
<1> HIDE DEF E
<1>8. ASSUME NEW c \in Clus(n)
      PROVE  Cardinality({i \in E : c \in Named(WholeChain(v, v.root[i].first))})
               = IF Get(f, c) = 0 THEN 0 ELSE 1
  <2> DEFINE H == {i \in E : c \in Named(WholeChain(v, v.root[i].first))}
  <2>1. H = {i \in E : c \in Named(ch[i])}
    BY <1>5
  <2>2. Map(f, n)[c] = Get(f, c)
    BY DEF Map
  <2>3. CASE Get(f, c) = 0
    <3>1. H = {}
      <4> SUFFICES ASSUME NEW i \in E, c \in Named(ch[i]) PROVE FALSE
        BY <2>1
      <4> DEFINE q == ch[i]
                 g == Map(f, n)
      <4>1. ChainOf(n, g, q) /\ c \in Named(q) /\ g[c] = 0
        BY <1>5, <2>2, <2>3
      <4> HIDE DEF q, g
      <4> QED BY <1>6, <4>1, ChainUsed
    <3> HIDE DEF H
    <3>2. Cardinality(H) = 0
      BY <3>1, FS_EmptySet
    <3> QED BY <2>3, <3>2 DEF H
  <2>4. CASE Get(f, c) # 0
    <3>1. PICK i \in E : c \in Named(ch[i])
      BY <1>4, <2>2, <2>4 DEF Kept
    <3>2. \A j \in E : c \in Named(ch[j]) => j = i
      BY <1>4, <3>1 DEF Kept
    <3>3. H = {i}
      BY <2>1, <3>1, <3>2
    <3> HIDE DEF H
    <3>4. Cardinality(H) = 1
      BY <3>3, FS_Singleton
    <3> QED BY <2>4, <3>4 DEF H
  <2> QED BY <2>3, <2>4
<1> QED BY <1>3, <1>7, <1>8

(* A set of numbers that is not empty has a least one.                     *)
LEMMA Smallest ==
  ASSUME NEW S, \A i \in S : i \in Nat, S # {}
  PROVE  \E i \in S : \A j \in S : i <= j
<1> DEFINE P == {k \in Nat : \A j \in 0..k : j \notin S}
<1> SUFFICES ASSUME \A i \in S : \E j \in S : ~(i <= j) PROVE FALSE
  OBVIOUS
<1>1. ASSUME NEW k \in Nat, \A j \in Nat : j < k => j \notin S PROVE k \notin S
  BY <1>1
<1>2. 0 \in P
  <2>1. \A j \in 0..0 : j = 0
    OBVIOUS
  <2>2. 0 \notin S
    BY <1>1
  <2> QED BY <2>1, <2>2
<1>3. ASSUME NEW k \in Nat, k \in P PROVE k + 1 \in P
  <2>1. \A j \in Nat : j < k + 1 => j \in 0..k
    OBVIOUS
  <2>2. k + 1 \notin S
    BY <1>1, <1>3, <2>1
  <2>3. \A j \in 0..k + 1 : j \in 0..k \/ j = k + 1
    OBVIOUS
  <2> QED BY <1>3, <2>2, <2>3
<1>4. \A k \in Nat : k \in P
  <2> HIDE DEF P
  <2> QED BY <1>2, <1>3, Induction
<1>5. PICK i \in S : i \in Nat
  OBVIOUS
<1>6. i \in 0..i
  BY <1>5
<1> QED BY <1>4, <1>5, <1>6

(* The entries that are left and one more.                                 *)
LEMMA ListedWithout ==
  ASSUME NEW root, NEW E, NEW ch, NEW body, NEW fls, Listed(root, E, ch, body, fls),
         NEW name, NEW E2 \in SUBSET E,
         \A i \in E : i \in E2 <=> root[i].name # name,
         NEW root2, Agree(E2, root, root2),
         NEW fls2, fls2 = [x \in DOMAIN fls \ {name} |-> fls[x]]
  PROVE  Listed(root2, E2, ch, body, fls2) /\ name \notin NamesOf(root2, E2)
<1>1. \A i \in E2 : i \in E /\ root2[i] = root[i] /\ root[i].name # name
  BY DEF Agree
<1>2. \A i \in E2 : root2[i] = Dirent(root2[i].name, ch[i], body[i])
  BY <1>1 DEF Listed
<1>3. \A i, j \in E2 : root2[i].name = root2[j].name => i = j
  BY <1>1 DEF Listed
<1>4. DOMAIN fls = NamesOf(root, E)
  <2> DEFINE N == NamesOf(root, E)
  <2>1. fls = [x \in N |-> fls[x]]
    BY DEF Listed
  <2> HIDE DEF N
  <2>2. DOMAIN fls = N
    BY <2>1
  <2> QED BY <2>2 DEF N
<1>5. (DOMAIN fls) \ {name} = NamesOf(root2, E2)
  <2>1. ASSUME NEW x \in (DOMAIN fls) \ {name} PROVE x \in NamesOf(root2, E2)
    <3>1. PICK i \in E : x = root[i].name
      BY <1>4 DEF NamesOf
    <3>2. i \in E2 /\ x = root2[i].name
      BY <1>1, <3>1
    <3> QED BY <3>2 DEF NamesOf
  <2>2. ASSUME NEW x \in NamesOf(root2, E2) PROVE x \in (DOMAIN fls) \ {name}
    <3>1. PICK i \in E2 : x = root2[i].name
      BY DEF NamesOf
    <3>2. i \in E /\ x = root[i].name /\ x # name
      BY <1>1, <3>1
    <3>3. x \in NamesOf(root, E)
      BY <3>2 DEF NamesOf
    <3> QED BY <1>4, <3>2, <3>3
  <2> QED BY <2>1, <2>2
<1> DEFINE M == NamesOf(root2, E2)
<1>6. fls2 = [x \in M |-> fls2[x]] /\ \A x \in M : fls2[x] = fls[x]
  <2>1. fls2 = [x \in M |-> fls[x]]
    BY <1>5
  <2> HIDE DEF M
  <2> QED BY <2>1
<1>7. ASSUME NEW i \in E2 PROVE fls2[root2[i].name] = body[i]
  <2>1. root2[i].name \in M
    BY DEF NamesOf
  <2>2. fls[root[i].name] = body[i]
    BY <1>1 DEF Listed
  <2> QED BY <1>1, <1>6, <2>1, <2>2
<1>8. name \notin M
  BY <1>5
<1> QED BY <1>2, <1>3, <1>6, <1>7, <1>8 DEF Listed

LEMMA ListedWith ==
  ASSUME NEW root, NEW E, NEW ch, NEW body, NEW fls, Listed(root, E, ch, body, fls),
         NEW name, name \notin NamesOf(root, E), NEW slot, slot \notin E,
         NEW E2, E2 = E \cup {slot}, NEW q, NEW b,
         NEW root2, Agree(E, root, root2), root2[slot] = Dirent(name, q, b),
         NEW ch2, Agree(E, ch, ch2), ch2[slot] = q,
         NEW body2, Agree(E, body, body2), body2[slot] = b,
         NEW fls2, fls2 = [x \in DOMAIN fls \cup {name} |-> IF x = name THEN b ELSE fls[x]]
  PROVE  Listed(root2, E2, ch2, body2, fls2)
<1>1. \A i \in E : root2[i] = root[i] /\ ch2[i] = ch[i] /\ body2[i] = body[i]
  BY DEF Agree
<1>2. root2[slot].name = name
  BY DEF Dirent
<1>3. \A i \in E : root[i].name # name
  BY DEF NamesOf
<1>4. \A i \in E2 : root2[i] = Dirent(root2[i].name, ch2[i], body2[i])
  BY <1>1, <1>2 DEF Listed
<1>5. ASSUME NEW i \in E2, NEW j \in E2, root2[i].name = root2[j].name PROVE i = j
  BY <1>1, <1>2, <1>3, <1>5 DEF Listed
<1>6. DOMAIN fls = NamesOf(root, E)
  <2> DEFINE N == NamesOf(root, E)
  <2>1. fls = [x \in N |-> fls[x]]
    BY DEF Listed
  <2> HIDE DEF N
  <2>2. DOMAIN fls = N
    BY <2>1
  <2> QED BY <2>2 DEF N
<1>7. (DOMAIN fls) \cup {name} = NamesOf(root2, E2)
  <2>1. ASSUME NEW x \in DOMAIN fls PROVE x \in NamesOf(root2, E2)
    <3>1. PICK i \in E : x = root[i].name
      BY <1>6 DEF NamesOf
    <3>2. i \in E2 /\ x = root2[i].name
      BY <1>1, <3>1
    <3> QED BY <3>2 DEF NamesOf
  <2>2. name \in NamesOf(root2, E2)
    BY <1>2 DEF NamesOf
  <2>3. ASSUME NEW x \in NamesOf(root2, E2), x # name PROVE x \in DOMAIN fls
    <3>1. PICK i \in E2 : x = root2[i].name
      BY DEF NamesOf
    <3>2. i \in E /\ x = root[i].name
      BY <1>1, <1>2, <2>3, <3>1
    <3>3. x \in NamesOf(root, E)
      BY <3>2 DEF NamesOf
    <3> QED BY <1>6, <3>3
  <2> QED BY <2>1, <2>2, <2>3
<1> DEFINE M == NamesOf(root2, E2)
<1>8. fls2 = [x \in M |-> fls2[x]] /\ \A x \in M : fls2[x] = IF x = name THEN b ELSE fls[x]
  <2>1. fls2 = [x \in M |-> IF x = name THEN b ELSE fls[x]]
    BY <1>7
  <2> HIDE DEF M
  <2> QED BY <2>1
<1>9. ASSUME NEW i \in E2 PROVE fls2[root2[i].name] = body2[i]
  <2>1. root2[i].name \in M
    BY DEF NamesOf
  <2>2. CASE i = slot
    BY <1>2, <1>8, <2>1, <2>2
  <2>3. CASE i # slot
    <3>1. i \in E
      BY <2>3
    <3>2. fls[root[i].name] = body[i] /\ root[i].name # name
      BY <1>3, <3>1 DEF Listed
    <3> QED BY <1>1, <1>8, <2>1, <3>1, <3>2
  <2> QED BY <2>2, <2>3
<1> QED BY <1>4, <1>5, <1>8, <1>9 DEF Listed

-----------------------------------------------------------------------------
(* Giving back the clusters of a file.                                     *)
LEMMA PutAllIs ==
  ASSUME NEW total, NEW rootn, NEW spc, NEW spf, NEW f, NEW root, NEW sect, NEW g,
         NEW v, v = Vol(total, rootn, spc, spf, f, root, sect)
  PROVE  PutAll(v, g) = Vol(total, rootn, spc, spf, g, root, sect)
BY DEF Vol, PutAll

Freed(w, total, rootn, spc, spf, n, g, root, sect, E2, ch, body) ==
  /\ w = Vol(total, rootn, spc, spf, g, root, sect) /\ g \in Fat(spf * SECTOR)
  /\ Kept(n, spc, Map(g, n), sect, E2, ch, body)

(* The other files stay when one gives its clusters back.                  *)
LEMMA FreeGives ==
  ASSUME NEW v, NEW fls, NEW total, NEW rootn, NEW spc, NEW spf, NEW n, NEW f, NEW root,
         NEW sect, NEW ch, NEW body,
         Parts(v, fls, total, rootn, spc, spf, n, f, root, sect, ch, body),
         NEW i \in Entries(v), NEW c, c = v.root[i].first,
         NEW E2, E2 = Live(root, rootn) \ {i}
  PROVE  \E g : Freed(FreeChain(v, c), total, rootn, spc, spf, n, g, root, sect, E2, ch, body)
<1> DEFINE q == ch[i]
           b == body[i]
           name == v.root[i].name
           E == Live(root, rootn)
           len == spf * SECTOR
           h == Map(f, n)
<1>1. /\ v = Vol(total, rootn, spc, spf, f, root, sect)
      /\ Sized(total, rootn, spc, spf, n)
      /\ f \in Fat(len) /\ Kept(n, spc, h, sect, E, ch, body)
  BY DEF Parts, Filed
<1>2. n \in Nat /\ spc \in Nat \ {0} /\ len \in Nat /\ FatHolds(n, len)
  <2>1. SECTOR \in Nat /\ spf \in Nat
    BY <1>1, VolumeTypes DEF Sized
  <2> QED BY <1>1, <2>1 DEF Sized
<1>3. v.root = root /\ Entries(v) = E /\ v.fats[1] = f
  BY <1>1, VolFields
<1>4. root[i] = Dirent(name, q, b) /\ HasFile(n, spc, h, sect, q, b)
  <2>1. name = v.root[i].name
    OBVIOUS
  <2> HIDE DEF name
  <2>2. root[i] = Dirent(name, ch[i], body[i])
        /\ HasFile(n, spc, Map(f, n), sect, ch[i], body[i])
    BY <2>1, EntryIs
  <2> QED BY <2>2
<1>5. c = q[1] /\ ChainOf(n, h, q) /\ OneToOne(q) /\ q \in Seq(Clus(n))
  BY <1>3, <1>4 DEF Dirent, HasFile, ChainOf
<1> HIDE DEF q, E, len
<1>6. WholeChain(v, c) = q
  BY <1>1, <1>5, ChainWhole
<1>7. PICK g \in Fat(len) :
        /\ FreeChain(v, c) = PutAll(v, g)
        /\ \A d \in Named(q) : Map(g, n)[d] = 0
        /\ \A d \in Clus(n) : d \notin Named(q) => Map(g, n)[d] = Map(f, n)[d]
  BY <1>1, <1>2, <1>3, <1>5, <1>6, FreeChainIs
<1>8. FreeChain(v, c) = Vol(total, rootn, spc, spf, g, root, sect)
  BY <1>1, <1>7, PutAllIs
<1> DEFINE h2 == Map(g, n)
<1>9. FreeIn(h2, ch[i]) /\ Untouched(n, h, h2, ch[i])
  BY <1>7 DEF FreeIn, Untouched, q
<1>10. i \in E /\ E2 = E \ {i}
  BY <1>3 DEF E
<1> HIDE DEF h, h2
<1>11. Kept(n, spc, h2, sect, E2, ch, body)
  BY <1>1, <1>2, <1>9, <1>10, KeptWithout
<1>12. Freed(FreeChain(v, c), total, rootn, spc, spf, n, g, root, sect, E2, ch, body)
  BY <1>7, <1>8, <1>11 DEF Freed, h2, len
<1> QED BY <1>12

(* A slot of the directory that is written.                                *)
Reached(root, rootn, slot) ==
  slot \in 0..rootn - 1 /\ \A j \in 0..rootn - 1 : j < slot => root[j] # Vacant
SetSlot(root, slot, d) == [root EXCEPT ![slot] = d]
OtherSlots(E, slot) == E \ {slot}
WithSlot(E, slot, d) == IF d = Deleted THEN E ELSE E \cup {slot}

LEMMA SlotWritten ==
  ASSUME NEW rootn \in Nat, NEW root, Slots(root, rootn), Suffix(root, rootn),
         NEW slot, Reached(root, rootn, slot),
         NEW d, d # Vacant, NEW root2, root2 = SetSlot(root, slot, d),
         NEW E2, E2 = OtherSlots(Live(root, rootn), slot)
  PROVE  /\ Slots(root2, rootn) /\ Suffix(root2, rootn)
         /\ Agree(E2, root, root2) /\ root2[slot] = d
         /\ Live(root2, rootn) = WithSlot(E2, slot, d)
<1> USE DEF Reached, SetSlot, OtherSlots, WithSlot
<1>1. root = [i \in 0..rootn - 1 |-> root[i]]
  BY DEF Slots
<1>2. /\ root2 = [i \in 0..rootn - 1 |-> root2[i]] /\ root2[slot] = d
      /\ \A i \in 0..rootn - 1 : i # slot => root2[i] = root[i]
  BY <1>1
<1>3. Suffix(root2, rootn)
  <2> SUFFICES ASSUME NEW i \in 0..rootn - 1, NEW j \in 0..rootn - 1,
                      i <= j, root2[i] = Vacant
               PROVE  root2[j] = Vacant
    BY DEF Suffix
  <2>1. i # slot /\ root[i] = Vacant
    BY <1>2
  <2>2. j # slot
    BY <2>1
  <2> QED BY <1>2, <2>1, <2>2 DEF Suffix
<1>4. Live(root, rootn) = InUse(root, rootn) /\ Live(root2, rootn) = InUse(root2, rootn)
  BY <1>3, LiveIs
<1>5. Agree(E2, root, root2)
  BY <1>2, <1>4 DEF Agree, InUse
<1>6. ASSUME d = Deleted PROVE Live(root2, rootn) = E2
  BY <1>2, <1>4, <1>6 DEF InUse
<1>7. ASSUME d # Deleted PROVE Live(root2, rootn) = E2 \cup {slot}
  BY <1>2, <1>4, <1>7 DEF InUse
<1>8. Slots(root2, rootn)
  BY <1>2 DEF Slots
<1> QED BY <1>2, <1>3, <1>5, <1>6, <1>7, <1>8

(* A volume is not what a program that failed leaves.                      *)
LEMMA VolIsImage ==
  ASSUME NEW total \in Nat, total >= 16, NEW rootn, NEW spc, NEW spf, NEW f, NEW root, NEW sect
  PROVE  Vol(total, rootn, spc, spf, f, root, sect) # NoImage
<1>1. Vol(total, rootn, spc, spf, f, root, sect).total = total
  BY DEF Vol
<1>2. NoImage.total = 0
  BY DEF NoImage
<1> QED BY <1>1, <1>2

(* A file that is deleted leaves the others.                               *)
Kin(v, v2, i) ==
  \A j \in Entries(v) : j # i => j \in Entries(v2) /\ v2.root[j] = v.root[j]

LEMMA DeleteGood ==
  ASSUME NEW v, NEW fls, Good(v, fls), NEW i \in Entries(v),
         NEW name, name = v.root[i].name, NEW c, c = v.root[i].first,
         NEW v2, v2 = [FreeChain(v, c) EXCEPT !.root[i] = Deleted],
         NEW fls2, fls2 = [x \in DOMAIN fls \ {name} |-> fls[x]]
  PROVE  Good(v2, fls2) /\ v2 # NoImage /\ Kin(v, v2, i)
<1>1. PICK total, rootn, spc, spf, n, f, root, sect, ch, body :
        Parts(v, fls, total, rootn, spc, spf, n, f, root, sect, ch, body)
  BY GoodParts
<1> DEFINE E == Live(root, rootn)
           E2 == E \ {i}
           root2 == [root EXCEPT ![i] = Deleted]
           len == spf * SECTOR
<1>2. /\ v = Vol(total, rootn, spc, spf, f, root, sect)
      /\ Sized(total, rootn, spc, spf, n) /\ rootn \in ROOTS
      /\ Covers(sect, n, spc) /\ Slots(root, rootn) /\ Suffix(root, rootn)
      /\ Listed(root, E, ch, body, fls)
  BY <1>1 DEF Parts, Filed
<1>3. v.root = root /\ Entries(v) = E
  BY <1>2, VolFields
<1>4. rootn \in Nat /\ total \in Nat /\ total >= 16
  BY <1>2 DEF Sized
<1>5. PICK g : Freed(FreeChain(v, c), total, rootn, spc, spf, n, g, root, sect, E2, ch, body)
  BY <1>1, FreeGives
<1>6. /\ FreeChain(v, c) = Vol(total, rootn, spc, spf, g, root, sect)
      /\ g \in Fat(len) /\ Kept(n, spc, Map(g, n), sect, E2, ch, body)
  BY <1>5 DEF Freed
<1>7. v2 = Vol(total, rootn, spc, spf, g, root2, sect)
  BY <1>6 DEF Vol
<1>8. Reached(root, rootn, i)
  BY <1>3, <1>4 DEF Live, Reached
<1>9. /\ Slots(root2, rootn) /\ Suffix(root2, rootn)
      /\ Agree(E2, root, root2) /\ Live(root2, rootn) = E2
  <2> DEFINE d == Deleted
  <2>1. d # Vacant /\ d = Deleted
    BY DEF Deleted, Vacant
  <2> HIDE DEF d
  <2>2. root2 = SetSlot(root, i, d) /\ E2 = OtherSlots(Live(root, rootn), i)
    BY DEF d, SetSlot, OtherSlots
  <2> HIDE DEF root2, E2
  <2>3. rootn \in Nat /\ Slots(root, rootn) /\ Suffix(root, rootn)
    BY <1>2, <1>4
  <2>4. /\ Slots(root2, rootn) /\ Suffix(root2, rootn) /\ Agree(E2, root, root2)
        /\ Live(root2, rootn) = WithSlot(E2, i, d)
    BY <1>8, <2>1, <2>2, <2>3, SlotWritten
  <2> QED BY <2>1, <2>4 DEF WithSlot
<1>10. Listed(root2, E2, ch, body, fls2)
  <2>1. \A j \in E : j \in E2 <=> root[j].name # name
    BY <1>2, <1>3 DEF Listed
  <2>2. E2 \in SUBSET E
    OBVIOUS
  <2> HIDE DEF E2, E, root2
  <2> QED BY <1>2, <1>9, <2>1, <2>2, ListedWithout
<1>11. Parts(v2, fls2, total, rootn, spc, spf, n, g, root2, sect, ch, body)
  BY <1>2, <1>6, <1>7, <1>9, <1>10 DEF Parts, Filed
<1> HIDE DEF root2, E2
<1>12. Good(v2, fls2)
  BY <1>11, PartsGood
<1>13. v2 # NoImage
  BY <1>4, <1>7, VolIsImage
<1>14. v2.root = root2 /\ Entries(v2) = E2
  <2>1. v2.root = root2 /\ Entries(v2) = Live(root2, rootn)
    BY ONLY <1>7, VolFields
  <2> QED BY <1>9, <2>1
<1>15. Kin(v, v2, i)
  BY <1>3, <1>9, <1>14 DEF Kin, Agree, E2
<1> QED BY <1>12, <1>13, <1>15

(* The sectors that are written when one file is replaced.                 *)
PlaceOf(spc, use, need, s) == {i \in 1..need : s \div spc = use[i] - 2}
WrittenOf(spc, use, need, s) ==
  ((CHOOSE i \in PlaceOf(spc, use, need, s) : TRUE) - 1) * spc + (s % spc) + 1
Placed(sect, spc, use, need, b) ==
  [s \in DOMAIN sect |->
     IF PlaceOf(spc, use, need, s) = {} THEN sect[s]
     ELSE IF WrittenOf(spc, use, need, s) <= Len(b) THEN b[WrittenOf(spc, use, need, s)]
     ELSE Zero]

(* They can be read at their places, and no other cluster is written.      *)
LEMMA PlacedIs ==
  ASSUME NEW n \in Nat, NEW spc \in Nat \ {0}, NEW use \in Seq(Clus(n)), OneToOne(use),
         NEW b \in Seq(Sectors), NEW need, need = Len(use), need = Length(spc, b),
         NEW sect, Covers(sect, n, spc), NEW sect2, sect2 = Placed(sect, spc, use, need, b)
  PROVE  /\ Stored(spc, sect2, use, b) /\ Covers(sect2, n, spc)
         /\ Unwritten(n, spc, sect, sect2, use)
<1> DEFINE P(s) == PlaceOf(spc, use, need, s)
           W(s) == WrittenOf(spc, use, need, s)
           l == Len(b)
<1>1. l \in Nat /\ need \in Nat /\ \A i \in 1..need : use[i] \in Clus(n) /\ use[i] \in Nat
  <2>1. l \in Nat /\ need \in Nat
    BY LenProperties
  <2>2. \A i \in 1..need : use[i] \in Clus(n)
    BY ElementOfSeq
  <2>3. \A c \in Clus(n) : c \in Nat
    BY DEF Clus
  <2> QED BY <2>1, <2>2, <2>3
<1>2. /\ DOMAIN sect2 = 0..n * spc - 1
      /\ \A s \in 0..n * spc - 1 :
           sect2[s] = IF P(s) = {} THEN sect[s] ELSE IF W(s) <= l THEN b[W(s)] ELSE Zero
  <2>1. DOMAIN sect = 0..n * spc - 1
    BY DEF Covers
  <2>2. sect2 = [s \in 0..n * spc - 1 |->
           IF P(s) = {} THEN sect[s] ELSE IF W(s) <= l THEN b[W(s)] ELSE Zero]
    BY <2>1 DEF Placed
  <2> HIDE DEF P, W, l
  <2> QED BY <2>2
<1>3. ASSUME NEW j \in 1..l PROVE sect2[Spot(spc, use, j)] = b[j]
  <2> DEFINE s == Spot(spc, use, j)
             t == Turn(spc, j)
             r == Rest(spc, j)
             x == (t - 1) * spc
  <2>1. SpotOf(n, spc, use, j)
    <3>1. Len(use) = Length(spc, b) /\ j \in 1..Len(b)
      OBVIOUS
    <3> QED BY <3>1, SpotIs
  <2>2. /\ t \in 1..need /\ r \in 0..spc - 1 /\ j = x + r + 1 /\ s \in 0..n * spc - 1
        /\ s \div spc = use[t] - 2 /\ s % spc = r
    BY <2>1 DEF SpotOf
  <2>3. W(s) = ((CHOOSE i \in P(s) : TRUE) - 1) * spc + (s % spc) + 1
    BY DEF WrittenOf
  <2>4. P(s) = {t}
    <3>1. \A i \in 1..need : i \in P(s) <=> s \div spc = use[i] - 2
      BY DEF PlaceOf
    <3> DEFINE d == s \div spc
               y == use[t]
    <3>2. y \in Nat /\ d = y - 2
      BY <1>1, <2>2
    <3> HIDE DEF d, y, s, t
    <3>3. ASSUME NEW i \in 1..need PROVE i \in P(s) <=> i = t
      <4> DEFINE z == use[i]
      <4>1. z \in Nat /\ (i \in P(s) <=> d = z - 2)
        BY <1>1, <3>1 DEF d
      <4> HIDE DEF z
      <4>2. i \in P(s) <=> z = y
        BY <3>2, <4>1
      <4>3. z = y => i = t
        BY <2>2 DEF OneToOne, z, y
      <4>4. i = t => z = y
        BY DEF z, y
      <4> QED BY <4>2, <4>3, <4>4
    <3>4. \A i \in P(s) : i \in 1..need
      BY DEF PlaceOf
    <3> QED BY <2>2, <3>3, <3>4
  <2> HIDE DEF s, P, W, r
  <2>5. (CHOOSE i \in P(s) : TRUE) = t
    BY <2>4
  <2>6. W(s) = (t - 1) * spc + r + 1
    BY <2>2, <2>3, <2>5
  <2>7. W(s) = j
    BY <2>2, <2>6
  <2>8. P(s) # {} /\ W(s) <= l
    BY <1>1, <2>4, <2>7
  <2> QED BY <1>2, <2>2, <2>7, <2>8 DEF s
<1>4. ASSUME NEW s \in 0..n * spc - 1, (s \div spc) + 2 \notin Named(use)
      PROVE  sect2[s] = sect[s]
  <2> DEFINE d == s \div spc
  <2>1. d \in Nat
    <3>1. s \in Nat
      OBVIOUS
    <3> QED BY <3>1, Division
  <2>2. ASSUME NEW i \in 1..need, d = use[i] - 2 PROVE FALSE
    <3>1. d + 2 = use[i]
      <4> HIDE DEF d
      <4> QED BY <1>1, <2>1, <2>2
    <3>2. use[i] \in Named(use)
      BY NamedIs
    <3> QED BY <1>4, <3>1, <3>2
  <2>3. P(s) = {}
    BY <2>2 DEF PlaceOf
  <2> HIDE DEF P, W
  <2> QED BY <1>2, <2>3
<1> QED BY <1>2, <1>3, <1>4 DEF Stored, Covers, Unwritten

(* The clusters that are taken: the first of those that are free.          *)
Enough(free, need) == ~(Len(free) < need)
LowestOf(free, need) == SubSeq(free, 1, need)

LEMMA ChosenIs ==
  ASSUME NEW S, NEW free \in Seq(S), OneToOne(free), NEW need \in Nat, Enough(free, need),
         NEW use, use = LowestOf(free, need)
  PROVE  /\ use \in Seq(S) /\ Len(use) = need /\ OneToOne(use)
         /\ Named(use) \in SUBSET Named(free)
<1>1. Len(free) \in Nat /\ need <= Len(free)
  BY LenProperties DEF Enough
<1>2. use = First(free, need)
  BY <1>1 DEF First, LowestOf
<1>3. IsFirst(use, S, free, need)
  BY <1>2, FirstIs
<1>4. /\ use \in Seq(S) /\ Len(use) = need
      /\ \A i \in 1..need : i \in 1..Len(free) /\ use[i] = free[i]
  BY <1>1, <1>3 DEF IsFirst
<1>5. OneToOne(use)
  BY <1>4 DEF OneToOne
<1>6. ASSUME NEW c \in Named(use) PROVE c \in Named(free)
  <2>1. PICK i \in 1..need : c = use[i]
    <3>1. Named(use) = {use[k] : k \in 1..Len(use)}
      BY <1>4, LenProperties DEF Named
    <3> QED BY <1>4, <3>1
  <2> QED BY <1>4, <2>1, NamedIs
<1> QED BY <1>4, <1>5, <1>6

(* A volume to write a file into, at a slot of its directory.              *)
Spare(w, total, rootn, spc, spf, n, g, root, sect, slot, E, ch, body, fls, name) ==
  /\ w = Vol(total, rootn, spc, spf, g, root, sect)
  /\ Sized(total, rootn, spc, spf, n) /\ rootn \in ROOTS
  /\ g \in Fat(spf * SECTOR) /\ Covers(sect, n, spc)
  /\ Slots(root, rootn) /\ Suffix(root, rootn) /\ Reached(root, rootn, slot)
  /\ E = OtherSlots(Live(root, rootn), slot)
  /\ Kept(n, spc, Map(g, n), sect, E, ch, body)
  /\ Listed(root, E, ch, body, fls) /\ name \notin NamesOf(root, E)

Rewritten(w, slot, d, g2, sect2) ==
  [PutAll(w, g2) EXCEPT !.root[slot] = d, !.sect = sect2]
Adds(fls, name, b) == [x \in DOMAIN fls \cup {name} |-> IF x = name THEN b ELSE fls[x]]

Linkable(n, len, f, use, g) ==
  /\ n \in Nat /\ n + 1 < 4095 /\ len \in Nat /\ FatHolds(n, len) /\ f \in Fat(len)
  /\ use \in Seq(Clus(n)) /\ OneToOne(use) /\ Len(use) >= 1 /\ g = Linked(f, use, Len(use))

(* Linking the clusters of a file, as one step.                            *)
LEMMA LinkedGives ==
  ASSUME NEW n, NEW len, NEW f, NEW use, NEW g, Linkable(n, len, f, use, g)
  PROVE  g \in Fat(len) /\ ChainOf(n, Map(g, n), use) /\ Untouched(n, Map(f, n), Map(g, n), use)
<1>1. /\ n \in Nat /\ n + 1 < 4095 /\ len \in Nat /\ FatHolds(n, len) /\ f \in Fat(len)
      /\ use \in Seq(Clus(n)) /\ OneToOne(use) /\ Len(use) >= 1 /\ g = Linked(f, use, Len(use))
  BY DEF Linkable
<1>2. /\ g \in Fat(len) /\ ChainOf(n, Map(g, n), use)
      /\ \A d \in Clus(n) : d \notin Named(use) => Map(g, n)[d] = Map(f, n)[d]
  BY <1>1, LinkedIs
<1> QED BY <1>2 DEF Untouched

(* A file that is written into a ready volume is on it, with the others.   *)
LEMMA WriteGood ==
  ASSUME NEW w, NEW total, NEW rootn, NEW spc, NEW spf, NEW n, NEW g, NEW root, NEW sect,
         NEW slot, NEW E, NEW ch, NEW body, NEW fls, NEW name,
         Spare(w, total, rootn, spc, spf, n, g, root, sect, slot, E, ch, body, fls, name),
         NEW b \in Seq(Sectors), NEW need, need = Length(spc, b),
         NEW free, free = FreeClusters(g, n), Enough(free, need),
         NEW use, use = LowestOf(free, need),
         NEW g2, g2 = Linked(g, use, need),
         NEW sect2, sect2 = Placed(sect, spc, use, need, b),
         NEW d, d = Dirent(name, use, b),
         NEW v2, v2 = Rewritten(w, slot, d, g2, sect2),
         NEW fls2, fls2 = Adds(fls, name, b)
  PROVE  /\ Good(v2, fls2) /\ v2 # NoImage
         /\ v2.root = SetSlot(root, slot, d) /\ Entries(v2) = E \cup {slot}
<1> DEFINE len == spf * SECTOR
           h == Map(g, n)
           h2 == Map(g2, n)
<1>1. /\ w = Vol(total, rootn, spc, spf, g, root, sect)
      /\ Sized(total, rootn, spc, spf, n) /\ rootn \in ROOTS
      /\ g \in Fat(len) /\ Covers(sect, n, spc)
      /\ Slots(root, rootn) /\ Suffix(root, rootn) /\ Reached(root, rootn, slot)
      /\ E = OtherSlots(Live(root, rootn), slot)
      /\ Kept(n, spc, h, sect, E, ch, body)
      /\ Listed(root, E, ch, body, fls) /\ name \notin NamesOf(root, E)
  BY DEF Spare
<1>2. /\ total \in Nat /\ total >= 16 /\ rootn \in Nat /\ spc \in Nat \ {0}
      /\ n \in Nat /\ n + 1 < 4095 /\ len \in Nat /\ FatHolds(n, len)
  <2>1. SECTOR \in Nat /\ ENDMARKS \in 3..4088
    BY VolumeTypes
  <2>2. /\ total \in Nat /\ total >= 16 /\ rootn \in Nat /\ spc \in Nat \ {0}
        /\ n \in Nat /\ n + 1 < ENDMARKS /\ spf \in Nat /\ FatHolds(n, len)
    BY <1>1 DEF Sized
  <2> HIDE DEF len
  <2>3. n + 1 < 4095
    <3> DEFINE k == n + 1
               marks == ENDMARKS
    <3>1. k \in Nat /\ k < marks
      BY <2>2
    <3>2. marks \in Nat /\ marks < 4095
      BY VolumeTypes
    <3> HIDE DEF k, marks
    <3>3. k < 4095
      BY <3>1, <3>2
    <3> QED BY <3>3 DEF k
  <2>4. len \in Nat
    BY <2>1, <2>2 DEF len
  <2> QED BY <2>2, <2>3, <2>4
<1> HIDE DEF len
<1>3. /\ free \in Seq(Clus(n)) /\ OneToOne(free)
      /\ \A c \in Named(free) : h[c] = 0
  BY <1>2, FreeClustersAre
<1>4. need \in Nat /\ need >= 1
  BY <1>2, LengthIs
<1> DEFINE S == Clus(n)
<1>5. /\ use \in Seq(S) /\ Len(use) = need /\ OneToOne(use)
      /\ Named(use) \in SUBSET Named(free)
  <2>1. free \in Seq(S)
    BY <1>3
  <2> HIDE DEF S
  <2>2. OneToOne(free) /\ need \in Nat /\ Enough(free, need) /\ use = LowestOf(free, need)
    BY <1>3, <1>4
  <2>3. /\ use \in Seq(S) /\ Len(use) = need /\ OneToOne(use)
        /\ Named(use) \in SUBSET Named(free)
    BY <2>1, <2>2, ChosenIs
  <2> QED BY <2>3
<1>6. FreeIn(h, use)
  BY <1>3, <1>5 DEF FreeIn
<1>7. /\ g2 \in Fat(len) /\ ChainOf(n, h2, use)
      /\ Untouched(n, h, h2, use)
  <2>1. use \in Seq(Clus(n)) /\ Len(use) >= 1 /\ g2 = Linked(g, use, Len(use))
    BY <1>4, <1>5
  <2>2. Linkable(n, len, g, use, g2)
    BY <1>1, <1>2, <1>5, <2>1 DEF Linkable
  <2> QED BY <2>2, LinkedGives
<1>8. /\ Stored(spc, sect2, use, b) /\ Covers(sect2, n, spc)
      /\ Unwritten(n, spc, sect, sect2, use)
  <2>1. use \in Seq(Clus(n)) /\ need = Len(use)
    BY <1>5
  <2>2. /\ n \in Nat /\ spc \in Nat \ {0} /\ OneToOne(use) /\ need = Length(spc, b)
        /\ Covers(sect, n, spc) /\ sect2 = Placed(sect, spc, use, need, b)
    BY <1>1, <1>2, <1>5
  <2> QED BY ONLY b \in Seq(Sectors), <2>1, <2>2, PlacedIs
<1> HIDE DEF h, h2
<1>9. HasFile(n, spc, h2, sect2, use, b)
  BY <1>5, <1>7, <1>8 DEF HasFile
<1> DEFINE E2 == E \cup {slot}
           ch2 == [i \in E2 |-> IF i = slot THEN use ELSE ch[i]]
           body2 == [i \in E2 |-> IF i = slot THEN b ELSE body[i]]
<1>10. slot \notin E
  BY <1>1 DEF OtherSlots
<1>11. /\ E2 = E \cup {slot}
       /\ Agree(E, ch, ch2) /\ ch2[slot] = use /\ Agree(E, body, body2) /\ body2[slot] = b
  BY <1>10 DEF Agree
<1> HIDE DEF E2, ch2, body2
<1>12. Kept(n, spc, h2, sect2, E2, ch2, body2)
  <2>1. n \in Nat /\ spc \in Nat \ {0} /\ Kept(n, spc, h, sect, E, ch, body)
    BY <1>1, <1>2
  <2> QED BY <1>6, <1>7, <1>8, <1>9, <1>10, <1>11, <2>1, KeptWith
<1>13. d # Vacant /\ d # Deleted
  <2>1. use \in Seq(Clus(n)) /\ Len(use) >= 1
    BY <1>4, <1>5
  <2>2. n \in Nat /\ d = Dirent(name, use, b)
    BY <1>2
  <2>3. Dirent(name, use, b) \notin {Vacant, Deleted}
    BY <2>1, <2>2, DirentIs, Zenon
  <2> QED BY <2>2, <2>3
<1> DEFINE root2 == SetSlot(root, slot, d)
<1>14. root2 = SetSlot(root, slot, d)
  OBVIOUS
<1> HIDE DEF root2
<1>15. /\ Slots(root2, rootn) /\ Suffix(root2, rootn) /\ Agree(E, root, root2)
       /\ root2[slot] = d /\ Live(root2, rootn) = E2
  <2>1. rootn \in Nat /\ Slots(root, rootn) /\ Suffix(root, rootn)
        /\ Reached(root, rootn, slot) /\ E = OtherSlots(Live(root, rootn), slot) /\ d # Vacant
    BY <1>1, <1>2, <1>13
  <2>2. /\ Slots(root2, rootn) /\ Suffix(root2, rootn) /\ Agree(E, root, root2)
        /\ root2[slot] = d /\ Live(root2, rootn) = WithSlot(E, slot, d)
    BY <1>14, <2>1, SlotWritten
  <2> QED BY <1>11, <1>13, <2>2 DEF WithSlot
<1>16. Listed(root2, E2, ch2, body2, fls2)
  <2>1. fls2 = [x \in DOMAIN fls \cup {name} |-> IF x = name THEN b ELSE fls[x]]
    BY DEF Adds
  <2>2. Listed(root, E, ch, body, fls) /\ name \notin NamesOf(root, E)
        /\ root2[slot] = Dirent(name, use, b)
    BY <1>1, <1>15
  <2>3. Agree(E, root, root2)
    BY <1>15
  <2> QED BY ONLY <1>10, <1>11, <2>1, <2>2, <2>3, ListedWith
<1>17. v2 = Vol(total, rootn, spc, spf, g2, root2, sect2)
  BY <1>1, <1>14 DEF Rewritten, PutAll, Vol, SetSlot
<1>18. Parts(v2, fls2, total, rootn, spc, spf, n, g2, root2, sect2, ch2, body2)
  <2>1. Filed(n, spc, len, rootn, g2, root2, sect2, ch2, body2, fls2)
    BY <1>7, <1>8, <1>12, <1>15, <1>16 DEF Filed, h2
  <2> QED BY <1>1, <1>17, <2>1 DEF Parts, len
<1>19. Good(v2, fls2)
  BY <1>18, PartsGood
<1>20. v2 # NoImage
  BY <1>2, <1>17, VolIsImage
<1>21. v2.root = root2 /\ Entries(v2) = E2
  <2>1. v2.root = root2 /\ Entries(v2) = Live(root2, rootn)
    BY ONLY <1>17, VolFields
  <2> QED BY <1>15, <2>1
<1> QED BY <1>14, <1>19, <1>20, <1>21 DEF E2

(* What addfile writes, once it has its slot and has given back the        *)
(* clusters of a file of that name.                                        *)
Blank(v) == {i \in 0..v.rootn - 1 : v.root[i] \in {Vacant, Deleted}}
SlotFor(v, name) ==
  IF name \in NamesIn(v) THEN EntryOf(v, name)
  ELSE CHOOSE i \in Blank(v) : \A j \in Blank(v) : i <= j
Cleared(v, name) ==
  IF name \in NamesIn(v) THEN FreeChain(v, v.root[SlotFor(v, name)].first) ELSE v
Room(v, name) == name \in NamesIn(v) \/ Blank(v) # {}

Shaped(v, total, rootn, spc, spf, n) ==
  /\ v.total = total /\ v.rootn = rootn /\ v.spc = spc /\ v.spf = spf
  /\ n = ClusterCount(total, rootn, spc, spf)

Choice(spc, n, g, sect, name, b, need, free, use, g2, sect2, d) ==
  /\ need = Length(spc, b) /\ free = FreeClusters(g, n) /\ use = LowestOf(free, need)
  /\ g2 = Linked(g, use, need) /\ sect2 = Placed(sect, spc, use, need, b)
  /\ d = Dirent(name, use, b)

Begins(v, name, slot, w) == slot = SlotFor(v, name) /\ w = Cleared(v, name)

(* The whole of a replacement, from these parts.                           *)
LEMMA ReplaceIs ==
  ASSUME NEW total, NEW rootn, NEW spc, NEW spf, NEW g, NEW root, NEW sect,
         NEW v, NEW n, Shaped(v, total, rootn, spc, spf, n),
         NEW name, NEW b, NEW slot, NEW w, Begins(v, name, slot, w),
         w = Vol(total, rootn, spc, spf, g, root, sect),
         NEW need, NEW free, NEW use, NEW g2, NEW sect2, NEW d,
         Choice(spc, n, g, sect, name, b, need, free, use, g2, sect2, d),
         NEW v2, v2 = Replace(v, name, b), v2 # NoImage
  PROVE  Room(v, name) /\ Enough(free, need) /\ v2 = Rewritten(w, slot, d, g2, sect2)
<1> USE DEF Shaped, Choice, Begins
<1>1. w.fats[1] = g /\ w.sect = sect
  BY DEF Vol
<1> DEFINE X == PutAll(w, g2)
           Y == [X EXCEPT !.root[slot] = d,
                          !.sect = [s \in DOMAIN @ |->
                             IF PlaceOf(spc, use, need, s) = {} THEN @[s]
                             ELSE IF WrittenOf(spc, use, need, s) <= Len(b)
                                  THEN b[WrittenOf(spc, use, need, s)] ELSE Zero]]
<1>2. v2 = IF (name \notin NamesIn(v) /\ Blank(v) = {}) \/ Len(free) < need THEN NoImage
           ELSE Y
  <2> DEFINE w1 == Cleared(v, name)
             slot1 == SlotFor(v, name)
             need1 == Length(v.spc, b)
             free1 == FreeClusters(w1.fats[1], ClusterCount(v.total, v.rootn, v.spc, v.spf))
             use1 == LowestOf(free1, need1)
             d1 == Dirent(name, use1, b)
             X1 == PutAll(w1, Linked(w1.fats[1], use1, need1))
  <2>1. v2 = IF (~(name \in NamesIn(v)) /\ Blank(v) = {}) \/ Len(free1) < need1 THEN NoImage
             ELSE [X1 EXCEPT !.root[slot1] = d1,
                             !.sect = [s \in DOMAIN @ |->
                                IF PlaceOf(v.spc, use1, need1, s) = {} THEN @[s]
                                ELSE IF WrittenOf(v.spc, use1, need1, s) <= Len(b)
                                     THEN b[WrittenOf(v.spc, use1, need1, s)] ELSE Zero]]
    BY DEF Replace, Blank, SlotFor, Cleared, Length, PlaceOf, WrittenOf, Dirent, LowestOf
  <2>2. w1 = w /\ slot1 = slot /\ need1 = need /\ w1.fats[1] = g
    BY <1>1
  <2> HIDE DEF w1, need1, slot1
  <2>3. free1 = free /\ use1 = use /\ d1 = d /\ X1 = X
    BY <2>2
  <2> HIDE DEF free1, use1, d1, X1, X
  <2> QED BY <2>1, <2>2, <2>3
<1>3. X = Vol(total, rootn, spc, spf, g2, root, sect)
  BY PutAllIs
<1>4. Y = Rewritten(w, slot, d, g2, sect2)
  <2> HIDE DEF X
  <2>1. Y = [X EXCEPT !.root[slot] = d, !.sect = Placed(sect, spc, use, need, b)]
    BY <1>3 DEF Vol, Placed
  <2> QED BY <2>1 DEF Rewritten, X
<1> HIDE DEF Y
<1> QED BY <1>2, <1>4 DEF Room, Enough

Same(v, v2) ==
  \A j \in Entries(v) : j \in Entries(v2) /\ v2.root[j].name = v.root[j].name

Drops(fls, name) == [x \in DOMAIN fls \ {name} |-> fls[x]]

(* Replacing a file is taking it away and adding it.                       *)
LEMMA AddsAll ==
  ASSUME NEW fls, NEW name, NEW b PROVE Adds(Drops(fls, name), name, b) = Adds(fls, name, b)
<1> DEFINE h == Drops(fls, name)
<1>1. DOMAIN h = (DOMAIN fls) \ {name} /\ \A x \in DOMAIN fls : x # name => h[x] = fls[x]
  BY DEF Drops
<1> HIDE DEF h
<1>2. (DOMAIN h) \cup {name} = (DOMAIN fls) \cup {name}
  BY <1>1
<1> QED BY <1>1, <1>2 DEF Adds, h

(* A volume in which a slot is ready, of the files other than the one that *)
(* will be written.                                                        *)
Ready(v, w, name, fls, slot, total, rootn, spc, spf, n, root) ==
  /\ Shaped(v, total, rootn, spc, spf, n) /\ spc \in Nat \ {0}
  /\ v.root = root /\ Entries(v) = Live(root, rootn)
  /\ \E g, sect, E, ch, body :
       Spare(w, total, rootn, spc, spf, n, g, root, sect, slot, E, ch, body,
             Drops(fls, name), name)

LEMMA ReadyFields ==
  ASSUME NEW v, NEW fls, NEW total, NEW rootn, NEW spc, NEW spf, NEW n, NEW f, NEW root,
         NEW sect, NEW ch, NEW body,
         Parts(v, fls, total, rootn, spc, spf, n, f, root, sect, ch, body)
  PROVE  /\ Shaped(v, total, rootn, spc, spf, n) /\ spc \in Nat \ {0} /\ v.rootn = rootn
         /\ v.root = root /\ Entries(v) = Live(root, rootn)
         /\ NamesIn(v) = NamesOf(root, Live(root, rootn))
<1>1. v = Vol(total, rootn, spc, spf, f, root, sect) /\ Sized(total, rootn, spc, spf, n)
  BY DEF Parts
<1>2. /\ v.total = total /\ v.rootn = rootn /\ v.spc = spc /\ v.spf = spf
      /\ v.root = root /\ Entries(v) = Live(root, rootn)
      /\ NamesIn(v) = NamesOf(root, Live(root, rootn))
  BY <1>1, VolFields
<1>3. n = ClusterCount(total, rootn, spc, spf) /\ spc \in Nat \ {0}
  BY <1>1 DEF Sized
<1> QED BY <1>2, <1>3 DEF Shaped

(* A slot is ready when a file of that name was there,                     *)
LEMMA ReadyOld ==
  ASSUME NEW v, NEW fls, NEW total, NEW rootn, NEW spc, NEW spf, NEW n, NEW f, NEW root,
         NEW sect, NEW ch, NEW body,
         Parts(v, fls, total, rootn, spc, spf, n, f, root, sect, ch, body),
         NEW name, name \in NamesIn(v), NEW slot, slot = SlotFor(v, name),
         NEW w, w = Cleared(v, name)
  PROVE  Ready(v, w, name, fls, slot, total, rootn, spc, spf, n, root)
<1> DEFINE E == Live(root, rootn)
           E2 == OtherSlots(E, slot)
           c == v.root[slot].first
           h == Drops(fls, name)
<1>1. PICK i \in Entries(v) : name = v.root[i].name
  BY DEF NamesIn
<1>2. slot = i
  <2>1. EntryOf(v, name) = i
    BY <1>1, EntryIs
  <2> QED BY <2>1 DEF SlotFor
<1>3. slot \in Entries(v) /\ c = v.root[slot].first /\ E2 = Live(root, rootn) \ {slot}
  BY <1>2 DEF OtherSlots
<1>4. w = FreeChain(v, c)
  BY DEF Cleared
<1> HIDE DEF E2, c
<1>5. PICK g : Freed(FreeChain(v, c), total, rootn, spc, spf, n, g, root, sect, E2, ch, body)
  BY <1>3, FreeGives
<1>6. /\ w = Vol(total, rootn, spc, spf, g, root, sect)
      /\ g \in Fat(spf * SECTOR) /\ Kept(n, spc, Map(g, n), sect, E2, ch, body)
  BY <1>4, <1>5 DEF Freed
<1>7. /\ Sized(total, rootn, spc, spf, n) /\ rootn \in ROOTS
      /\ Covers(sect, n, spc) /\ Slots(root, rootn) /\ Suffix(root, rootn)
      /\ Listed(root, E, ch, body, fls)
  BY DEF Parts, Filed
<1>8. /\ v.root = root /\ Entries(v) = E
  BY ReadyFields
<1>9. Reached(root, rootn, slot)
  <2>1. rootn \in Nat
    BY <1>7 DEF Sized
  <2> QED BY <1>3, <1>8, <2>1 DEF Live, Reached
<1>10. Listed(root, E2, ch, body, h) /\ name \notin NamesOf(root, E2)
  <2>1. \A j \in E : j \in E2 <=> root[j].name # name
    BY <1>1, <1>2, <1>7, <1>8 DEF Listed, E2, OtherSlots
  <2>2. E2 \in SUBSET E /\ Agree(E2, root, root)
    BY DEF Agree, E2, OtherSlots
  <2>3. h = [x \in DOMAIN fls \ {name} |-> fls[x]]
    BY DEF Drops
  <2>4. Listed(root, E, ch, body, fls)
    BY <1>7
  <2> HIDE DEF E, h
  <2> QED BY ONLY <2>1, <2>2, <2>3, <2>4, ListedWithout
<1>11. Spare(w, total, rootn, spc, spf, n, g, root, sect, slot, E2, ch, body, h, name)
  BY <1>6, <1>7, <1>9, <1>10 DEF Spare, E2
<1> QED BY <1>11, ReadyFields DEF Ready

(* and when there was none: the lowest free slot.                          *)
LEMMA ReadyNew ==
  ASSUME NEW v, NEW fls, NEW total, NEW rootn, NEW spc, NEW spf, NEW n, NEW f, NEW root,
         NEW sect, NEW ch, NEW body,
         Parts(v, fls, total, rootn, spc, spf, n, f, root, sect, ch, body),
         NEW name, name \notin NamesIn(v), Room(v, name), NEW slot, slot = SlotFor(v, name),
         NEW w, w = Cleared(v, name)
  PROVE  Ready(v, w, name, fls, slot, total, rootn, spc, spf, n, root)
<1> DEFINE E == Live(root, rootn)
           E2 == OtherSlots(E, slot)
           h == Drops(fls, name)
<1>1. /\ v = Vol(total, rootn, spc, spf, f, root, sect)
      /\ Sized(total, rootn, spc, spf, n) /\ rootn \in ROOTS /\ f \in Fat(spf * SECTOR)
      /\ Covers(sect, n, spc) /\ Slots(root, rootn) /\ Suffix(root, rootn)
      /\ Kept(n, spc, Map(f, n), sect, E, ch, body) /\ Listed(root, E, ch, body, fls)
  BY DEF Parts, Filed
<1>2. w = v
  BY DEF Cleared
<1>3. v.root = root /\ v.rootn = rootn /\ Entries(v) = E /\ NamesIn(v) = NamesOf(root, E)
  BY ReadyFields
<1>4. rootn \in Nat
  BY <1>1 DEF Sized
<1>5. E = InUse(root, rootn)
  BY <1>1, <1>4, LiveIs
<1> DEFINE B == Blank(v)
<1>6. /\ \A i \in B : i \in Nat
      /\ B = {i \in 0..rootn - 1 : root[i] \in {Vacant, Deleted}} /\ B # {}
  BY <1>3, <1>4 DEF Blank, Room
<1>7. slot \in B /\ \A j \in B : slot <= j
  <2>1. slot = CHOOSE i \in B : \A j \in B : i <= j
    BY DEF SlotFor
  <2> HIDE DEF B
  <2>2. \E i \in B : \A j \in B : i <= j
    BY <1>6, Smallest
  <2> QED BY <2>1, <2>2
<1>8. slot \notin E /\ Reached(root, rootn, slot)
  <2>1. slot \notin E
    BY <1>5, <1>6, <1>7 DEF InUse
  <2>2. ASSUME NEW j \in 0..rootn - 1, j < slot PROVE root[j] # Vacant
    <3>1. j \notin B
      BY <1>6, <1>7, <2>2
    <3> QED BY <1>6, <3>1
  <2> QED BY <1>6, <1>7, <2>1, <2>2 DEF Reached
<1>9. E2 = E
  BY <1>8 DEF OtherSlots
<1>10. h = fls /\ name \notin NamesOf(root, E)
  <2> DEFINE N == NamesOf(root, E)
  <2>1. fls = [x \in N |-> fls[x]] /\ name \notin N
    BY <1>1, <1>3 DEF Listed
  <2> HIDE DEF N
  <2>2. (DOMAIN fls) \ {name} = N
    BY <2>1
  <2> QED BY <2>1, <2>2 DEF Drops, N
<1>11. Spare(w, total, rootn, spc, spf, n, f, root, sect, slot, E2, ch, body, h, name)
  BY <1>1, <1>2, <1>8, <1>9, <1>10 DEF Spare
<1> QED BY <1>11, ReadyFields DEF Ready

(* A file that is replaced is replaced, and the others stay.               *)
LEMMA ReplaceGood ==
  ASSUME NEW v, NEW fls, Good(v, fls), NEW name, NEW b \in Seq(Sectors),
         NEW v2, v2 = Replace(v, name, b), v2 # NoImage
  PROVE  Good(v2, Adds(fls, name, b)) /\ Same(v, v2)
<1>1. PICK total, rootn, spc, spf, n, f, root, sect, ch, body :
        Parts(v, fls, total, rootn, spc, spf, n, f, root, sect, ch, body)
  BY GoodParts
<1> DEFINE slot == SlotFor(v, name)
           w == Cleared(v, name)
           h == Drops(fls, name)
           fls2 == Adds(h, name, b)
           need == Length(spc, b)
<1>2. Room(v, name)
  BY DEF Replace, Room, Blank
<1>3. Ready(v, w, name, fls, slot, total, rootn, spc, spf, n, root)
  <2>0. slot = SlotFor(v, name) /\ w = Cleared(v, name)
    OBVIOUS
  <2> HIDE DEF slot, w
  <2>1. CASE name \in NamesIn(v)
    BY <1>1, <2>0, <2>1, ReadyOld
  <2>2. CASE name \notin NamesIn(v)
    BY <1>1, <1>2, <2>0, <2>2, ReadyNew
  <2> QED BY <2>1, <2>2
<1>4. PICK g, sect1, E, ch1, body1 :
        Spare(w, total, rootn, spc, spf, n, g, root, sect1, slot, E, ch1, body1, h, name)
  BY <1>3 DEF Ready
<1> DEFINE free == FreeClusters(g, n)
           use == LowestOf(free, need)
           g2 == Linked(g, use, need)
           sect2 == Placed(sect1, spc, use, need, b)
           d == Dirent(name, use, b)
<1>5. /\ Shaped(v, total, rootn, spc, spf, n)
      /\ v.root = root /\ Entries(v) = Live(root, rootn)
      /\ w = Vol(total, rootn, spc, spf, g, root, sect1)
      /\ E = OtherSlots(Live(root, rootn), slot)
  BY <1>3, <1>4 DEF Ready, Spare
<1>6. Enough(free, need) /\ v2 = Rewritten(w, slot, d, g2, sect2)
  <2>1. /\ Begins(v, name, slot, w)
        /\ Choice(spc, n, g, sect1, name, b, need, free, use, g2, sect2, d)
    BY DEF Choice, Begins
  <2> HIDE DEF slot, w, need, free, use, g2, sect2, d
  <2>2. v2 = Replace(v, name, b) /\ v2 # NoImage
    OBVIOUS
  <2> QED BY ONLY <1>5, <2>1, <2>2, ReplaceIs
<1>7. /\ Good(v2, fls2) /\ v2.root = SetSlot(root, slot, d)
      /\ Entries(v2) = E \cup {slot}
  <2>1. /\ need = Length(spc, b)
        /\ free = FreeClusters(g, n) /\ use = LowestOf(free, need)
        /\ g2 = Linked(g, use, need) /\ sect2 = Placed(sect1, spc, use, need, b)
        /\ d = Dirent(name, use, b) /\ fls2 = Adds(h, name, b)
    OBVIOUS
  <2> HIDE DEF slot, w, need, free, use, g2, sect2, d, fls2, h
  <2>2. b \in Seq(Sectors)
    OBVIOUS
  <2> QED BY ONLY <1>4, <1>6, <2>1, <2>2, WriteGood
<1>8. fls2 = Adds(fls, name, b)
  BY AddsAll
<1>9. Slots(root, rootn) /\ slot \in 0..rootn - 1
  BY <1>4 DEF Spare, Reached
<1>10. ASSUME NEW j \in Entries(v)
       PROVE  j \in Entries(v2) /\ v2.root[j].name = v.root[j].name
  <2>1. j \in Entries(v2)
    BY <1>5, <1>7 DEF OtherSlots
  <2>2. j \in 0..rootn - 1
    BY <1>5 DEF Live
  <2>3. v2.root[j] = IF j = slot THEN d ELSE root[j]
    <3> HIDE DEF slot, d
    <3>1. root = [i \in 0..rootn - 1 |-> root[i]]
      BY <1>9 DEF Slots
    <3> QED BY <1>7, <2>2, <3>1 DEF SetSlot
  <2>4. CASE j # slot
    BY <1>5, <2>1, <2>3, <2>4
  <2>5. CASE j = slot
    <3>1. d.name = name
      BY DEF Dirent
    <3>2. v.root[j].name = name
      <4>1. CASE name \in NamesIn(v)
        <5>1. PICK i \in Entries(v) : name = v.root[i].name
          BY <4>1 DEF NamesIn
        <5>2. EntryOf(v, name) = i
          BY <1>1, <5>1, EntryIs
        <5> QED BY <2>5, <4>1, <5>1, <5>2 DEF SlotFor
      <4>2. CASE name \notin NamesIn(v)
        <5>1. slot \in Blank(v)
          <6> DEFINE B == Blank(v)
          <6>1. slot = CHOOSE i \in B : \A k \in B : i <= k
            BY <4>2 DEF SlotFor
          <6>2. (\A i \in B : i \in Nat) /\ B # {}
            <7>1. v.rootn \in Nat
              BY <1>1, <1>5 DEF Parts, Sized, Shaped
            <7> QED BY <1>2, <4>2, <7>1 DEF Room, Blank
          <6> HIDE DEF B
          <6>3. \E i \in B : \A k \in B : i <= k
            BY <6>2, Smallest
          <6> QED BY <6>1, <6>3 DEF B
        <5>2. root[j] \in {Vacant, Deleted}
          BY <1>5, <2>5, <5>1 DEF Blank, Shaped
        <5>3. root[j] # Deleted /\ root[j] # Vacant
          <6>1. rootn \in Nat
            BY <1>1 DEF Parts, Sized
          <6> QED BY <1>5, <6>1 DEF Live
        <5> QED BY <5>2, <5>3
      <4> QED BY <4>1, <4>2
    <3> QED BY <2>1, <2>3, <2>5, <3>1, <3>2
  <2> QED BY <2>4, <2>5
<1> QED BY <1>7, <1>8, <1>10 DEF Same

(* What a good volume says of its files.                                   *)
LEMMA GoodBodies ==
  ASSUME NEW v, NEW fls, Good(v, fls)
  PROVE  /\ v.rootn \in ROOTS /\ fls = [x \in NamesIn(v) |-> fls[x]]
         /\ \A x \in NamesIn(v) : fls[x] \in Seq(Sectors)
         /\ \A i, j \in Entries(v) : v.root[i].name = v.root[j].name => i = j
         /\ \A i \in Entries(v) : EntryOf(v, v.root[i].name) = i
<1>1. PICK total, rootn, spc, spf, n, f, root, sect, ch, body :
        Parts(v, fls, total, rootn, spc, spf, n, f, root, sect, ch, body)
  BY GoodParts
<1> DEFINE E == Live(root, rootn)
           N == NamesIn(v)
<1>2. /\ rootn \in ROOTS /\ Listed(root, E, ch, body, fls)
  BY <1>1 DEF Parts, Filed
<1>3. v.rootn = rootn /\ v.root = root /\ Entries(v) = E /\ N = NamesOf(root, E)
  BY <1>1, ReadyFields
<1>4. fls = [x \in N |-> fls[x]]
  BY <1>2, <1>3 DEF Listed
<1>5. ASSUME NEW x \in N PROVE fls[x] \in Seq(Sectors)
  <2>1. PICK i \in Entries(v) : x = v.root[i].name
    BY DEF NamesIn
  <2>2. fls[x] = body[i] /\ HasFile(n, spc, Map(f, n), sect, ch[i], body[i])
    BY <1>1, <2>1, EntryIs
  <2> QED BY <2>2 DEF HasFile
<1>6. \A i, j \in E : root[i].name = root[j].name => i = j
  BY <1>2 DEF Listed
<1>7. ASSUME NEW i \in Entries(v) PROVE EntryOf(v, v.root[i].name) = i
  <2> DEFINE x == v.root[i].name
  <2>1. x = v.root[i].name
    OBVIOUS
  <2> HIDE DEF x
  <2>2. EntryOf(v, x) = i
    BY <1>1, <2>1, EntryIs
  <2> QED BY <2>1, <2>2
<1> QED BY <1>2, <1>3, <1>4, <1>5, <1>6, <1>7

(* The names of the directory, without some.                               *)
LEMMA NamesFoundAre ==
  ASSUME NEW v, NEW fls, Good(v, fls), NEW without, NEW s, s = NamesFound(v, without)
  PROVE  s \in Seq(NamesIn(v)) /\ Named(s) = NamesIn(v) \ without
<1> DEFINE m == v.rootn
           S == NamesIn(v)
           T == {k \in 1..m : k - 1 \in Entries(v) /\ v.root[k - 1].name \notin without}
           val == [k \in 1..m |-> v.root[k - 1].name]
<1>1. m \in Nat /\ \A i, j \in Entries(v) : v.root[i].name = v.root[j].name => i = j
  BY GoodBodies, VolumeAssumptions
<1>2. ASSUME NEW k \in 1..m
      PROVE  /\ val[k] = v.root[k - 1].name
             /\ k \in T <=> (k - 1 \in Entries(v) /\ v.root[k - 1].name \notin without)
  OBVIOUS
<1>3. T \in SUBSET (1..m)
  OBVIOUS
<1>4. \A i \in Entries(v) : i \in 0..m - 1
  BY DEF Entries
<1> HIDE DEF m, T, val
<1>5. T \in SUBSET Nat /\ \A k \in T : k \in 1..m /\ val[k] \in S
  <2>1. T \in SUBSET Nat
    BY <1>1, <1>3
  <2>2. ASSUME NEW k \in T PROVE k \in 1..m /\ val[k] \in S
    BY <1>2, <1>3 DEF NamesIn
  <2> QED BY <2>1, <2>2
<1>6. ASSUME NEW k \in T, NEW l \in T, val[k] = val[l] PROVE k = l
  <2>1. k - 1 = l - 1
    BY <1>1, <1>2, <1>3, <1>6
  <2> QED BY <1>1, <1>3, <2>1
<1> HIDE DEF S
<1>7. PICK h \in [0..m -> Seq(S)] : Scans(h, T, val, m)
  BY <1>1, <1>5, ScanExists
<1> DEFINE Is(t) == t = [k \in 0..m |->
                 IF k = 0 THEN <<>>
                 ELSE IF k - 1 \in Entries(v) /\ v.root[k - 1].name \notin without
                      THEN Append(t[k - 1], v.root[k - 1].name) ELSE t[k - 1]]
           names == CHOOSE t : Is(t)
<1>8. Is(h)
  <2>1. ASSUME NEW k \in 0..m
        PROVE  h[k] = IF k = 0 THEN <<>>
                      ELSE IF k - 1 \in Entries(v) /\ v.root[k - 1].name \notin without
                           THEN Append(h[k - 1], v.root[k - 1].name) ELSE h[k - 1]
    <3>1. CASE k = 0
      BY <1>7, <3>1 DEF Scans
    <3>2. CASE k # 0
      <4>1. k \in 1..m
        BY <1>1, <3>2
      <4>2. h[k] = IF k \in T THEN Append(h[k - 1], val[k]) ELSE h[k - 1]
        BY <1>7, <4>1 DEF Scans
      <4>3. /\ val[k] = v.root[k - 1].name
            /\ k \in T <=> (k - 1 \in Entries(v) /\ v.root[k - 1].name \notin without)
        BY <1>2, <4>1
      <4> QED BY <3>2, <4>2, <4>3
    <3> QED BY <3>1, <3>2
  <2>2. h = [k \in 0..m |-> h[k]]
    OBVIOUS
  <2> QED BY <2>1, <2>2
<1>9. Is(names)
  <2> HIDE DEF Is
  <2> QED BY <1>8
<1>10. Scans(names, T, val, m)
  <2> HIDE DEF names
  <2>1. names[0] = <<>>
    BY <1>1, <1>9
  <2>2. ASSUME NEW k \in 1..m
        PROVE  names[k] = IF k \in T THEN Append(names[k - 1], val[k]) ELSE names[k - 1]
    <3>1. k \in 0..m /\ k # 0
      BY <1>1
    <3>2. /\ val[k] = v.root[k - 1].name
          /\ k \in T <=> (k - 1 \in Entries(v) /\ v.root[k - 1].name \notin without)
      BY <1>2
    <3>3. names[k] = IF k - 1 \in Entries(v) /\ v.root[k - 1].name \notin without
                     THEN Append(names[k - 1], v.root[k - 1].name) ELSE names[k - 1]
      BY <1>9, <3>1
    <3> QED BY <3>2, <3>3
  <2> QED BY <2>1, <2>2 DEF Scans
<1>11. s = names[m]
  BY DEF NamesFound, m
<1> HIDE DEF names
<1>12. Scanned(S, s, T, val, m)
  <2>1. /\ m \in Nat /\ T \in SUBSET Nat /\ \A k \in T : val[k] \in S
        /\ \A k, l \in T : val[k] = val[l] => k = l
    BY <1>1, <1>5, <1>6
  <2>2. Scanned(S, names[m], T, val, m)
    BY ONLY <1>10, <2>1, ScanResult
  <2> QED BY <1>11, <2>2
<1>13. /\ s \in Seq(S)
       /\ \A i \in 1..Len(s) : \E t \in T : s[i] = val[t]
       /\ \A t \in T : \E i \in 1..Len(s) : s[i] = val[t]
  BY <1>5, <1>12 DEF Scanned
<1>14. Named(s) = {s[i] : i \in 1..Len(s)}
  BY <1>13, LenProperties DEF Named
<1>15. ASSUME NEW x \in Named(s) PROVE x \in NamesIn(v) /\ x \notin without
  <2>1. PICK t \in T : x = val[t]
    BY <1>13, <1>14
  <2> QED BY <1>2, <1>5, <2>1 DEF S
<1>16. ASSUME NEW x \in NamesIn(v), x \notin without PROVE x \in Named(s)
  <2>1. PICK i \in Entries(v) : x = v.root[i].name
    BY DEF NamesIn
  <2> DEFINE k == i + 1
  <2>2. k \in 1..m /\ k - 1 = i
    BY <1>1, <1>4
  <2> HIDE DEF k
  <2>3. k \in T /\ val[k] = x
    BY <1>2, <1>16, <2>1, <2>2
  <2> QED BY <1>13, <1>14, <2>3
<1> QED BY <1>13, <1>15, <1>16 DEF S

(* IO.SYS is the first file of the directory and MSDOS.SYS the second.     *)
SystemFirst(v) ==
  /\ 0 \in Entries(v) /\ 1 \in Entries(v)
  /\ v.root[0].name = "IO.SYS" /\ v.root[1].name = "MSDOS.SYS"

SystemRow(names) == SystemFiles \o names

(* The order mkdisk builds in has every name, the system files first.      *)
LEMMA SystemRowIs ==
  ASSUME NEW S, Named(SystemFiles) \in SUBSET S, NEW names \in Seq(S), NEW row,
         row = SystemRow(names)
  PROVE  /\ row \in Seq(S) /\ Named(row) = Named(SystemFiles) \cup Named(names)
         /\ 2 <= Len(row) /\ row[1] = "IO.SYS" /\ row[2] = "MSDOS.SYS"
<1> DEFINE two == SystemFiles
           l == Len(names)
<1>1. DOMAIN two = 1..2 /\ Len(two) = 2 /\ two[1] = "IO.SYS" /\ two[2] = "MSDOS.SYS"
  BY DEF SystemFiles
<1>2. two \in Seq(S)
  <2>1. Named(two) = {"IO.SYS", "MSDOS.SYS"}
    BY DEF Named, SystemFiles
  <2>2. "IO.SYS" \in S /\ "MSDOS.SYS" \in S
    BY <2>1
  <2> QED BY <2>2 DEF SystemFiles
<1> HIDE DEF two
<1>3. /\ row = two \o names /\ l \in Nat /\ DOMAIN names = 1..l
  BY LenProperties DEF SystemRow, two
<1>4. /\ row \in Seq(S) /\ Len(row) = 2 + l
      /\ \A i \in 1..2 : row[i] = two[i]
      /\ \A i \in 1..l : row[2 + i] = names[i]
  <2> DEFINE joined == two \o names
  <2>1. /\ joined \in Seq(S) /\ Len(joined) = Len(two) + Len(names)
        /\ \A i \in 1..Len(two) + Len(names) :
             joined[i] = IF i <= Len(two) THEN two[i] ELSE names[i - Len(two)]
    BY <1>2, ConcatProperties
  <2> HIDE DEF joined
  <2>2. /\ row \in Seq(S) /\ Len(row) = 2 + l
        /\ \A i \in 1..2 + l : row[i] = IF i <= 2 THEN two[i] ELSE names[i - 2]
    BY <1>1, <1>3, <2>1 DEF joined
  <2>3. ASSUME NEW i \in 1..l PROVE row[2 + i] = names[i]
    <3> DEFINE t == 2 + i
    <3>1. t \in 1..2 + l /\ ~(t <= 2) /\ t - 2 = i
      BY <1>3
    <3> HIDE DEF t
    <3>2. row[t] = names[t - 2]
      BY <2>2, <3>1
    <3> QED BY <3>1, <3>2 DEF t
  <2>4. ASSUME NEW i \in 1..2 PROVE row[i] = two[i]
    <3>1. i \in 1..2 + l /\ i <= 2
      BY <1>3
    <3> QED BY <2>2, <3>1
  <2> QED BY <2>2, <2>3, <2>4
<1>5. DOMAIN row = 1..2 + l
  BY <1>4, LenProperties
<1>6. ASSUME NEW x \in Named(row) PROVE x \in Named(two) \cup Named(names)
  <2>1. PICK i \in 1..2 + l : x = row[i]
    BY <1>5 DEF Named
  <2>2. CASE i \in 1..2
    BY <1>1, <1>4, <2>1, <2>2 DEF Named
  <2>3. CASE i \notin 1..2
    <3> DEFINE k == i - 2
    <3>1. k \in 1..l /\ i = 2 + k
      BY <1>3, <2>1, <2>3
    <3> HIDE DEF k
    <3>2. x = names[k]
      BY <1>4, <2>1, <3>1
    <3> QED BY <1>3, <3>1, <3>2 DEF Named
  <2> QED BY <2>2, <2>3
<1>7. ASSUME NEW x \in Named(two) PROVE x \in Named(row)
  <2>1. PICK i \in 1..2 : x = two[i]
    BY <1>1 DEF Named
  <2>2. i \in DOMAIN row /\ x = row[i]
    BY <1>3, <1>4, <1>5, <2>1
  <2> QED BY <2>2 DEF Named
<1>8. ASSUME NEW x \in Named(names) PROVE x \in Named(row)
  <2>1. PICK i \in 1..l : x = names[i]
    BY <1>3 DEF Named
  <2>2. 2 + i \in DOMAIN row /\ x = row[2 + i]
    BY <1>3, <1>4, <1>5, <2>1
  <2> QED BY <2>2 DEF Named
<1>9. 2 <= Len(row) /\ row[1] = "IO.SYS" /\ row[2] = "MSDOS.SYS"
  BY <1>1, <1>3, <1>4
<1> QED BY <1>4, <1>6, <1>7, <1>8, <1>9 DEF two

(* A volume in that order has them first.                                  *)
LEMMA OrderedFirst ==
  ASSUME NEW v, Entries(v) = Live(v.root, v.rootn), NEW row, NEW k, k = Len(row), k \in Nat,
         InOrder(v.root, v.rootn, row, k),
         2 <= k, row[1] = "IO.SYS", row[2] = "MSDOS.SYS"
  PROVE  SystemFirst(v)
<1>1. \A i \in 0..k - 1 : i \in Entries(v) /\ v.root[i].name = row[i + 1]
  BY DEF InOrder
<1>2. 0 \in 0..k - 1 /\ 1 \in 0..k - 1 /\ 0 + 1 = 1 /\ 1 + 1 = 2
  OBVIOUS
<1>3. 0 \in Entries(v) /\ v.root[0].name = row[1]
  BY <1>1, <1>2
<1>4. 1 \in Entries(v) /\ v.root[1].name = row[2]
  BY <1>1, <1>2
<1> QED BY <1>3, <1>4 DEF SystemFirst

(* A rebuilt volume has the same files, the system files first.            *)
LEMMA RebuildGood ==
  ASSUME NumbersBelowMarks, NEW v, NEW fls, Good(v, fls), NEW total \in SIZES,
         NEW spc, spc = PickClusterSize(total, v.rootn), spc # 0,
         Named(SystemFiles) \in SUBSET NamesIn(v),
         NEW v2, v2 = Build(total, v.rootn, spc, Reordered(v), Listing(v)), v2 # NoImage
  PROVE  Good(v2, fls) /\ SystemFirst(v2)
<1> DEFINE S == NamesIn(v)
           names == NamesFound(v, Named(SystemFiles))
           row == SystemRow(names)
           k == Len(row)
<1>1. /\ v.rootn \in ROOTS /\ fls = [x \in S |-> fls[x]]
      /\ \A x \in S : fls[x] \in Seq(Sectors)
  BY GoodBodies
<1>2. Listing(v) = fls
  BY GoodReads
<1>3. names \in Seq(S) /\ Named(names) = S \ Named(SystemFiles)
  BY NamesFoundAre
<1>4. row = Reordered(v)
  BY DEF Reordered, SystemRow
<1> HIDE DEF names
<1>5. /\ row \in Seq(S) /\ Named(row) = S
      /\ 2 <= k /\ row[1] = "IO.SYS" /\ row[2] = "MSDOS.SYS"
  <2> HIDE DEF S, row
  <2>1. row = SystemRow(names) /\ Named(SystemFiles) \in SUBSET S
    BY DEF row, S
  <2>2. /\ row \in Seq(S) /\ Named(row) = Named(SystemFiles) \cup Named(names)
        /\ 2 <= Len(row) /\ row[1] = "IO.SYS" /\ row[2] = "MSDOS.SYS"
    BY <1>3, <2>1, SystemRowIs
  <2>3. Named(row) = S
    BY <1>3, <2>1, <2>2
  <2> QED BY <2>2, <2>3
<1> HIDE DEF S, row
<1>6. Wanted(row, fls)
  BY <1>1, <1>5 DEF Wanted
<1> DEFINE rootn == v.rootn
<1>7. v2 = Build(total, rootn, spc, row, fls) /\ rootn \in ROOTS
      /\ spc = PickClusterSize(total, rootn)
  BY <1>1, <1>2, <1>4
<1> HIDE DEF rootn
<1>8. Good(v2, fls) /\ InOrder(v2.root, v2.rootn, row, k)
  <2>1. Fitting(total, rootn, spc)
    BY <1>7, PickedFits
  <2> QED BY <1>5, <1>6, <1>7, <2>1, BuildGood
<1>9. Entries(v2) = Live(v2.root, v2.rootn)
  BY DEF Entries, Live
<1>10. k \in Nat
  BY <1>5, LenProperties
<1> QED BY <1>5, <1>8, <1>9, <1>10, OrderedFirst

(* A body is a sequence of sectors.                                        *)
LEMMA BodyIs ==
  ASSUME edits \in Nat, NEW name \in Names, NEW n \in Nat
  PROVE  Body(name, n) \in Seq(Sectors)
<1>1. Body(name, n) \in [1..n -> Sectors]
  BY DEF Body, Sectors
<1> QED BY <1>1, SeqDef

VolumeInv ==
  /\ edits \in Nat
  /\ system => img # NoImage
  /\ img # NoImage => Good(img, files) /\ (system => SystemFirst(img))

(* An order is a sequence of names of files.                               *)
LEMMA OrderIs ==
  ASSUME NEW order \in Orders
  PROVE  order \in Seq(FILES) /\ Named(order) \in SUBSET FILES
<1>1. Cardinality(FILES) \in Nat
  BY VolumeAssumptions, FS_CardinalityType
<1>2. PICK k \in 1..Cardinality(FILES) : order \in [1..k -> FILES]
  BY DEF Orders
<1>3. k \in Nat
  BY <1>1
<1> QED BY <1>2, <1>3, SeqDef DEF Named

(* Each of the programs keeps the invariant: the builder,                  *)
LEMMA BuildKeeps ==
  ASSUME VolumeInv, NEW total, NEW rootn \in ROOTS, NEW spc, Fitting(total, rootn, spc),
         NEW order \in Seq(Names), NEW bodies, Wanted(order, bodies),
         edits' = edits + 1,
         Saves(Build(total, rootn, spc, order, bodies), bodies, FALSE)
  PROVE  VolumeInv'
<1> DEFINE v == Build(total, rootn, spc, order, bodies)
<1>1. Saves(v, bodies, FALSE)
  OBVIOUS
<1>2. edits \in Nat /\ edits' \in Nat
  BY DEF VolumeInv
<1>3. CASE v = NoImage
  <2>1. img' = img /\ files' = files /\ system' = system
    BY <1>1, <1>3 DEF Saves
  <2> QED BY <1>1, <1>2, <2>1 DEF VolumeInv
<1>4. CASE v # NoImage
  <2>1. img' = v /\ files' = bodies /\ system' = FALSE
    BY <1>1, <1>4 DEF Saves
  <2>2. v = Build(total, rootn, spc, order, bodies)
    OBVIOUS
  <2> HIDE DEF v
  <2>3. Good(v, bodies)
    BY <1>4, <2>2, BuildGood
  <2> QED BY <1>2, <1>4, <2>1, <2>3 DEF VolumeInv
<1> QED BY <1>3, <1>4

(* which is used with files of one length,                                 *)
LEMMA FormatKeeps ==
  ASSUME NumbersBelowMarks, VolumeInv, NEW total \in SIZES, NEW rootn \in ROOTS,
         NEW order \in Orders, NEW n \in LENGTHS, Format(total, rootn, order, n)
  PROVE  VolumeInv'
<1> DEFINE bodies == [name \in Named(order) |-> Body(name, n)]
           spc == PickClusterSize(total, rootn)
<1>1. /\ spc # 0 /\ edits' = edits + 1
      /\ Saves(Build(total, rootn, spc, order, bodies), bodies, FALSE)
  BY DEF Format, Run
<1>2. edits \in Nat
  BY DEF VolumeInv
<1>3. order \in Seq(FILES) /\ Named(order) \in SUBSET FILES
  BY OrderIs
<1>4. order \in Seq(Names)
  BY <1>3, SeqDef DEF Names
<1>5. ASSUME NEW x \in Named(order) PROVE bodies[x] \in Seq(Sectors)
  <2>1. n \in Nat /\ x \in Names /\ bodies[x] = Body(x, n)
    BY <1>3, VolumeAssumptions DEF Names
  <2> QED BY <1>2, <2>1, BodyIs
<1>6. Wanted(order, bodies)
  <2>1. bodies = [x \in Named(order) |-> bodies[x]]
    OBVIOUS
  <2> QED BY <1>5, <2>1 DEF Wanted
<1>7. spc = PickClusterSize(total, rootn)
  OBVIOUS
<1> HIDE DEF bodies, spc
<1>8. Fitting(total, rootn, spc)
  BY <1>1, <1>7, PickedFits
<1> QED BY <1>1, <1>4, <1>6, <1>8, BuildKeeps

(* addfile,                                                                *)
LEMMA ReplacedKeeps ==
  ASSUME VolumeInv, NEW name \in Names, NEW n \in Nat, Replaced(name, n)
  PROVE  VolumeInv'
<1> DEFINE b == Body(name, n)
           v == Replace(img, name, b)
<1>1. /\ img # NoImage /\ edits' = edits + 1
      /\ Saves(v, Adds(files, name, b), system)
  BY DEF Replaced, Run, Adds
<1>2. edits \in Nat /\ edits' \in Nat /\ Good(img, files)
  BY <1>1 DEF VolumeInv
<1>3. CASE v = NoImage
  <2>1. img' = img /\ files' = files /\ system' = system
    BY <1>1, <1>3 DEF Saves
  <2> QED BY <1>1, <1>2, <2>1 DEF VolumeInv
<1>4. CASE v # NoImage
  <2>1. img' = v /\ files' = Adds(files, name, b) /\ system' = system
    BY <1>1, <1>4 DEF Saves
  <2>2. b \in Seq(Sectors) /\ v = Replace(img, name, b)
    BY <1>2, BodyIs
  <2> HIDE DEF b, v
  <2>3. Good(v, Adds(files, name, b)) /\ Same(img, v)
    BY <1>2, <1>4, <2>2, ReplaceGood
  <2>4. ASSUME system PROVE SystemFirst(v)
    <3>1. SystemFirst(img)
      BY <1>1, <2>4 DEF VolumeInv
    <3> QED BY <2>3, <3>1 DEF SystemFirst, Same
  <2> QED BY <1>2, <1>4, <2>1, <2>3, <2>4 DEF VolumeInv
<1> QED BY <1>3, <1>4

(* mkdisk,                                                                 *)
LEMMA RebuildKeeps ==
  ASSUME NumbersBelowMarks, VolumeInv, NEW total \in SIZES, Rebuild(total)
  PROVE  VolumeInv'
<1> DEFINE spc == PickClusterSize(total, img.rootn)
           v == Build(total, img.rootn, spc, Reordered(img), Listing(img))
<1>1. /\ img # NoImage /\ edits' = edits + 1 /\ spc # 0
      /\ Named(SystemFiles) \subseteq NamesIn(img)
      /\ Saves(v, files, TRUE)
  BY DEF Rebuild, Run
<1>2. edits \in Nat /\ edits' \in Nat /\ Good(img, files)
  BY <1>1 DEF VolumeInv
<1>3. CASE v = NoImage
  <2>1. img' = img /\ files' = files /\ system' = system
    BY <1>1, <1>3 DEF Saves
  <2> QED BY <1>1, <1>2, <2>1 DEF VolumeInv
<1>4. CASE v # NoImage
  <2>1. img' = v /\ files' = files /\ system' = TRUE
    BY <1>1, <1>4 DEF Saves
  <2>2. /\ spc = PickClusterSize(total, img.rootn) /\ spc # 0
        /\ v = Build(total, img.rootn, spc, Reordered(img), Listing(img))
        /\ Named(SystemFiles) \in SUBSET NamesIn(img)
    BY <1>1
  <2> HIDE DEF spc, v
  <2>3. Good(v, files) /\ SystemFirst(v)
    BY <1>2, <1>4, <2>2, RebuildGood
  <2> QED BY <1>2, <1>4, <2>1, <2>3 DEF VolumeInv
<1> QED BY <1>3, <1>4

(* and MS-DOS deleting a file.                                             *)
LEMMA DosDeleteKeeps ==
  ASSUME VolumeInv, NEW name \in FILES, DosDelete(name)
  PROVE  VolumeInv'
<1> DEFINE i == EntryOf(img, name)
           c == img.root[i].first
           v == [FreeChain(img, c) EXCEPT !.root[i] = Deleted]
           fls == [f \in DOMAIN files \ {name} |-> files[f]]
<1>1. /\ img # NoImage /\ name \in DOMAIN files /\ edits' = edits + 1
      /\ Saves(v, fls, system /\ name \notin Named(SystemFiles))
  BY DEF DosDelete, Run
<1>2. edits \in Nat /\ edits' \in Nat /\ Good(img, files)
  BY <1>1 DEF VolumeInv
<1>3. i \in Entries(img) /\ name = img.root[i].name
  <2>1. name \in NamesIn(img)
    BY <1>1, <1>2, GoodReads
  <2>2. PICK j \in Entries(img) : name = img.root[j].name
    BY <2>1 DEF NamesIn
  <2>3. EntryOf(img, name) = j
    BY <1>2, <2>2, GoodBodies
  <2> QED BY <2>2, <2>3
<1>4. Good(v, fls) /\ v # NoImage /\ Kin(img, v, i)
  <2>1. /\ i \in Entries(img) /\ name = img.root[i].name /\ c = img.root[i].first
        /\ v = [FreeChain(img, c) EXCEPT !.root[i] = Deleted]
        /\ fls = [f \in DOMAIN files \ {name} |-> files[f]]
    BY <1>3
  <2> HIDE DEF i, c, v, fls
  <2> QED BY <1>2, <2>1, DeleteGood
<1>5. img' = v /\ files' = fls /\ (system' => system /\ name \notin Named(SystemFiles))
  <2> HIDE DEF v, fls
  <2> QED BY <1>1, <1>4 DEF Saves
<1>6. ASSUME system' PROVE SystemFirst(v)
  <2>1. SystemFirst(img) /\ name \notin Named(SystemFiles)
    BY <1>1, <1>5, <1>6 DEF VolumeInv
  <2>2. name # "IO.SYS" /\ name # "MSDOS.SYS"
    BY <2>1 DEF Named, SystemFiles
  <2>3. i # 0 /\ i # 1
    <3> HIDE DEF i
    <3> QED BY <1>3, <2>1, <2>2 DEF SystemFirst
  <2> HIDE DEF i, v
  <2> QED BY <1>4, <2>1, <2>3 DEF SystemFirst, Kin
<1> HIDE DEF v, fls, i
<1> QED BY <1>2, <1>4, <1>5, <1>6 DEF VolumeInv

LEMMA VolumeStepKeeps ==
  ASSUME NumbersBelowMarks, VolumeInv, VolumeNext
  PROVE  VolumeInv'
<1>1. ASSUME NEW total \in SIZES, NEW rootn \in ROOTS, NEW order \in Orders,
             NEW n \in LENGTHS, Format(total, rootn, order, n)
      PROVE  VolumeInv'
  BY <1>1, FormatKeeps
<1>2. ASSUME NEW name \in FILES, NEW n \in LENGTHS, Replaced(name, n) PROVE VolumeInv'
  <2>1. name \in Names /\ n \in Nat
    BY VolumeAssumptions DEF Names
  <2> QED BY <1>2, <2>1, ReplacedKeeps
<1>3. ASSUME NEW total \in SIZES, Rebuild(total) PROVE VolumeInv'
  BY <1>3, RebuildKeeps
<1>4. ASSUME NEW name \in FILES, DosDelete(name) PROVE VolumeInv'
  BY <1>4, DosDeleteKeeps
<1> QED BY <1>1, <1>2, <1>3, <1>4 DEF VolumeNext

(* Whatever the programs do, in whatever order, the volume has the files   *)
(* that should be on it, each on a chain of clusters of its own.           *)
THEOREM VolumeInvariant == ASSUME NumbersBelowMarks PROVE VolumeSpec => []VolumeInv
<1>1. VolumeInit => VolumeInv
  BY DEF VolumeInit, VolumeInv
<1>2. VolumeInv /\ [VolumeNext]_volumeVars => VolumeInv'
  <2>1. ASSUME VolumeInv, UNCHANGED volumeVars PROVE VolumeInv'
    BY <2>1 DEF volumeVars, VolumeInv
  <2> QED BY <2>1, VolumeStepKeeps
<1> QED BY <1>1, <1>2, PTL DEF VolumeSpec

(* Whatever was built, replaced, deleted and rebuilt, the volume reads     *)
(* back as the files that should be in it (ReadsBack), for sizes whose     *)
(* cluster numbers stay below the marks that end a chain.                  *)
THEOREM VolumeReadsBack == ASSUME NumbersBelowMarks PROVE VolumeSpec => []ReadsBack
<1>1. VolumeInv => ReadsBack
  BY GoodReads DEF VolumeInv, ReadsBack
<1> QED BY <1>1, VolumeInvariant, PTL

(* A cluster is in use exactly when one file has it, and the two copies of *)
(* the FAT agree (NoLostClusters), for the same sizes.                     *)
THEOREM VolumeNoLostClusters ==
  ASSUME NumbersBelowMarks PROVE VolumeSpec => []NoLostClusters
<1>1. VolumeInv => NoLostClusters
  BY GoodClusters DEF VolumeInv, NoLostClusters
<1> QED BY <1>1, VolumeInvariant, PTL

(* A rebuilt volume keeps IO.SYS in its first entry and MSDOS.SYS in its   *)
(* second while files around them come and go (SystemFilesFirst), for the  *)
(* same sizes.                                                             *)
THEOREM VolumeSystemFilesFirst ==
  ASSUME NumbersBelowMarks PROVE VolumeSpec => []SystemFilesFirst
<1>1. VolumeInv => SystemFilesFirst
  BY DEF VolumeInv, SystemFilesFirst, SystemFirst
<1> QED BY <1>1, VolumeInvariant, PTL

-----------------------------------------------------------------------------
(* The tools in the order they are run before the machine boots.  A        *)
(* geometry that reaches gen_disk is one of numbers.                       *)
Geometries == [spt : Nat, heads : Nat, from : Nat]
GeometryInv == bpb \in Geometries /\ geopy \in Geometries

LEMMA GeometryChosen == ASSUME GeometryInv PROVE Chosen \in Geometries
<1>1. DEFAULT \in Geometries
  <2>1. DEFAULT \in [spt : Nat, heads : Nat, from : {0}]
    BY BootAssumptions
  <2> QED BY <2>1 DEF Geometries
<1> QED BY <1>1 DEF GeometryInv, Chosen

(* The files gen_disk takes, after as much padding as it needs.            *)
Padded(pad) ==
  (IF pad > 0 THEN <<"PADDING.BIN">> ELSE <<>>) \o <<Kernel, "README.TXT">>
LengthOf(name, pad) ==
  IF name = Kernel THEN KSECS ELSE IF name = "README.TXT" THEN 1 ELSE pad

LEMMA ThreeInRow ==
  ASSUME NEW a, NEW b, NEW c PROVE <<a>> \o <<b, c>> = <<a, b, c>>
<1> DEFINE S == {a, b, c}
           s == <<a>>
           t == <<b, c>>
           u == <<a, b, c>>
<1>1. /\ s \in Seq(S) /\ t \in Seq(S) /\ u \in Seq(S)
      /\ Len(s) = 1 /\ Len(t) = 2 /\ Len(u) = 3
      /\ s[1] = a /\ t[1] = b /\ t[2] = c /\ u[1] = a /\ u[2] = b /\ u[3] = c
  OBVIOUS
<1> HIDE DEF S, s, t, u
<1>2. /\ s \o t \in Seq(S) /\ Len(s \o t) = Len(s) + Len(t)
      /\ \A i \in 1..Len(s) + Len(t) :
           (s \o t)[i] = IF i <= Len(s) THEN s[i] ELSE t[i - Len(s)]
  BY <1>1, ConcatProperties, Zenon
<1> DEFINE w == s \o t
<1>3. Len(w) = 3 /\ \A i \in 1..3 : w[i] = u[i]
  <2>1. Len(w) = 3 /\ \A i \in 1..3 : w[i] = IF i <= 1 THEN s[i] ELSE t[i - 1]
    BY <1>1, <1>2
  <2> HIDE DEF w
  <2>2. w[1] = s[1]
    BY <2>1
  <2>3. w[2] = t[2 - 1]
    BY <2>1
  <2>4. w[3] = t[3 - 1]
    BY <2>1
  <2>5. ASSUME NEW i \in 1..3 PROVE w[i] = u[i]
    <3>1. i = 1 \/ i = 2 \/ i = 3
      OBVIOUS
    <3> QED BY <1>1, <2>2, <2>3, <2>4, <3>1
  <2> QED BY <2>1, <2>5
<1>4. s \o t = u
  BY <1>1, <1>2, <1>3, SeqEqual
<1> QED BY <1>4 DEF s, t, u

LEMMA PaddedIs ==
  ASSUME NEW pad \in Int
  PROVE  /\ Padded(pad) \in Seq(Names)
         /\ \A x \in Named(Padded(pad)) : x \in Names /\ LengthOf(x, pad) \in Nat
<1>1. KSECS \in Nat
  BY BootAssumptions
<1>2. CASE pad > 0
  <2>1. Padded(pad) = <<"PADDING.BIN", Kernel, "README.TXT">>
    BY <1>2, ThreeInRow DEF Padded
  <2>2. Named(Padded(pad)) = {"PADDING.BIN", Kernel, "README.TXT"}
    BY <2>1 DEF Named
  <2>3. pad \in Nat
    BY <1>2
  <2> QED BY <1>1, <2>1, <2>2, <2>3 DEF Names, GenFiles, Kernel, LengthOf
<1>3. CASE ~(pad > 0)
  <2>1. <<>> \o <<Kernel, "README.TXT">> = <<Kernel, "README.TXT">>
    OBVIOUS
  <2>2. Padded(pad) = <<Kernel, "README.TXT">>
    BY <1>3, <2>1 DEF Padded
  <2>3. Named(Padded(pad)) = {Kernel, "README.TXT"}
    BY <2>2 DEF Named
  <2> QED BY <1>1, <2>2, <2>3 DEF Names, GenFiles, Kernel, LengthOf
<1> QED BY <1>2, <1>3

PadOf(rootn, spf) == 2 * Chosen.spt - 2 - DataStart(rootn, spf)

LEMMA PadIsInt ==
  ASSUME GeometryInv, NEW rootn \in ROOTS, NEW spf \in Nat
  PROVE  PadOf(rootn, spf) \in Int
<1>1. Chosen.spt \in Nat
  BY GeometryChosen DEF Geometries
<1>2. DataStart(rootn, spf) \in Nat
  <2>1. rootn \in Nat
    BY VolumeAssumptions
  <2> QED BY <2>1, DataStartNat
<1> QED BY <1>1, <1>2 DEF PadOf

(* gen_disk builds a volume like any other.                                *)
LEMMA GenDiskKeeps ==
  ASSUME BelowMarks(TOTAL), VolumeInv, GeometryInv, NEW rootn \in ROOTS, GenDisk(rootn)
  PROVE  VolumeInv'
<1> DEFINE spf == SizeFat(TOTAL, rootn, 1)
           pad == PadOf(rootn, spf)
           order == Padded(pad)
           len(x) == CASE x = Kernel -> KSECS
                       [] x = "README.TXT" -> 1
                       [] OTHER -> pad
           bodies == [name \in Named(order) |-> Body(name, len(name))]
<1>1. /\ edits' = edits + 1 /\ Accepts(TOTAL, rootn, 1)
      /\ Saves(Build(TOTAL, rootn, 1, order, bodies), bodies, FALSE)
  BY Zenon DEF GenDisk, PadOf, Padded, Run
<1>2. edits \in Nat
  BY DEF VolumeInv
<1>3. spf \in Nat
  <2>1. TOTAL \in Nat /\ rootn \in Nat
    BY BootAssumptions, VolumeAssumptions
  <2>2. spf # 0
    BY <1>1 DEF Accepts
  <2> HIDE DEF spf
  <2>3. spf = SizeFat(TOTAL, rootn, 1) /\ 1 \in Nat \ {0}
    BY DEF spf
  <2> QED BY <2>1, <2>2, <2>3, SizeFatFits
<1>4. pad \in Int
  <2> HIDE DEF spf
  <2> QED BY <1>3, PadIsInt
<1>5. ASSUME NEW x PROVE len(x) = LengthOf(x, pad)
  <2> HIDE DEF pad
  <2>1. CASE x = Kernel
    <3>1. x # "README.TXT"
      BY <2>1 DEF Kernel
    <3> QED BY <2>1, <3>1, Zenon DEF LengthOf
  <2>2. CASE x # Kernel /\ x = "README.TXT"
    BY <2>2, Zenon DEF LengthOf
  <2>3. CASE x # Kernel /\ x # "README.TXT"
    BY <2>3, Zenon DEF LengthOf
  <2> QED BY <2>1, <2>2, <2>3
<1>6. bodies = [x \in Named(order) |-> Body(x, LengthOf(x, pad))]
  <2> HIDE DEF order, len
  <2> QED BY <1>5
<1> HIDE DEF pad, bodies, len
<1>7. order \in Seq(Names)
  BY <1>4, PaddedIs
<1>8. ASSUME NEW x \in Named(order) PROVE bodies[x] \in Seq(Sectors)
  <2>1. x \in Names /\ LengthOf(x, pad) \in Nat
    BY <1>4, PaddedIs
  <2>2. bodies[x] = Body(x, LengthOf(x, pad))
    BY <1>6
  <2> QED BY <1>2, <2>1, <2>2, BodyIs
<1>9. Wanted(order, bodies)
  <2>1. bodies = [x \in Named(order) |-> bodies[x]]
    BY <1>6
  <2> QED BY <1>8, <2>1 DEF Wanted
<1>10. Fitting(TOTAL, rootn, 1)
  BY <1>1, BootAssumptions DEF Fitting
<1> HIDE DEF order
<1> QED BY <1>1, <1>7, <1>9, <1>10, BuildKeeps

ToolsInv == VolumeInv /\ GeometryInv

LEMMA GenDiskGeometry ==
  ASSUME VolumeInv, GeometryInv, NEW rootn \in ROOTS, GenDisk(rootn)
  PROVE  GeometryInv'
<1>1. bpb' = [Chosen EXCEPT !.from = edits + 1] /\ geopy' = geopy
  BY Zenon DEF GenDisk
<1>2. edits + 1 \in Nat
  BY DEF VolumeInv
<1> QED BY <1>1, <1>2, GeometryChosen DEF Geometries, GeometryInv

(* Every step of the tools and of the machine keeps the volume.            *)
LEMMA BootKeeps ==
  ASSUME BelowMarks(TOTAL), ToolsInv, BootNext
  PROVE  ToolsInv'
<1>0. VolumeInv /\ GeometryInv
  BY DEF ToolsInv
<1>1. ASSUME NEW rootn \in ROOTS, GenDisk(rootn) PROVE ToolsInv'
  BY <1>0, <1>1, GenDiskKeeps, GenDiskGeometry DEF ToolsInv
<1>2. CASE ChangeFile
  <2>1. UNCHANGED <<bpb, geopy>>
    BY <1>2 DEF ChangeFile, hostVars
  <2>2. GeometryInv'
    BY <1>0, <2>1 DEF GeometryInv
  <2>3. Kernel \in Names /\ "README.TXT" \in Names /\ KSECS \in Nat
    BY BootAssumptions DEF Names, GenFiles, Kernel
  <2>4. CASE Replaced(Kernel, KSECS)
    BY <1>0, <2>2, <2>3, <2>4, ReplacedKeeps DEF ToolsInv
  <2>5. ASSUME NEW n \in LENGTHS, Replaced("README.TXT", n) PROVE ToolsInv'
    <3>1. n \in Nat
      BY VolumeAssumptions
    <3> QED BY <1>0, <2>2, <2>3, <2>5, <3>1, ReplacedKeeps DEF ToolsInv
  <2> QED BY <1>2, <2>4, <2>5 DEF ChangeFile
<1>3. ASSUME UNCHANGED <<img, files, system>>, edits' \in Nat, bpb' = bpb,
             geopy' = geopy \/ geopy' = bpb \/ geopy' \in GEOS
      PROVE  ToolsInv'
  <2>1. VolumeInv'
    BY <1>0, <1>3 DEF VolumeInv
  <2>2. ASSUME NEW g \in GEOS PROVE g \in Geometries
    <3>1. g \in [spt : Nat, heads : Nat, from : {0}]
      BY BootAssumptions
    <3> QED BY <3>1 DEF Geometries
  <2> QED BY <1>0, <1>3, <2>1, <2>2 DEF GeometryInv, ToolsInv
<1>4. edits \in Nat
  BY <1>0 DEF VolumeInv
<1>5. CASE Img2Hex
  BY <1>3, <1>4, <1>5 DEF Img2Hex, volumeVars
<1>6. CASE GenBios
  BY <1>3, <1>4, <1>6 DEF GenBios, volumeVars
<1>7. CASE PowerOn
  BY <1>3, <1>4, <1>7 DEF PowerOn, volumeVars, hostVars
<1>8. CASE LoadRom
  BY <1>3, <1>4, <1>8 DEF LoadRom, hostVars, Run
<1>9. CASE LoadDisk
  BY <1>3, <1>4, <1>9 DEF LoadDisk, hostVars, Run
<1>10. CASE Reset
  BY <1>3, <1>4, <1>10 DEF Reset, hostVars, Run
<1>11. CASE MachineStep
  BY <1>3, <1>4, <1>11 DEF MachineStep, volumeVars, hostVars
<1> QED BY <1>1, <1>2, <1>5, <1>6, <1>7, <1>8, <1>9, <1>10, <1>11 DEF BootNext

(* The run's specification, all its programs together.  Whichever part a   *)
(* behaviour is about, the volume is as it should be.                      *)
THEOREM ToolchainInvariant == Spec => []ToolsInv
<1>1. NumbersBelowMarks /\ BelowMarks(TOTAL)
  BY ToolchainAssumption
<1>2. Init => ToolsInv
  BY DEF Init, BootInit, VolumeInit, ToolsInv, VolumeInv, GeometryInv, NoGeometry,
         Geometries
<1>3. ToolsInv /\ [Next]_vars => ToolsInv'
  <2> SUFFICES ASSUME ToolsInv, [Next]_vars PROVE ToolsInv'
    OBVIOUS
  <2>1. ASSUME UNCHANGED <<volumeVars, hostVars>> PROVE ToolsInv'
    BY <2>1 DEF ToolsInv, VolumeInv, GeometryInv, volumeVars, hostVars
  <2>2. CASE VolumeStep
    <3>1. VolumeInv'
      BY <1>1, <2>2, VolumeStepKeeps DEF VolumeStep, ToolsInv
    <3>2. GeometryInv'
      BY <2>2 DEF VolumeStep, hostVars, ToolsInv, GeometryInv
    <3> QED BY <3>1, <3>2 DEF ToolsInv
  <2>3. CASE BootStep(BootNext)
    BY <1>1, <2>3, BootKeeps DEF BootStep
  <2>4. CASE AsmStep
    BY <2>1, <2>4 DEF AsmStep, bootVars
  <2>5. CASE UNCHANGED vars
    BY <2>1, <2>5 DEF vars, bootVars
  <2> QED BY <2>2, <2>3, <2>4, <2>5 DEF Next
<1> QED BY <1>2, <1>3, PTL DEF Spec

(* A volume reads back as its files (ReadsBack), no cluster of it is lost  *)
(* (NoLostClusters) and its system files come first (SystemFilesFirst),    *)
(* gen_disk's volumes and their edits between boots included.              *)
THEOREM ToolchainVolumes == Spec => [](ReadsBack /\ NoLostClusters /\ SystemFilesFirst)
<1>1. ToolsInv => ReadsBack /\ NoLostClusters /\ SystemFilesFirst
  BY GoodReads, GoodClusters
  DEF ToolsInv, VolumeInv, ReadsBack, NoLostClusters, SystemFilesFirst, SystemFirst
<1> QED BY <1>1, ToolchainInvariant, PTL

(* What the assembler made for a ROM or a boot sector is the instructions  *)
(* asked for (Disassembles), whatever the disk tools do.                   *)
THEOREM ToolchainDisassembles == Spec => []Disassembles
<1>1. Init => AsmInit
  BY DEF Init
<1>2. [Next]_vars => [AsmNext]_asmVars
  BY Zenon DEF Next, vars, VolumeStep, BootStep, AsmStep
<1>3. Spec => AsmSpec
  BY <1>1, <1>2, PTL DEF Spec, AsmSpec
<1> QED BY <1>3, AssemblerDisassembles, PTL
=============================================================================
