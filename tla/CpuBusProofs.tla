---------------------------- MODULE CpuBusProofs ----------------------------
(***************************************************************************)
(* Proofs about CpuBus, for every address space, every place a jump may    *)
(* lead to, every number of bytes taken at once, with and without a DMA    *)
(* channel and with the ENTER of several levels or without it:             *)
(*                                                                         *)
(*   - the queue carries the bytes that follow ip (StreamInv);             *)
(*   - an access reported done has been done, and memory changes nowhere   *)
(*     else (AccessInv).                                                   *)
(***************************************************************************)
EXTENDS CpuBus, TLAPS

(***************************************************************************)
(* Addresses go round at SPACE.                                            *)
(***************************************************************************)

LEMMA Division ==
  ASSUME NEW n \in Nat, NEW d \in Nat \ {0}
  PROVE  /\ n \div d \in Nat /\ n % d \in 0..d - 1
         /\ n = d * (n \div d) + (n % d)
PROOF
<1> d \in Int /\ d > 0 /\ n \in Int
  OBVIOUS
<1>1. n \div d \in Int /\ n \div d >= 0
  OBVIOUS
<1>2. n % d \in 0..d - 1
  OBVIOUS
<1>3. n = d * (n \div d) + (n % d)
  OBVIOUS
<1> QED BY <1>1, <1>2, <1>3

LEMMA RemainderUnique ==
  ASSUME NEW d \in Nat \ {0}, NEW q \in Nat, NEW p \in Nat,
         NEW r \in 0..d - 1, NEW s \in 0..d - 1, d * q + r = d * p + s
  PROVE  r = s
PROOF
<1>1. ASSUME NEW x \in Nat, NEW y \in Nat, NEW u \in 0..d - 1, NEW v \in 0..d - 1,
             d * x + u = d * y + v
      PROVE  ~(x < y)
  <2>1. CASE x < y
    <3>1. d * y >= d * (x + 1) /\ d * (x + 1) = d * x + d
      BY <2>1
    <3>2. d * x \in Nat /\ d * y \in Nat
      OBVIOUS
    <3> QED BY ONLY <1>1, <3>1, <3>2, d \in Nat
  <2> QED BY <2>1
<1>2. q = p
  <2>1. ~(q < p) /\ ~(p < q)
    BY <1>1
  <2> QED BY <2>1
<1>3. d * q \in Nat
  OBVIOUS
<1> QED BY <1>2, <1>3

LEMMA RemainderOfSum ==
  ASSUME NEW d \in Nat \ {0}, NEW a \in Nat, NEW n \in Nat
  PROVE  ((a % d) + n) % d = (a + n) % d
PROOF
<1> DEFINE q == a \div d
           r == a % d
           m == r + n
           p == m \div d
           s == m % d
           k == a + n
           u == k \div d
           v == k % d
<1>1. q \in Nat /\ r \in 0..d - 1 /\ a = d * q + r
  BY Division
<1>2. m \in Nat
  BY <1>1
<1>k. k \in Nat
  OBVIOUS
<1> HIDE DEF q, r, m, k
<1>3. p \in Nat /\ s \in 0..d - 1 /\ m = d * p + s
  BY <1>2, Division
<1>4. u \in Nat /\ v \in 0..d - 1 /\ k = d * u + v
  BY <1>k, Division
<1> HIDE DEF p, s, u, v
<1>5. d * (q + p) + s = d * u + v
  <2>1. d * (q + p) = d * q + d * p
    BY <1>1, <1>3
  <2>2. d * q \in Nat /\ d * p \in Nat /\ d * u \in Nat
    BY <1>1, <1>3, <1>4
  <2> QED BY ONLY <1>1, <1>3, <1>4, <2>1, <2>2, n \in Nat DEF m, k
<1>6. s = v
  <2>1. q + p \in Nat
    BY <1>1, <1>3
  <2> QED BY <1>3, <1>4, <1>5, <2>1, RemainderUnique
<1> QED BY <1>6 DEF r, m, k, s, v

LEMMA PlusIsAddr ==
  ASSUME NEW a \in Nat, NEW n \in Nat
  PROVE  plus(a, n) \in Addrs
BY Division, BiuAssumptions DEF plus, Addrs

LEMMA PlusPlus ==
  ASSUME NEW a \in Nat, NEW m \in Nat, NEW n \in Nat
  PROVE  plus(plus(a, m), n) = plus(a, m + n)
PROOF
<1>1. SPACE \in Nat \ {0} /\ a + m \in Nat
  BY BiuAssumptions
<1>2. (((a + m) % SPACE) + n) % SPACE = (a + m + n) % SPACE
  BY <1>1, RemainderOfSum
<1>3. a + m + n = a + (m + n)
  OBVIOUS
<1> QED BY <1>2, <1>3 DEF plus

LEMMA PlusZero ==
  ASSUME NEW a \in Addrs
  PROVE  plus(a, 0) = a
PROOF
<1>1. SPACE \in Nat \ {0} /\ a \in Nat /\ a < SPACE
  BY BiuAssumptions DEF Addrs
<1>2. a % SPACE \in 0..SPACE - 1 /\ a = SPACE * (a \div SPACE) + (a % SPACE)
      /\ a \div SPACE \in Nat
  BY <1>1, Division
<1>3. a = SPACE * 0 + a
  BY <1>1
<1>4. a % SPACE = a
  <2> DEFINE q == a \div SPACE
             r == a % SPACE
  <2>1. q \in Nat /\ r \in 0..SPACE - 1 /\ SPACE * q + r = SPACE * 0 + a /\ a \in 0..SPACE - 1
    BY <1>1, <1>2, <1>3
  <2> HIDE DEF q, r
  <2>2. r = a
    BY <1>1, <2>1, RemainderUnique
  <2> QED BY <2>2 DEF r
<1> QED BY <1>1, <1>4 DEF plus
(***************************************************************************)
(* The instruction stream: a queue follows an address if its bytes are the *)
(* ones from there on.                                                     *)
(***************************************************************************)

follows(q, a) == \A i \in 1 .. Len(q) : q[i] = plus(a, i - 1)

LEMMA PopFollows ==
  ASSUME NEW q \in Seq(Nat), NEW a \in Nat, NEW n \in 0..Len(q), follows(q, a)
  PROVE  /\ SubSeq(q, n + 1, Len(q)) \in Seq(Nat)
         /\ Len(SubSeq(q, n + 1, Len(q))) = Len(q) - n
         /\ follows(SubSeq(q, n + 1, Len(q)), plus(a, n))
PROOF
<1> DEFINE s == SubSeq(q, n + 1, Len(q))
<1>1. Len(q) \in Nat
  OBVIOUS
<1>2. s \in Seq(Nat) /\ Len(s) = Len(q) - n
  BY <1>1
<1>3. ASSUME NEW i \in 1..Len(s) PROVE s[i] = plus(plus(a, n), i - 1)
  <2>1. n + i \in 1..Len(q) /\ s[i] = q[n + i]
    BY <1>1, <1>2
  <2>2. q[n + i] = plus(a, (n + i) - 1)
    BY <2>1 DEF follows
  <2>3. (n + i) - 1 = n + (i - 1) /\ i - 1 \in Nat /\ n \in Nat
    BY <1>1, <1>2
  <2>4. plus(plus(a, n), i - 1) = plus(a, n + (i - 1))
    BY <2>3, PlusPlus
  <2> QED BY <2>1, <2>2, <2>3, <2>4
<1> HIDE DEF s
<1>4. follows(s, plus(a, n))
  BY <1>3 DEF follows
<1> QED BY <1>2, <1>4 DEF s

LEMMA FillFollows ==
  ASSUME NEW q \in Seq(Nat), NEW f \in Seq(Nat), NEW a \in Nat,
         follows(q, a), follows(f, plus(a, Len(q)))
  PROVE  follows(q \o f, a)
PROOF
<1>1. Len(q) \in Nat /\ Len(f) \in Nat /\ Len(q \o f) = Len(q) + Len(f)
  OBVIOUS
<1>2. ASSUME NEW i \in 1..Len(q \o f) PROVE (q \o f)[i] = plus(a, i - 1)
  <2>1. CASE i \in 1..Len(q)
    <3>1. (q \o f)[i] = q[i]
      BY <2>1
    <3> QED BY <2>1, <3>1 DEF follows
  <2>2. CASE i \notin 1..Len(q)
    <3>1. i - Len(q) \in 1..Len(f) /\ (q \o f)[i] = f[i - Len(q)]
      BY <1>1, <2>2
    <3>2. f[i - Len(q)] = plus(plus(a, Len(q)), (i - Len(q)) - 1)
      BY <3>1 DEF follows
    <3>3. (i - Len(q)) - 1 \in Nat /\ Len(q) + ((i - Len(q)) - 1) = i - 1
      BY <1>1, <3>1
    <3>4. plus(plus(a, Len(q)), (i - Len(q)) - 1) = plus(a, Len(q) + ((i - Len(q)) - 1))
      BY <1>1, <3>3, PlusPlus
    <3> QED BY <3>1, <3>2, <3>3, <3>4
  <2> QED BY <2>1, <2>2
<1> QED BY <1>2 DEF follows

LEMMA JoinedLength ==
  ASSUME NEW q \in Seq(Nat), NEW f \in Seq(Nat)
  PROVE  (q \o f) \in Seq(Nat) /\ Len(q \o f) = Len(q) + Len(f)
OBVIOUS

StreamTypes ==
  /\ t \in {"IDLE", "T1", "T2", "T3", "T4"}
  /\ ip \in Addrs /\ fetch_ptr \in Addrs
  /\ pq \in Seq(Nat)

(* A fetch that nothing has marked is of the word fetch_ptr is in, and was *)
(* started with room for it.                                               *)
FetchInStep ==
  t \in {"T1", "T2", "T3"} /\ cur.fetch /\ ~fetch_discard =>
    /\ cur.addr = even(fetch_ptr) /\ cur.odd = (fetch_ptr % 2 = 1)
    /\ space_available

StreamInv == StreamTypes /\ InstructionStream /\ FetchInStep

(* The bytes of such a fetch are the ones the pointer is at.               *)
LEMMA FetchedFollows ==
  ASSUME NEW p \in Addrs, cur.addr = even(p), cur.odd = (p % 2 = 1)
  PROVE  /\ fetched \in Seq(Nat) /\ Len(fetched) \in {1, 2}
         /\ follows(fetched, p)
PROOF
<1> USE BiuAssumptions
<1>1. p \in Nat /\ p % 2 \in {0, 1} /\ p = 2 * (p \div 2) + (p % 2) /\ p \div 2 \in Nat
  BY DEF Addrs
<1>2. plus(p, 0) = p
  BY PlusZero
<1>3. CASE p % 2 = 1
  <2>0. cur.odd /\ cur.addr + 1 = p
    <3>1. cur.addr = p - 1
      BY <1>3 DEF even
    <3>2. cur.odd
      BY <1>3, Zenon
    <3> QED BY ONLY <1>1, <3>1, <3>2
  <2>1. fetched = <<p>>
    BY <2>0 DEF fetched
  <2> QED BY <1>1, <1>2, <2>1 DEF follows
<1>4. CASE p % 2 = 0
  <2>0. ~cur.odd /\ cur.addr = p
    <3>1. cur.addr = p - 0
      BY <1>4 DEF even
    <3>2. ~cur.odd
      <4>1. ~(p % 2 = 1)
        BY <1>4
      <4> QED BY <4>1, Zenon
    <3> QED BY ONLY <1>1, <3>1, <3>2
  <2>1. fetched = <<p, p + 1>>
    BY <2>0 DEF fetched
  <2>2. p + 1 \in Addrs
    BY <1>1, <1>4 DEF Addrs
  <2>3. plus(p, 1) = plus(p + 1, 0)
    BY <1>1 DEF plus
  <2>4. plus(p, 1) = p + 1
    BY <2>2, <2>3, PlusZero
  <2>5. \A i \in 1..2 : <<p, p + 1>>[i] = plus(p, i - 1)
    BY <1>2, <2>4
  <2> QED BY <1>1, <2>1, <2>5 DEF follows
<1> QED BY <1>1, <1>3, <1>4

LEMMA StreamInit == Init => StreamInv
PROOF
<1> SUFFICES ASSUME Init PROVE StreamInv
  OBVIOUS
<1>1. 0 \in Addrs /\ plus(0, 0) = 0
  <2>1. 0 \in Addrs
    BY BiuAssumptions DEF Addrs
  <2> QED BY <2>1, PlusZero
<1>2. t = "IDLE" /\ pq = <<>> /\ fetch_ptr = 0 /\ ip = 0
  BY DEF Init, BiuInit
<1>3. StreamTypes
  BY <1>1, <1>2 DEF StreamTypes
<1>4. InstructionStream
  BY <1>1, <1>2 DEF InstructionStream, DEPTH
<1>5. FetchInStep
  BY <1>2 DEF FetchInStep
<1> QED BY <1>3, <1>4, <1>5 DEF StreamInv

(* A clock of the queue, the fetch pointer and ip keeps them together.     *)
LEMMA StreamClock ==
  ASSUME StreamInv, NEW redirect, redirect.addr \in Addrs,
         NEW pop \in Nat, NEW ready,
         QueueClock(redirect, pop, ready), FetchClock(redirect, ready), IpClock(redirect, pop)
  PROVE  /\ ip' \in Addrs /\ fetch_ptr' \in Addrs /\ pq' \in Seq(Nat)
         /\ InstructionStream'
         /\ ~redirect.on /\ ~pq_write_en(redirect, ready) =>
              fetch_ptr' = fetch_ptr /\ Len(pq') <= Len(pq)
PROOF
<1> DEFINE n == do_pop(pop)
           s == SubSeq(pq, n + 1, Len(pq))
<1>1. /\ ip \in Addrs /\ fetch_ptr \in Addrs /\ pq \in Seq(Nat)
      /\ Len(pq) <= DEPTH /\ follows(pq, ip) /\ fetch_ptr = plus(ip, Len(pq))
  BY DEF StreamInv, StreamTypes, InstructionStream, follows
<1>2. Len(pq) \in Nat /\ n \in 0..Len(pq) /\ ip \in Nat
  BY <1>1 DEF do_pop, Addrs
<1> HIDE DEF n
<1>3. s \in Seq(Nat) /\ Len(s) = Len(pq) - n /\ follows(s, plus(ip, n))
  BY <1>1, <1>2, PopFollows
<1>4. /\ pq' = IF redirect.on THEN <<>>
               ELSE s \o IF pq_write_en(redirect, ready) THEN fetched ELSE <<>>
      /\ ip' = IF redirect.on THEN redirect.addr ELSE plus(ip, n)
  BY DEF QueueClock, IpClock, n
<1> HIDE DEF s
<1>5. CASE redirect.on
  <2>1. pq' = <<>> /\ ip' = redirect.addr
    BY <1>4, <1>5
  <2>2. fetch_ptr' = redirect.addr
    <3>1. ~pq_write_en(redirect, ready)
      BY <1>5 DEF pq_write_en
    <3> QED BY <1>5, <3>1, Zenon DEF FetchClock
  <2>3. plus(ip', 0) = ip'
    BY <2>1, PlusZero
  <2> QED BY <1>5, <2>1, <2>2, <2>3 DEF InstructionStream, DEPTH
<1>6. CASE ~redirect.on /\ ~pq_write_en(redirect, ready)
  <2>1. pq' = s /\ ip' = plus(ip, n)
    BY <1>3, <1>4, <1>6
  <2>2. fetch_ptr' = fetch_ptr
    BY <1>6, Zenon DEF FetchClock
  <2>3. plus(ip', Len(pq')) = plus(ip, n + (Len(pq) - n))
    <3>1. plus(plus(ip, n), Len(pq) - n) = plus(ip, n + (Len(pq) - n))
      BY <1>2, PlusPlus
    <3> QED BY <1>3, <2>1, <3>1
  <2>4. n + (Len(pq) - n) = Len(pq)
    BY <1>2
  <2>5. fetch_ptr' = plus(ip', Len(pq'))
    BY <1>1, <2>2, <2>3, <2>4
  <2>6. ip' \in Addrs
    BY <1>2, <2>1, PlusIsAddr
  <2> QED BY <1>1, <1>2, <1>3, <1>6, <2>1, <2>2, <2>5, <2>6
          DEF InstructionStream, DEPTH, follows
<1>7. CASE ~redirect.on /\ pq_write_en(redirect, ready)
  <2>1. pq' = s \o fetched /\ ip' = plus(ip, n)
    BY <1>4, <1>7
  <2>2. fetch_ptr' = plus(fetch_ptr, Len(fetched))
    BY <1>7, Zenon DEF FetchClock
  <2>3. /\ cur.addr = even(fetch_ptr) /\ cur.odd = (fetch_ptr % 2 = 1)
        /\ space_available
    BY <1>7 DEF pq_write_en, StreamInv, FetchInStep
  <2>4. fetched \in Seq(Nat) /\ Len(fetched) \in {1, 2} /\ follows(fetched, fetch_ptr)
    BY <1>1, <2>3, FetchedFollows
  <2>5. plus(plus(ip, n), Len(s)) = fetch_ptr
    <3>1. plus(plus(ip, n), Len(pq) - n) = plus(ip, n + (Len(pq) - n))
      BY <1>2, PlusPlus
    <3>2. n + (Len(pq) - n) = Len(pq)
      BY <1>2
    <3> QED BY <1>1, <1>3, <3>1, <3>2
  <2>6. plus(ip, n) \in Addrs /\ plus(ip, n) \in Nat
    <3>1. plus(ip, n) \in Addrs
      BY <1>2, PlusIsAddr
    <3> QED BY <3>1 DEF Addrs
  <2>7. follows(s \o fetched, plus(ip, n))
    BY <1>3, <2>4, <2>5, <2>6, FillFollows
  <2>8. Len(pq') = Len(s) + Len(fetched) /\ pq' \in Seq(Nat)
    <3>1. (s \o fetched) \in Seq(Nat) /\ Len(s \o fetched) = Len(s) + Len(fetched)
      BY <1>3, <2>4, JoinedLength
    <3> QED BY <2>1, <3>1
  <2>9. fetch_ptr' = plus(ip', Len(pq'))
    BY <1>2, <1>3, <2>1, <2>2, <2>4, <2>5, <2>6, <2>8, PlusPlus
  <2>10. fetch_ptr' \in Addrs
    BY <1>1, <2>2, <2>4, PlusIsAddr DEF Addrs
  <2>11. Len(pq') <= DEPTH
    <3>1. Len(pq) <= 4
      BY <2>3 DEF space_available
    <3>2. Len(pq') = (Len(pq) - n) + Len(fetched)
      BY <1>3, <2>8
    <3>3. Len(pq) - n <= 4 /\ Len(pq) - n \in Nat
      BY <1>2, <3>1
    <3>4. (Len(pq) - n) + Len(fetched) <= 6
      <4>1. CASE Len(fetched) = 1
        BY <3>3, <4>1
      <4>2. CASE Len(fetched) = 2
        BY <3>3, <4>2
      <4> QED BY <2>4, <4>1, <4>2
    <3> QED BY ONLY <3>2, <3>4 DEF DEPTH
  <2>12. follows(pq', ip')
    BY <2>1, <2>7
  <2> QED BY <1>7, <2>1, <2>6, <2>8, <2>9, <2>10, <2>11, <2>12
          DEF InstructionStream, follows
<1> QED BY <1>5, <1>6, <1>7

(* What a clock makes of a fetch under way, and of the mark on it.         *)
LEMMA StreamStep ==
  ASSUME StreamInv, NEW q, NEW hold, NEW redirect, redirect.addr \in Addrs,
         NEW pop \in Nat, NEW ready, NEW d,
         BiuClock(q, hold, redirect, pop, ready, d), IpClock(redirect, pop)
  PROVE  StreamInv'
PROOF
<1>1. QueueClock(redirect, pop, ready) /\ FetchClock(redirect, ready)
  BY DEF BiuClock
<1>2. /\ ip' \in Addrs /\ fetch_ptr' \in Addrs /\ pq' \in Seq(Nat)
      /\ InstructionStream'
      /\ ~redirect.on /\ ~pq_write_en(redirect, ready) =>
           fetch_ptr' = fetch_ptr /\ Len(pq') <= Len(pq)
  BY <1>1, StreamClock
<1>3. \/ StartSplit(q, hold) \/ StartData(q, hold) \/ StartFetch(q, hold, redirect)
      \/ StayIdle(q, hold, redirect)
      \/ Advance("T1", "T2") \/ Advance("T2", "T3")
      \/ ~ready /\ Advance("T3", "T3")
      \/ ready /\ Advance("T3", "T4")
      \/ Advance("T4", "IDLE")
  BY DEF BiuClock
<1>4. t' \in {"IDLE", "T1", "T2", "T3", "T4"}
  BY <1>3 DEF StartSplit, StartData, StartFetch, StayIdle, Advance, StreamInv, StreamTypes
<1>5. FetchInStep'
  <2>1. CASE StartSplit(q, hold) \/ StartData(q, hold)
    <3>1. CASE StartSplit(q, hold)
      <4>1. t = "IDLE" /\ ~cur'.fetch
        BY <3>1 DEF StartSplit
      <4> QED BY <4>1 DEF FetchInStep
    <3>2. CASE StartData(q, hold)
      <4>1. ~cur'.fetch
        BY <3>2, Zenon DEF StartData
      <4> QED BY <4>1 DEF FetchInStep
    <3> QED BY <2>1, <3>1, <3>2
  <2>2. CASE StartFetch(q, hold, redirect)
    <3>1. /\ t = "IDLE" /\ ~redirect.on /\ space_available
          /\ cur'.addr = even(fetch_ptr) /\ cur'.odd = (fetch_ptr % 2 = 1)
      BY <2>2 DEF StartFetch, start_fetch
    <3>2. fetch_ptr' = fetch_ptr /\ Len(pq') <= Len(pq)
      BY <1>2, <3>1 DEF pq_write_en
    <3>3. space_available'
      <4>1. Len(pq) <= 4 /\ Len(pq) \in Nat /\ Len(pq') \in Nat
        BY <1>2, <3>1 DEF space_available, StreamInv, StreamTypes
      <4> QED BY <3>2, <4>1 DEF space_available
    <3> QED BY <3>1, <3>2, <3>3 DEF FetchInStep, even
  <2>3. CASE t' = "IDLE" \/ t' = "T4"
    BY <2>3 DEF FetchInStep
  <2>4. CASE \/ Advance("T1", "T2") \/ Advance("T2", "T3")
             \/ ~ready /\ Advance("T3", "T3")
    <3>1. /\ t \in {"T1", "T2", "T3"} /\ cur' = cur
          /\ ~pq_write_en(redirect, ready)
      BY <2>4 DEF Advance, pq_write_en
    <3>2. SUFFICES ASSUME cur'.fetch, ~fetch_discard'
                   PROVE  /\ cur'.addr = even(fetch_ptr') /\ cur'.odd = (fetch_ptr' % 2 = 1)
                          /\ space_available'
      BY DEF FetchInStep, even
    <3>3. cur.fetch /\ t \notin {"IDLE", "T4"} /\ t # "T4"
      BY <3>1, <3>2
    <3>4. ~redirect.on /\ ~fetch_discard
      <4>1. ~redirect.on
        <5>1. CASE redirect.on
          <6>1. fetch_discard' = TRUE
            BY <1>1, <3>3, <5>1, Zenon DEF FetchClock
          <6> QED BY <3>2, <6>1
        <5> QED BY <5>1
      <4>2. fetch_discard' = fetch_discard
        BY <1>1, <3>3, <4>1, Zenon DEF FetchClock
      <4> QED BY <3>2, <4>1, <4>2
    <3>5. /\ cur.addr = even(fetch_ptr) /\ cur.odd = (fetch_ptr % 2 = 1)
          /\ space_available
      BY <3>1, <3>3, <3>4 DEF StreamInv, FetchInStep
    <3>6. fetch_ptr' = fetch_ptr /\ Len(pq') <= Len(pq)
      BY <1>2, <3>1, <3>4
    <3>7. space_available'
      <4>1. Len(pq) <= 4 /\ Len(pq) \in Nat /\ Len(pq') \in Nat
        BY <1>2, <3>5 DEF space_available, StreamInv, StreamTypes
      <4> QED BY <3>6, <4>1 DEF space_available
    <3> QED BY <3>1, <3>5, <3>6, <3>7
  <2> QED BY <1>3, <2>1, <2>2, <2>3, <2>4 DEF StayIdle, Advance
<1> QED BY <1>2, <1>4, <1>5 DEF StreamInv, StreamTypes

LEMMA RedirectIsAddr ==
  ASSUME NEW redirect \in redirects
  PROVE  redirect.addr \in Addrs
PROOF
<1>1. 0 \in Addrs /\ Redirects \subseteq Addrs
  BY BiuAssumptions, CpuBusAssumptions DEF Addrs
<1>2. CASE redirect = [on |-> FALSE, addr |-> 0]
  BY <1>1, <1>2
<1>3. CASE redirect \in [on : {TRUE}, addr : Redirects]
  <2>1. redirect.addr \in Redirects
    BY <1>3
  <2> QED BY <1>1, <2>1
<1> QED BY <1>2, <1>3 DEF redirects

(* However redirects fall among the bus cycles and whatever the execution  *)
(* unit takes at once, the queue holds the bytes that follow ip, and no    *)
(* more than it has room for (biu.sv:135-139, 317-325).                    *)
THEOREM CpuBusInstructionStream == Spec => []InstructionStream
PROOF
<1>1. ASSUME StreamInv, [Next]_vars PROVE StreamInv'
  <2>1. CASE Next
    <3>1. PICK ready \in BOOLEAN : Clock(ready)
      BY <2>1 DEF Next
    <3>2. PICK redirect \in redirects : \E pop \in Pops :
            /\ BiuClock(biu_req, biu_hold_req, redirect, pop, ready, din)
            /\ IpClock(redirect, pop)
      BY <3>1 DEF Clock
    <3>3. PICK pop \in Pops :
            /\ BiuClock(biu_req, biu_hold_req, redirect, pop, ready, din)
            /\ IpClock(redirect, pop)
      BY <3>2
    <3>4. redirect.addr \in Addrs /\ pop \in Nat
      BY <3>2, RedirectIsAddr, CpuBusAssumptions
    <3> QED BY <1>1, <3>3, <3>4, StreamStep
  <2>2. CASE UNCHANGED vars
    <3>1. UNCHANGED <<t, cur, fetch_ptr, fetch_discard, pq, ip>>
      BY <2>2 DEF vars, biuVars
    <3> QED BY <1>1, <3>1
            DEF StreamInv, StreamTypes, InstructionStream, FetchInStep, space_available
  <2> QED BY <1>1, <2>1, <2>2
<1>2. StreamInv => InstructionStream
  BY DEF StreamInv
<1> QED BY StreamInit, <1>1, <1>2, PTL DEF Spec

(***************************************************************************)
(* An access from the clock it starts to the clock its master is told.     *)
(***************************************************************************)

running  == t # "IDLE" /\ ~cur.fetch
accessed == done_r \/ split_active \/ running

isOdd(a) == a % 2 = 1

AccessTypes ==
  /\ t \in {"IDLE", "T1", "T2", "T3", "T4"}
  /\ cur \in [fetch : BOOLEAN, wr : BOOLEAN, addr : Addrs, bhe : {0, 1}, a0 : {0, 1},
              dout : Words, odd : BOOLEAN]
  /\ fetch_ptr \in Addrs
  /\ split_second \in BOOLEAN /\ split_active \in BOOLEAN /\ split_lo \in Vals
  /\ req_taken \in BOOLEAN /\ rdata_r \in Words /\ done_r \in BOOLEAN
  /\ xfer \in [word : BOOLEAN, wdata : Words]
  /\ eu \in [on : BOOLEAN, wr : BOOLEAN, word : BOOLEAN, addr : Addrs, data : Words]
  /\ dma \in [st : {"S_IDLE", "S_FETCH", "S_GAP", "S_DEPOSIT", "S_UPDATE"},
              src : Addrs, dst : Addrs, word : BOOLEAN, data : Words]
  /\ dma_owns \in BOOLEAN /\ dma_owns_d \in BOOLEAN
  /\ mem \in [Addrs -> Vals]

(* The access belongs to the request the BIU still sees.                   *)
Wanted ==
  /\ accessed => biu_req.on /\ req_taken
  /\ done_r => t = "IDLE" /\ ~split_active
  /\ split_active => ~split_second /\ ~cur.fetch
  /\ cur.fetch => ~cur.wr
  /\ running \/ split_active =>
       cur.wr = biu_req.wr /\ xfer = [word |-> biu_req.word, wdata |-> biu_req.data]

(* A first cycle, whole or the odd byte of a word; and the second one.     *)
FirstCycle ==
  LET q == biu_req IN
  /\ running /\ ~split_second =>
       /\ cur.addr = q.addr /\ (split_active <=> q.word /\ isOdd(q.addr))
       /\ IF isOdd(q.addr) THEN cur.a0 = 1 /\ cur.bhe = 0 /\ cur.dout[2] = q.data[1]
          ELSE /\ cur.a0 = 0 /\ cur.dout[1] = q.data[1]
               /\ IF q.word THEN cur.bhe = 0 /\ cur.dout = q.data ELSE cur.bhe = 1
  /\ split_active => q.word /\ isOdd(q.addr) /\ cur.addr = q.addr

SecondCycle ==
  LET q == biu_req IN
  running /\ split_second =>
    /\ ~split_active /\ q.word /\ isOdd(q.addr) /\ cur.addr = plus(q.addr, 1)
    /\ cur.bhe = 1 /\ cur.a0 = 0 /\ cur.dout[1] = q.data[2]

(* The first byte of a split word, once its cycle is over; and all of it.  *)
FirstHalfTrue ==
  LET q == biu_req IN
  (running /\ split_second) \/ (split_active /\ t \in {"T4", "IDLE"}) =>
    mem[q.addr] = IF q.wr THEN q.data[1] ELSE split_lo

WholeTrue ==
  LET q == biu_req IN
  done_r \/ (running /\ t = "T4" /\ ~split_active) =>
    holds(q, IF q.wr THEN q.data ELSE rdata_r)

AccessInv == AccessTypes /\ Wanted /\ FirstCycle /\ SecondCycle /\ FirstHalfTrue /\ WholeTrue

LEMMA Neighbours ==
  ASSUME NEW a \in Addrs
  PROVE  /\ even(a) \in Addrs /\ even(a) + 1 \in Addrs /\ even(a) # even(a) + 1
         /\ isOdd(a) => a = even(a) + 1
         /\ ~isOdd(a) => a = even(a) /\ plus(a, 1) = a + 1
         /\ plus(a, 1) \in Addrs /\ (isOdd(a) => ~isOdd(plus(a, 1)))
PROOF
<1>1. a \in Nat /\ a < SPACE /\ a % 2 \in {0, 1} /\ a = 2 * (a \div 2) + (a % 2) /\ a \div 2 \in Nat
  BY BiuAssumptions DEF Addrs
<1>2. SPACE \in Nat /\ SPACE = 2 * (SPACE \div 2) /\ SPACE \div 2 \in Nat /\ SPACE > 0
  BY BiuAssumptions
<1>3. even(a) = 2 * (a \div 2) /\ even(a) \in Nat /\ even(a) + 1 < SPACE
  BY <1>1, <1>2 DEF even
<1>4. plus(a, 1) \in Addrs
  BY <1>1, PlusIsAddr
<1>5. CASE isOdd(a)
  <2>1. a = even(a) + 1
    BY <1>1, <1>3, <1>5 DEF isOdd
  <2>2. ~isOdd(plus(a, 1))
    <3>1. CASE a + 1 < SPACE
      <4>1. a + 1 \in Addrs /\ plus(a, 1) = plus(a + 1, 0)
        BY <1>1, <1>2, <3>1 DEF Addrs, plus
      <4>2. plus(a, 1) = a + 1
        BY <4>1, PlusZero
      <4> QED BY <1>1, <1>5, <4>2 DEF isOdd
    <3>2. CASE a + 1 = SPACE
      <4>1. 0 \in Addrs /\ plus(a, 1) = SPACE % SPACE
        BY <1>1, <1>2, <3>2 DEF Addrs, plus
      <4>2. SPACE % SPACE \in 0..SPACE - 1 /\ SPACE \div SPACE \in Nat
            /\ SPACE = SPACE * (SPACE \div SPACE) + (SPACE % SPACE)
        BY <1>2, Division
      <4>3. SPACE * (SPACE \div SPACE) + (SPACE % SPACE) = SPACE * 1 + 0
        BY <1>2, <4>2
      <4>4. SPACE % SPACE = 0
        <5> DEFINE q == SPACE \div SPACE
                   r == SPACE % SPACE
        <5>1. q \in Nat /\ r \in 0..SPACE - 1 /\ SPACE * q + r = SPACE * 1 + 0
              /\ 0 \in 0..SPACE - 1 /\ SPACE \in Nat \ {0} /\ 1 \in Nat
          BY <1>2, <4>2, <4>3
        <5> HIDE DEF q, r
        <5>2. r = 0
          BY <5>1, RemainderUnique
        <5> QED BY <5>2 DEF r
      <4> QED BY <4>1, <4>4 DEF isOdd
    <3> QED BY <1>1, <1>2, <3>1, <3>2
  <2> QED BY <1>2, <1>3, <1>4, <1>5, <2>1, <2>2 DEF Addrs
<1>6. CASE ~isOdd(a)
  <2>1. a = even(a)
    BY <1>1, <1>3, <1>6 DEF isOdd
  <2>2. a + 1 \in Addrs /\ plus(a, 1) = plus(a + 1, 0)
    BY <1>1, <1>2, <1>3, <2>1 DEF Addrs, plus
  <2>3. plus(a, 1) = a + 1
    BY <2>2, PlusZero
  <2> QED BY <1>2, <1>3, <1>4, <1>6, <2>1, <2>3 DEF Addrs
<1> QED BY <1>5, <1>6

(* What a clock makes of memory.                                           *)
LEMMA MemoryStep ==
  ASSUME AccessTypes, NEW ready, MemClock(ready)
  PROVE  /\ ~(wr /\ t = "T3" /\ ready) => mem' = mem
         /\ wr /\ t = "T3" /\ ready =>
              /\ lowLane => mem'[even(cur.addr)] = cur.dout[1]
              /\ highLane => mem'[even(cur.addr) + 1] = cur.dout[2]
              /\ \A a \in Addrs : \/ a = even(cur.addr) /\ lowLane
                                  \/ a = even(cur.addr) + 1 /\ highLane
                                  \/ mem'[a] = mem[a]
         /\ mem' \in [Addrs -> Vals]
PROOF
<1> DEFINE lo == even(cur.addr)
           hi == even(cur.addr) + 1
           byte(a) == CASE a = lo /\ lowLane -> cur.dout[1]
                        [] a = hi /\ highLane -> cur.dout[2]
                        [] OTHER -> mem[a]
           f == [a \in Addrs |-> byte(a)]
<1>1. lo \in Addrs /\ hi \in Addrs /\ lo # hi
  BY Neighbours DEF AccessTypes
<1>2. cur.dout[1] \in Vals /\ cur.dout[2] \in Vals /\ mem \in [Addrs -> Vals]
  BY DEF AccessTypes, Words
<1>3. mem' = IF wr /\ t = "T3" /\ ready THEN f ELSE mem
  BY DEF MemClock
<1> HIDE DEF lo, hi
<1>4. lowLane => f[lo] = cur.dout[1]
  BY <1>1, Zenon
<1>5. highLane => f[hi] = cur.dout[2]
  BY <1>1, Zenon
<1>6. ASSUME NEW a \in Addrs
      PROVE  (a = lo /\ lowLane) \/ (a = hi /\ highLane) \/ f[a] = mem[a]
  BY Zenon
<1>7. f \in [Addrs -> Vals]
  <2>1. ASSUME NEW a \in Addrs PROVE f[a] \in Vals
    <3>1. mem[a] \in Vals
      BY <1>2
    <3>2. CASE a = lo /\ lowLane
      BY <1>2, <1>4, <3>2
    <3>3. CASE a = hi /\ highLane
      BY <1>2, <1>5, <3>3
    <3> QED BY <1>6, <3>1, <3>2, <3>3
  <2> HIDE DEF byte
  <2> QED BY <2>1
<1> HIDE DEF f, byte
<1> QED BY <1>2, <1>3, <1>4, <1>5, <1>6, <1>7 DEF lo, hi

Requests == [on : BOOLEAN, wr : BOOLEAN, word : BOOLEAN, addr : Addrs, data : Words]

LEMMA RequestTyped ==
  AccessTypes =>
    /\ biu_req \in Requests
    /\ biu_req.on => dma_owns = dma_owns_d
    /\ biu_req.on /\ dma_owns => dma.st \in {"S_FETCH", "S_DEPOSIT"} /\ biu_req = dmaRequest
    /\ biu_req.on /\ ~dma_owns => biu_req = eu /\ eu.on
PROOF
<1> SUFFICES ASSUME AccessTypes
             PROVE  /\ biu_req \in Requests
                    /\ biu_req.on => dma_owns = dma_owns_d
                    /\ biu_req.on /\ dma_owns =>
                         dma.st \in {"S_FETCH", "S_DEPOSIT"} /\ biu_req = dmaRequest
                    /\ biu_req.on /\ ~dma_owns => biu_req = eu /\ eu.on
  OBVIOUS
<1>1. NoRequest \in Requests /\ ~NoRequest.on
  BY BiuAssumptions DEF NoRequest, Requests, Addrs, Words
<1>2. /\ dma.src \in Addrs /\ dma.dst \in Addrs /\ dma.word \in BOOLEAN /\ dma.data \in Words
      /\ eu \in Requests
  BY DEF AccessTypes, Requests
<1>3. reads(dma.src, dma.word) \in Requests
  BY <1>1, <1>2 DEF reads, Requests
<1>4. writes(dma.dst, dma.word, dma.data) \in Requests
  BY <1>2 DEF writes, Requests
<1>5. dma.st = "S_FETCH" => dmaRequest = reads(dma.src, dma.word)
  BY Zenon DEF dmaRequest
<1>6. dma.st = "S_DEPOSIT" => dmaRequest = writes(dma.dst, dma.word, dma.data)
  <2>1. "S_DEPOSIT" # "S_FETCH"
    OBVIOUS
  <2> QED BY <2>1, Zenon DEF dmaRequest
<1>7. dma.st \notin {"S_FETCH", "S_DEPOSIT"} => dmaRequest = NoRequest
  <2>1. dma.st \notin {"S_FETCH", "S_DEPOSIT"} => dma.st # "S_FETCH" /\ dma.st # "S_DEPOSIT"
    OBVIOUS
  <2> QED BY <2>1, Zenon DEF dmaRequest
<1>8. biu_req = NoRequest \/ (biu_req = dmaRequest /\ dma_owns /\ ~arb_gap)
      \/ (biu_req = eu /\ ~dma_owns /\ ~arb_gap)
  BY DEF biu_req
<1>9. dmaRequest \in Requests /\ (dmaRequest.on => dma.st \in {"S_FETCH", "S_DEPOSIT"})
  BY <1>1, <1>3, <1>4, <1>5, <1>6, <1>7
<1>10. biu_req \in Requests
  BY <1>1, <1>2, <1>8, <1>9
<1> QED BY <1>1, <1>8, <1>9, <1>10 DEF arb_gap

(* Once a request is taken neither master nor owner changes it before it   *)
(* is done.                                                                *)
LEMMA RequestKept ==
  ASSUME AccessTypes, Wanted, NEW redirect, NEW pop, NEW ready, NEW d,
         BiuClock(biu_req, biu_hold_req, redirect, pop, ready, d),
         ArbClock, EuClock, DmaClock, accessed'
  PROVE  /\ ~done_r /\ biu_req.on /\ biu_req' = biu_req /\ req_taken'
         /\ running \/ split_active \/ StartData(biu_req, biu_hold_req)
PROOF
<1> DEFINE q == biu_req
           h == biu_hold_req
<1>1. \/ StartSplit(q, h) \/ StartData(q, h) \/ StartFetch(q, h, redirect)
      \/ StayIdle(q, h, redirect)
      \/ Advance("T1", "T2") \/ Advance("T2", "T3")
      \/ ~ready /\ Advance("T3", "T3")
      \/ ready /\ Advance("T3", "T4")
      \/ Advance("T4", "IDLE")
  BY DEF BiuClock
<1>2. done_r' => t = "T4" /\ ~cur.fetch /\ ~split_active
  BY DEF BiuClock, DoneClock
<1>3. req_taken' <=> (t = "IDLE" /\ start_data(q, h)) \/ (q.on /\ req_taken)
  BY DEF BiuClock, TakenClock
<1>4. ~done_r /\ (running \/ split_active \/ StartData(q, h))
  <2>1. CASE done_r
    <3>1. t = "IDLE" /\ ~split_active /\ req_taken
      BY <2>1 DEF Wanted, accessed
    <3>2. ~StartData(q, h) /\ ~StartSplit(q, h)
      BY <3>1 DEF StartData, start_data, StartSplit, start_split
    <3>3. CASE StartFetch(q, h, redirect)
      <4>1. cur'.fetch /\ split_active' = split_active
        BY <3>3 DEF StartFetch
      <4> QED BY <1>2, <3>1, <4>1 DEF accessed, running
    <3>4. CASE StayIdle(q, h, redirect)
      <4>1. t' = t /\ split_active' = split_active
        BY <3>4 DEF StayIdle, split
      <4> QED BY <1>2, <3>1, <4>1 DEF accessed, running
    <3> QED BY <1>1, <3>1, <3>2, <3>3, <3>4 DEF Advance
  <2>2. CASE ~done_r /\ ~running /\ ~split_active
    <3>1. ~StartSplit(q, h)
      BY <2>2 DEF StartSplit, start_split
    <3>2. CASE StartFetch(q, h, redirect)
      <4>1. cur'.fetch /\ split_active' = split_active /\ t = "IDLE"
        BY <3>2 DEF StartFetch
      <4> QED BY <1>2, <2>2, <4>1 DEF accessed, running
    <3>3. CASE StayIdle(q, h, redirect)
      <4>1. t' = t /\ split_active' = split_active /\ t = "IDLE"
        BY <3>3 DEF StayIdle, split
      <4> QED BY <1>2, <2>2, <4>1 DEF accessed, running
    <3>4. CASE t # "IDLE"
      <4>1. cur' = cur /\ split_active' = split_active
        BY <1>1, <3>4 DEF StartSplit, StartData, StartFetch, StayIdle, Advance, split
      <4>2. cur.fetch
        BY <2>2, <3>4 DEF running
      <4> QED BY <1>2, <2>2, <4>1, <4>2 DEF accessed, running
    <3>5. CASE StartData(q, h)
      BY <2>2, <3>5
    <3> QED BY <1>1, <3>1, <3>2, <3>3, <3>4, <3>5 DEF Advance
  <2> QED BY <2>1, <2>2
<1>5. q.on /\ req_taken' /\ (~dma_owns => ~(bus_hold /\ bus_idle))
  <2>1. CASE running \/ split_active
    BY <1>3, <2>1 DEF Wanted, accessed, running, bus_idle
  <2>2. CASE StartData(q, h)
    BY <1>3, <2>2 DEF StartData, start_data, biu_hold_req
  <2> QED BY <1>4, <2>1, <2>2
<1>6. CASE dma_owns
  <2>1. dma_owns = dma_owns_d /\ dma.st \in {"S_FETCH", "S_DEPOSIT"} /\ q = dmaRequest
    BY <1>5, <1>6, RequestTyped
  <2>2. dma_owns' = TRUE /\ dma_owns_d' = TRUE
    BY <1>6, <2>1 DEF ArbClock, dma_ownsNext, bus_hold, AccessTypes
  <2>3. dma' = dma
    BY <1>4, <2>1 DEF DmaClock, DmaIdle, dmaDone
  <2>4. dmaRequest' = dmaRequest
    BY <2>3, Zenon DEF dmaRequest, reads, writes, NoRequest
  <2>5. biu_req' = dmaRequest'
    BY <2>2 DEF biu_req, arb_gap
  <2> QED BY <1>4, <1>5, <2>1, <2>4, <2>5
<1>7. CASE ~dma_owns
  <2>1. dma_owns = dma_owns_d /\ q = eu /\ eu.on
    BY <1>5, <1>7, RequestTyped
  <2>2. dma_owns' = FALSE /\ dma_owns_d' = FALSE
    BY <1>5, <1>7, <2>1 DEF ArbClock, dma_ownsNext, AccessTypes
  <2>3. eu' = eu
    BY <1>4, <2>1 DEF EuClock, euDone
  <2>4. biu_req' = eu'
    BY <2>2 DEF biu_req, arb_gap
  <2> QED BY <1>4, <1>5, <2>1, <2>3, <2>4
<1> QED BY <1>6, <1>7

LEMMA AccessTypesStep ==
  ASSUME AccessTypes, NEW redirect, redirect.addr \in Addrs, NEW pop, NEW ready,
         BiuClock(biu_req, biu_hold_req, redirect, pop, ready, din),
         ArbClock, MemClock(ready), EuClock, DmaClock
  PROVE  AccessTypes'
PROOF
<1> DEFINE q == biu_req
           h == biu_hold_req
<1> USE DEF AccessTypes
<1>1. \/ StartSplit(q, h) \/ StartData(q, h) \/ StartFetch(q, h, redirect)
      \/ StayIdle(q, h, redirect)
      \/ Advance("T1", "T2") \/ Advance("T2", "T3")
      \/ ~ready /\ Advance("T3", "T3")
      \/ ready /\ Advance("T3", "T4")
      \/ Advance("T4", "IDLE")
  BY DEF BiuClock
<1>q. q \in Requests
  BY RequestTyped
<1>z. 0 \in Vals
  BY BiuAssumptions
<1>2. t' \in {"IDLE", "T1", "T2", "T3", "T4"}
  BY <1>1 DEF StartSplit, StartData, StartFetch, StayIdle, Advance
<1>3. /\ split_second' \in BOOLEAN /\ split_active' \in BOOLEAN
      /\ xfer' \in [word : BOOLEAN, wdata : Words]
  <2>1. CASE StartData(q, h)
    <3>1. split_second' = FALSE /\ split_active' = (q.word /\ q.addr % 2 = 1)
          /\ xfer' = [word |-> q.word, wdata |-> q.data]
      BY <2>1, Zenon DEF StartData
    <3> QED BY <1>q, <3>1 DEF Requests
  <2> QED BY <1>1, <2>1 DEF StartSplit, StartFetch, StayIdle, Advance, split
<1>4. cur' \in [fetch : BOOLEAN, wr : BOOLEAN, addr : Addrs, bhe : {0, 1}, a0 : {0, 1},
                dout : Words, odd : BOOLEAN]
  <2>1. CASE StartSplit(q, h)
    <3>1. plus(cur.addr, 1) \in Addrs
      BY Neighbours
    <3>2. <<xfer.wdata[2], 0>> \in Words
      BY <1>z DEF Words
    <3>3. cur' = [cur EXCEPT !.fetch = FALSE, !.odd = FALSE, !.addr = plus(@, 1),
                             !.bhe = 1, !.a0 = 0, !.dout = <<xfer.wdata[2], 0>>]
      BY <2>1 DEF StartSplit
    <3> QED BY <3>1, <3>2, <3>3
  <2>2. CASE StartData(q, h)
    <3> DEFINE odd == q.addr % 2 = 1
               out == CASE odd             -> <<0, q.data[1]>>
                        [] ~odd /\ q.word  -> q.data
                        [] ~odd /\ ~q.word -> <<q.data[1], 0>>
    <3>1. cur' = [fetch |-> FALSE, odd |-> FALSE, wr |-> q.wr, addr |-> q.addr,
                  bhe |-> IF q.word \/ odd THEN 0 ELSE 1,
                  a0 |-> IF odd THEN 1 ELSE 0, dout |-> out]
      BY <2>2, Zenon DEF StartData
    <3>2. out \in {<<0, q.data[1]>>, q.data, <<q.data[1], 0>>}
      BY <1>q, Zenon
    <3> HIDE DEF out
    <3>3. <<0, q.data[1]>> \in Words /\ <<q.data[1], 0>> \in Words /\ q.data \in Words
      BY <1>q, <1>z DEF Requests, Words
    <3>4. out \in Words
      BY <3>2, <3>3
    <3> QED BY <1>q, <3>1, <3>4 DEF Requests
  <2>3. CASE StartFetch(q, h, redirect)
    <3>1. even(fetch_ptr) \in Addrs
      BY Neighbours
    <3> QED BY <2>3, <3>1 DEF StartFetch
  <2> QED BY <1>1, <2>1, <2>2, <2>3 DEF StayIdle, Advance
<1>5. fetch_ptr' \in Addrs
  <2>1. fetch_ptr' \in {redirect.addr, plus(fetch_ptr, Len(fetched)), fetch_ptr}
    BY Zenon DEF BiuClock, FetchClock
  <2>2. Len(fetched) \in Nat /\ fetch_ptr \in Nat
    BY BiuAssumptions DEF fetched, Addrs
  <2>3. plus(fetch_ptr, Len(fetched)) \in Addrs
    BY <2>2, PlusIsAddr
  <2> QED BY <2>1, <2>3
<1>6. req_taken' \in BOOLEAN /\ done_r' \in BOOLEAN
  BY DEF BiuClock, TakenClock, DoneClock
<1>7. split_lo' \in Vals /\ rdata_r' \in Words
  <2>1. even(cur.addr) \in Addrs /\ even(cur.addr) + 1 \in Addrs
    BY Neighbours
  <2>2. din \in Words /\ din[1] \in Vals /\ din[2] \in Vals
    BY <2>1 DEF din, Words
  <2>3. assembled(din) \in {<<split_lo, din[1]>>, <<din[2], 0>>, <<din[1], 0>>, din}
    <3>1. CASE split_second
      BY <3>1, Zenon DEF assembled
    <3>2. CASE ~split_second /\ xfer.word
      BY <3>2, Zenon DEF assembled
    <3>3. CASE ~split_second /\ ~xfer.word
      <4>1. assembled(din) = <<IF cur.a0 = 1 THEN din[2] ELSE din[1], 0>>
        BY <3>3, Zenon DEF assembled
      <4> QED BY <4>1
    <3> QED BY <3>1, <3>2, <3>3
  <2>4. assembled(din) \in Words
    BY <1>z, <2>2, <2>3 DEF Words
  <2> QED BY <2>2, <2>4 DEF BiuClock, DataClock
<1>8. eu' \in Requests
  <2>1. eu \in Requests /\ NoRequest \in Requests
    BY <1>z, BiuAssumptions DEF Requests, NoRequest, Words, Addrs
  <2>2. DataAddrs \subseteq Addrs
    BY CpuBusAssumptions
  <2>3. ASSUME NEW a \in DataAddrs, NEW w \in BOOLEAN PROVE reads(a, w) \in Requests
    BY <2>1, <2>2 DEF reads, Requests
  <2>4. ASSUME NEW a \in DataAddrs, NEW w \in BOOLEAN, NEW x \in Words
        PROVE  writes(a, w, x) \in Requests
    BY <2>2 DEF writes, Requests
  <2>5. Vals \X {0} \subseteq Words
    BY <1>z DEF Words
  <2>6. ASSUME NEW a \in DataAddrs, NEW w \in BOOLEAN,
               NEW x \in IF w THEN Words ELSE Vals \X {0}
        PROVE  writes(a, w, x) \in Requests
    BY <2>4, <2>5
  <2>7. \/ eu' = eu \/ eu' = NoRequest
        \/ \E a \in DataAddrs, w \in BOOLEAN : eu' = reads(a, w)
        \/ \E a \in DataAddrs, w \in BOOLEAN :
             \E x \in IF w THEN Words ELSE Vals \X {0} : eu' = writes(a, w, x)
        \/ \E a \in DataAddrs : eu' = writes(a, TRUE, rdata_r)
    BY ONLY EuClock DEF EuClock
  <2>8. rdata_r \in Words
    OBVIOUS
  <2> QED BY ONLY <2>1, <2>3, <2>4, <2>6, <2>7, <2>8
<1>9. dma' \in [st : {"S_IDLE", "S_FETCH", "S_GAP", "S_DEPOSIT", "S_UPDATE"},
                src : Addrs, dst : Addrs, word : BOOLEAN, data : Words]
  <2>1. DataAddrs \subseteq Addrs /\ 0 \in Addrs /\ <<0, 0>> \in Words
    BY <1>z, CpuBusAssumptions, BiuAssumptions DEF Addrs, Words
  <2>2. CASE DmaIdle
    BY <2>1, <2>2 DEF DmaIdle
  <2>3. rdata_r \in Words
    OBVIOUS
  <2>4. \/ dma' = dma
        \/ dma' = [dma EXCEPT !.st = "S_GAP", !.data = rdata_r]
        \/ dma' = [dma EXCEPT !.st = "S_DEPOSIT"]
        \/ dma' = [dma EXCEPT !.st = "S_UPDATE"]
        \/ dma' = NoTransfer \/ DmaIdle
    BY ONLY DmaClock DEF DmaClock
  <2>5. dma \in [st : {"S_IDLE", "S_FETCH", "S_GAP", "S_DEPOSIT", "S_UPDATE"},
                src : Addrs, dst : Addrs, word : BOOLEAN, data : Words]
    OBVIOUS
  <2>6. CASE dma' = [dma EXCEPT !.st = "S_GAP", !.data = rdata_r]
    BY ONLY <2>3, <2>5, <2>6
  <2>7. CASE dma' = [dma EXCEPT !.st = "S_DEPOSIT"] \/ dma' = [dma EXCEPT !.st = "S_UPDATE"]
    BY ONLY <2>5, <2>7
  <2>8. CASE dma' = NoTransfer
    BY ONLY <2>1, <2>8 DEF NoTransfer
  <2> QED BY <2>2, <2>4, <2>5, <2>6, <2>7, <2>8
<1>10. dma_owns' \in BOOLEAN /\ dma_owns_d' \in BOOLEAN
  <2>1. bus_hold \in BOOLEAN /\ (bus_hold /\ bus_idle) \in BOOLEAN
    BY DEF bus_hold
  <2>2. dma_owns' \in {bus_hold, bus_hold /\ bus_idle}
    BY DEF ArbClock, dma_ownsNext
  <2> QED BY <2>1, <2>2 DEF ArbClock
<1>11. mem' \in [Addrs -> Vals]
  BY MemoryStep
<1> QED BY <1>2, <1>3, <1>4, <1>5, <1>6, <1>7, <1>8, <1>9, <1>10, <1>11 DEF Requests

LEMMA WantedStep ==
  ASSUME AccessTypes, Wanted, NEW redirect, NEW pop, NEW ready, NEW d,
         BiuClock(biu_req, biu_hold_req, redirect, pop, ready, d),
         ArbClock, EuClock, DmaClock
  PROVE  Wanted'
PROOF
<1> DEFINE q == biu_req
           h == biu_hold_req
<1>1. \/ StartSplit(q, h) \/ StartData(q, h) \/ StartFetch(q, h, redirect)
      \/ StayIdle(q, h, redirect)
      \/ Advance("T1", "T2") \/ Advance("T2", "T3")
      \/ ~ready /\ Advance("T3", "T3")
      \/ ready /\ Advance("T3", "T4")
      \/ Advance("T4", "IDLE")
  BY DEF BiuClock
<1>2. accessed' => /\ biu_req.on /\ biu_req' = biu_req /\ req_taken'
                   /\ running \/ split_active \/ StartData(biu_req, biu_hold_req)
  BY RequestKept
<1>3. done_r' => t' = "IDLE" /\ ~split_active'
  <2>1. done_r' => t = "T4" /\ ~split_active
    BY DEF BiuClock, DoneClock
  <2>2. t = "T4" => Advance("T4", "IDLE")
    BY <1>1 DEF StartSplit, StartData, StartFetch, StayIdle, Advance
  <2> QED BY <2>1, <2>2 DEF Advance, split
<1>4. split_active' => ~split_second' /\ ~cur'.fetch
  <2>1. CASE StartData(q, h)
    <3>1. split_second' = FALSE /\ ~cur'.fetch
      BY <2>1, Zenon DEF StartData
    <3> QED BY <3>1
  <2> QED BY <1>1, <2>1
          DEF Wanted, StartSplit, StartFetch, start_fetch, start_split, StayIdle, Advance, split
<1>5. ASSUME running' \/ split_active'
      PROVE  /\ cur'.wr = biu_req'.wr
             /\ xfer' = [word |-> biu_req'.word, wdata |-> biu_req'.data]
  <2>1. biu_req' = biu_req /\ (running \/ split_active \/ StartData(q, h))
    BY <1>2, <1>5 DEF accessed
  <2>2. CASE StartData(q, h)
    <3>1. cur'.wr = q.wr /\ xfer' = [word |-> q.word, wdata |-> q.data]
      BY <2>2, Zenon DEF StartData
    <3> QED BY <2>1, <3>1
  <2>3. CASE ~StartData(q, h)
    <3>1. cur.wr = q.wr /\ xfer = [word |-> q.word, wdata |-> q.data]
      BY <2>1, <2>3 DEF Wanted
    <3>2. ~StartFetch(q, h, redirect)
      BY <2>1, <2>3 DEF StartFetch, start_fetch, start_split, running
    <3>3. cur'.wr = cur.wr /\ xfer' = xfer
      BY <1>1, <2>3, <3>2 DEF StartSplit, StayIdle, Advance, AccessTypes
    <3> QED BY <2>1, <3>1, <3>3
  <2> QED BY <2>2, <2>3
<1>6. cur'.fetch => ~cur'.wr
  <2>1. ASSUME StartData(q, h) PROVE ~cur'.fetch
    BY <2>1, Zenon DEF StartData
  <2>2. StartSplit(q, h) => ~cur'.fetch
    BY DEF StartSplit, AccessTypes
  <2>3. StartFetch(q, h, redirect) => ~cur'.wr
    BY DEF StartFetch
  <2> QED BY <1>1, <2>1, <2>2, <2>3 DEF StayIdle, Advance, Wanted
<1> QED BY <1>2, <1>3, <1>4, <1>5, <1>6 DEF Wanted

LEMMA CyclesStep ==
  ASSUME AccessTypes, Wanted, FirstCycle, SecondCycle, NEW redirect, NEW pop, NEW ready, NEW d,
         BiuClock(biu_req, biu_hold_req, redirect, pop, ready, d),
         ArbClock, EuClock, DmaClock
  PROVE  FirstCycle' /\ SecondCycle'
PROOF
<1> DEFINE q == biu_req
           h == biu_hold_req
<1>1. \/ StartSplit(q, h) \/ StartData(q, h) \/ StartFetch(q, h, redirect)
      \/ StayIdle(q, h, redirect)
      \/ Advance("T1", "T2") \/ Advance("T2", "T3")
      \/ ~ready /\ Advance("T3", "T3")
      \/ ready /\ Advance("T3", "T4")
      \/ Advance("T4", "IDLE")
  BY DEF BiuClock
<1>2. accessed' => /\ biu_req' = q
                   /\ running \/ split_active \/ StartData(q, h)
  BY RequestKept
<1>3. CASE ~(running' \/ split_active')
  BY <1>3 DEF FirstCycle, SecondCycle
<1>4. CASE (running' \/ split_active') /\ StartData(q, h)
  <2> DEFINE odd == q.addr % 2 = 1
             out == CASE odd             -> <<0, q.data[1]>>
                      [] ~odd /\ q.word  -> q.data
                      [] ~odd /\ ~q.word -> <<q.data[1], 0>>
  <2>1. cur' = [fetch |-> FALSE, odd |-> FALSE, wr |-> q.wr, addr |-> q.addr,
                bhe |-> IF q.word \/ odd THEN 0 ELSE 1,
                a0 |-> IF odd THEN 1 ELSE 0, dout |-> out]
    BY <1>4, Zenon DEF StartData
  <2>2. split_second' = FALSE /\ (split_active' <=> q.word /\ odd)
    BY <1>4, Zenon DEF StartData
  <2>3. /\ odd => out = <<0, q.data[1]>>
        /\ ~odd /\ q.word => out = q.data
        /\ ~odd /\ ~q.word => out = <<q.data[1], 0>>
    BY Zenon
  <2> HIDE DEF out
  <2>4. odd => cur'.dout[2] = q.data[1] /\ cur'.a0 = 1 /\ cur'.bhe = 0
    BY <2>1, <2>3
  <2>5. ~odd => cur'.dout[1] = q.data[1] /\ cur'.a0 = 0
    BY <2>1, <2>3
  <2>6. ~odd /\ q.word => cur'.dout = q.data /\ cur'.bhe = 0
    BY <2>1, <2>3
  <2>7. ~odd /\ ~q.word => cur'.bhe = 1
    BY <2>1
  <2>8. cur'.addr = q.addr /\ biu_req' = q
    BY <1>2, <1>4, <2>1 DEF accessed
  <2>9. isOdd(q.addr) <=> odd
    BY DEF isOdd
  <2> HIDE DEF odd
  <2>10. FirstCycle'
    BY <2>2, <2>4, <2>5, <2>6, <2>7, <2>8, <2>9 DEF FirstCycle, isOdd
  <2>11. SecondCycle'
    BY <2>2 DEF SecondCycle
  <2> QED BY <2>10, <2>11
<1>5. CASE (running' \/ split_active') /\ StartSplit(q, h)
  <2>1. /\ split_active /\ split_second' = TRUE /\ split_active' = FALSE
        /\ cur' = [cur EXCEPT !.fetch = FALSE, !.odd = FALSE, !.addr = plus(@, 1),
                              !.bhe = 1, !.a0 = 0, !.dout = <<xfer.wdata[2], 0>>]
    BY <1>5 DEF StartSplit, start_split
  <2>2. q.word /\ isOdd(q.addr) /\ cur.addr = q.addr
    BY <2>1 DEF FirstCycle
  <2>3. xfer = [word |-> q.word, wdata |-> q.data]
    BY <2>1 DEF Wanted
  <2>4. cur'.addr = plus(q.addr, 1) /\ cur'.bhe = 1 /\ cur'.a0 = 0 /\ cur'.dout[1] = q.data[2]
    BY <2>1, <2>2, <2>3 DEF AccessTypes
  <2>5. biu_req' = q
    BY <1>2, <1>5 DEF accessed
  <2> QED BY <2>1, <2>2, <2>4, <2>5 DEF FirstCycle, SecondCycle, isOdd, plus
<1>6. CASE (running' \/ split_active') /\ ~StartData(q, h) /\ ~StartSplit(q, h)
  <2>1. biu_req' = q /\ (running \/ split_active)
    BY <1>2, <1>6 DEF accessed
  <2>2. ~StartFetch(q, h, redirect) /\ ~StayIdle(q, h, redirect)
    BY <2>1 DEF StartFetch, start_fetch, StayIdle, start_split, running
  <2>3. /\ cur' = cur /\ split_active' = split_active /\ split_second' = split_second
        /\ t # "IDLE"
    BY <1>1, <1>6, <2>2 DEF Advance, split
  <2>4. running' => running
    BY <2>3 DEF running
  <2>5. FirstCycle'
    BY <2>1, <2>3, <2>4 DEF FirstCycle, isOdd
  <2>6. SecondCycle'
    BY <2>1, <2>3, <2>4 DEF SecondCycle, isOdd, plus
  <2> QED BY <2>5, <2>6
<1> QED BY <1>3, <1>4, <1>5, <1>6

LEMMA FirstHalfStep ==
  ASSUME AccessInv, NEW redirect, NEW pop, NEW ready,
         BiuClock(biu_req, biu_hold_req, redirect, pop, ready, din),
         ArbClock, EuClock, DmaClock, MemClock(ready)
  PROVE  FirstHalfTrue'
PROOF
<1> DEFINE q == biu_req
           h == biu_hold_req
<1> USE DEF AccessInv
<1>1. \/ StartSplit(q, h) \/ StartData(q, h) \/ StartFetch(q, h, redirect)
      \/ StayIdle(q, h, redirect)
      \/ Advance("T1", "T2") \/ Advance("T2", "T3")
      \/ ~ready /\ Advance("T3", "T3")
      \/ ready /\ Advance("T3", "T4")
      \/ Advance("T4", "IDLE")
  BY DEF BiuClock
<1>2. SUFFICES ASSUME (running' /\ split_second') \/ (split_active' /\ t' \in {"T4", "IDLE"})
               PROVE  /\ biu_req' = q
                      /\ mem'[q.addr] = IF q.wr THEN q.data[1] ELSE split_lo'
  BY DEF FirstHalfTrue
<1>3. /\ biu_req' = q /\ q \in Requests
      /\ running \/ split_active \/ StartData(q, h)
  BY <1>2, RequestKept, RequestTyped DEF accessed
<1>4. ~StartData(q, h)
  <2>1. StartData(q, h) => split_second' = FALSE /\ t' = "T1"
    BY Zenon DEF StartData
  <2> QED BY <1>2, <2>1
<1>5. ~StartFetch(q, h, redirect) /\ ~StayIdle(q, h, redirect)
  BY <1>3, <1>4 DEF StartFetch, start_fetch, StayIdle, start_split, running
<1>6. CASE split_active /\ t = "T3" /\ ready
  <2>1. running /\ ~split_second /\ cur.wr = q.wr
    BY <1>6 DEF Wanted, running
  <2>2. isOdd(q.addr) /\ cur.addr = q.addr /\ highLane /\ cur.dout[2] = q.data[1]
    BY <1>6, <2>1 DEF FirstCycle, highLane
  <2>3. q.addr = even(cur.addr) + 1
    BY <1>3, <2>2, Neighbours DEF Requests
  <2>4. CASE q.wr
    <3>1. wr
      BY <1>6, <2>1, <2>4 DEF wr
    <3>2. mem'[even(cur.addr) + 1] = cur.dout[2]
      BY <1>6, <2>2, <3>1, MemoryStep
    <3> QED BY <1>3, <2>2, <2>3, <2>4, <3>2
  <2>5. CASE ~q.wr
    <3>1. ~wr
      BY <2>1, <2>5 DEF wr
    <3>2. mem' = mem
      BY <3>1, MemoryStep
    <3>3. split_lo' = din[2]
      BY <1>6, <2>1, <2>5 DEF BiuClock, DataClock, running
    <3>4. din[2] = mem[even(cur.addr) + 1]
      BY DEF din
    <3> QED BY <1>3, <2>3, <2>5, <3>2, <3>3, <3>4
  <2> QED BY <2>4, <2>5
<1>7. CASE ~(split_active /\ t = "T3" /\ ready)
  <2>1. (running /\ split_second) \/ (split_active /\ t \in {"T4", "IDLE"})
    <3>1. CASE StartSplit(q, h)
      BY <3>1 DEF StartSplit, start_split
    <3>2. CASE ~StartSplit(q, h)
      <4>1. cur' = cur /\ split_active' = split_active /\ split_second' = split_second
        BY <1>1, <1>4, <1>5, <3>2 DEF Advance, split
      <4>2. t # "IDLE" /\ (t' \in {"T4", "IDLE"} => t = "T4" \/ (t = "T3" /\ ready))
        BY <1>1, <1>4, <1>5, <3>2 DEF Advance
      <4> QED BY <1>2, <1>7, <4>1, <4>2 DEF running
    <3> QED BY <3>1, <3>2
  <2>2. mem[q.addr] = IF q.wr THEN q.data[1] ELSE split_lo
    BY <2>1 DEF FirstHalfTrue
  <2>3. split_lo' = split_lo
    BY <1>7, <2>1 DEF BiuClock, DataClock, running
  <2>4. mem'[q.addr] = mem[q.addr]
    <3>1. CASE t = "T3"
      <4>1. running /\ split_second
        BY <2>1, <3>1
      <4>2. isOdd(q.addr) /\ cur.addr = plus(q.addr, 1) /\ ~highLane
        BY <4>1 DEF SecondCycle, highLane
      <4>3. q.addr \in Addrs /\ cur.addr \in Addrs /\ cur.addr = even(cur.addr)
            /\ q.addr # cur.addr
        BY <1>3, <4>2, Neighbours DEF Requests
      <4>4. wr /\ t = "T3" /\ ready =>
              \A a \in Addrs : \/ a = even(cur.addr) /\ lowLane
                               \/ a = even(cur.addr) + 1 /\ highLane
                               \/ mem'[a] = mem[a]
        BY MemoryStep
      <4>5. ~(wr /\ t = "T3" /\ ready) => mem' = mem
        BY MemoryStep
      <4> QED BY <4>2, <4>3, <4>4, <4>5
    <3>2. CASE t # "T3"
      BY <3>2, MemoryStep
    <3> QED BY <3>1, <3>2
  <2> QED BY <1>3, <2>2, <2>3, <2>4
<1> QED BY <1>6, <1>7

(* The values of memory after the last cycle of an access.                 *)
LEMMA LastCycle ==
  ASSUME AccessInv, NEW ready, MemClock(ready), DataClock(ready, din),
         running, ~split_active, t = "T3", ready
  PROVE  LET q == biu_req
             v == IF q.wr THEN q.data ELSE rdata_r' IN
         /\ mem'[q.addr] = v[1]
         /\ q.word => mem'[plus(q.addr, 1)] = v[2]
PROOF
<1> DEFINE q == biu_req
           v == IF q.wr THEN q.data ELSE rdata_r'
           lo == even(cur.addr)
           hi == even(cur.addr) + 1
<1> USE DEF AccessInv
<1>1. /\ cur.wr = q.wr /\ xfer = [word |-> q.word, wdata |-> q.data]
      /\ q \in Requests /\ ~cur.fetch
  BY RequestTyped DEF Wanted, running
<1>2. /\ q.wr /\ lowLane => mem'[lo] = cur.dout[1]
      /\ q.wr /\ highLane => mem'[hi] = cur.dout[2]
      /\ q.wr => \A a \in Addrs : \/ a = lo /\ lowLane
                                  \/ a = hi /\ highLane
                                  \/ mem'[a] = mem[a]
  BY <1>1, MemoryStep DEF wr
<1>3. ~q.wr => mem' = mem /\ rdata_r' = assembled(din)
  <2>1. ~q.wr => mem' = mem
    BY <1>1, MemoryStep DEF wr
  <2> QED BY <1>1, <2>1 DEF DataClock
<1>4. din[1] = mem[lo] /\ din[2] = mem[hi]
  BY DEF din
<1>5. /\ split_second => assembled(din) = <<split_lo, din[1]>>
      /\ ~split_second /\ ~q.word =>
           assembled(din) = <<IF cur.a0 = 1 THEN din[2] ELSE din[1], 0>>
      /\ ~split_second /\ q.word => assembled(din) = din
  <2>1. xfer.word <=> q.word
    BY <1>1
  <2> QED BY <2>1, Zenon DEF assembled
<1>6. CASE split_second
  <2>1. /\ q.word /\ isOdd(q.addr) /\ cur.addr = plus(q.addr, 1)
        /\ lowLane /\ ~highLane /\ cur.dout[1] = q.data[2]
    BY <1>6 DEF SecondCycle, lowLane, highLane
  <2>2. mem[q.addr] = IF q.wr THEN q.data[1] ELSE split_lo
    BY <1>6 DEF FirstHalfTrue
  <2>3. lo = plus(q.addr, 1) /\ q.addr # lo /\ q.addr \in Addrs
    BY <1>1, <2>1, Neighbours DEF Requests
  <2>4. CASE q.wr
    <3>1. mem'[q.addr] = mem[q.addr]
      BY <1>2, <2>1, <2>3, <2>4
    <3>2. mem'[lo] = q.data[2]
      BY <1>2, <2>1, <2>4
    <3> QED BY <2>2, <2>3, <2>4, <3>1, <3>2
  <2>5. CASE ~q.wr
    <3>1. rdata_r' = <<split_lo, mem[lo]>> /\ mem' = mem
      BY <1>3, <1>4, <1>5, <1>6, <2>5
    <3> QED BY <2>2, <2>3, <2>5, <3>1
  <2> QED BY <2>4, <2>5
<1>7. CASE ~split_second /\ isOdd(q.addr)
  <2>1. /\ ~q.word /\ cur.addr = q.addr /\ cur.a0 = 1 /\ highLane
        /\ cur.dout[2] = q.data[1]
    BY <1>7 DEF FirstCycle, highLane
  <2>2. hi = q.addr
    BY <1>1, <1>7, <2>1, Neighbours DEF Requests
  <2>3. CASE q.wr
    BY <1>2, <2>1, <2>2, <2>3
  <2>4. CASE ~q.wr
    <3>1. rdata_r' = <<mem[hi], 0>> /\ mem' = mem
      BY <1>3, <1>4, <1>5, <1>7, <2>1, <2>4
    <3> QED BY <2>1, <2>2, <2>4, <3>1
  <2> QED BY <2>3, <2>4
<1>8. CASE ~split_second /\ ~isOdd(q.addr)
  <2>1. /\ cur.addr = q.addr /\ cur.a0 = 0 /\ lowLane /\ cur.dout[1] = q.data[1]
        /\ q.word => highLane /\ cur.dout = q.data
    BY <1>8 DEF FirstCycle, lowLane, highLane
  <2>2. lo = q.addr /\ hi = plus(q.addr, 1)
    BY <1>1, <1>8, <2>1, Neighbours DEF Requests
  <2>3. CASE q.wr
    <3>1. mem'[q.addr] = q.data[1] /\ (q.word => mem'[plus(q.addr, 1)] = q.data[2])
      BY <1>2, <2>1, <2>2, <2>3
    <3> QED BY <2>3, <3>1
  <2>4. CASE ~q.wr
    <3>1. mem' = mem /\ rdata_r' = assembled(din)
      BY <1>3, <2>4
    <3>2. CASE q.word
      BY <1>4, <1>5, <1>8, <2>2, <2>4, <3>1, <3>2
    <3>3. CASE ~q.word
      <4>1. rdata_r' = <<mem[lo], 0>>
        BY <1>4, <1>5, <1>8, <2>1, <3>1, <3>3
      <4> QED BY <2>2, <2>4, <3>1, <3>3, <4>1
    <3> QED BY <3>2, <3>3
  <2> QED BY <2>3, <2>4
<1> QED BY <1>6, <1>7, <1>8

LEMMA WholeStep ==
  ASSUME AccessInv, NEW redirect, NEW pop, NEW ready,
         BiuClock(biu_req, biu_hold_req, redirect, pop, ready, din),
         ArbClock, EuClock, DmaClock, MemClock(ready)
  PROVE  WholeTrue'
PROOF
<1> DEFINE q == biu_req
           h == biu_hold_req
<1> USE DEF AccessInv
<1>1. \/ StartSplit(q, h) \/ StartData(q, h) \/ StartFetch(q, h, redirect)
      \/ StayIdle(q, h, redirect)
      \/ Advance("T1", "T2") \/ Advance("T2", "T3")
      \/ ~ready /\ Advance("T3", "T3")
      \/ ready /\ Advance("T3", "T4")
      \/ Advance("T4", "IDLE")
  BY DEF BiuClock
<1>2. SUFFICES ASSUME done_r' \/ (running' /\ t' = "T4" /\ ~split_active')
               PROVE  biu_req' = q /\ holds(q, IF q.wr THEN q.data ELSE rdata_r)'
  BY DEF WholeTrue
<1>3. biu_req' = q /\ q \in Requests
  BY <1>2, RequestKept, RequestTyped DEF accessed
<1>4. \/ t = "T4" /\ running /\ ~split_active
      \/ t = "T3" /\ ready /\ running /\ ~split_active
  <2>1. CASE done_r'
    BY <2>1 DEF BiuClock, DoneClock, running
  <2>2. CASE running' /\ t' = "T4" /\ ~split_active'
    <3>1. ready /\ Advance("T3", "T4")
      <4>1. ~StartData(q, h)
        <5>1. StartData(q, h) => t' = "T1"
          BY Zenon DEF StartData
        <5> QED BY <2>2, <5>1
      <4> QED BY <1>1, <2>2, <4>1 DEF StartSplit, StartFetch, StayIdle, Advance
    <3> QED BY <2>2, <3>1 DEF Advance, running, split
  <2> QED BY <1>2, <2>1, <2>2
<1>5. CASE t = "T4" /\ running /\ ~split_active
  <2>1. mem' = mem
    BY <1>5, MemoryStep
  <2>2. rdata_r' = rdata_r
    BY <1>5 DEF BiuClock, DataClock
  <2>3. holds(q, IF q.wr THEN q.data ELSE rdata_r)
    BY <1>5 DEF WholeTrue
  <2> QED BY <1>3, <2>1, <2>2, <2>3 DEF holds, bytes, plus
<1>6. CASE t = "T3" /\ ready /\ running /\ ~split_active
  <2> DEFINE v == IF q.wr THEN q.data ELSE rdata_r'
  <2>1. DataClock(ready, din)
    BY DEF BiuClock
  <2>2. /\ mem'[q.addr] = v[1]
        /\ q.word => mem'[plus(q.addr, 1)] = v[2]
    BY <1>6, <2>1, LastCycle
  <2>3. holds(q, IF q.wr THEN q.data ELSE rdata_r)' =
          \A i \in 1 .. Len(bytes(q)) : mem'[bytes(q)[i]] = v[i]
    BY <1>3 DEF holds, bytes, plus
  <2> HIDE DEF v
  <2>4. \A i \in 1 .. Len(bytes(q)) : mem'[bytes(q)[i]] = v[i]
    BY <2>2 DEF bytes
  <2> QED BY <1>3, <2>3, <2>4
<1> QED BY <1>4, <1>5, <1>6

LEMMA AccessInit == Init => AccessInv
PROOF
<1> SUFFICES ASSUME Init PROVE AccessInv
  OBVIOUS
<1> USE DEF Init, BiuInit
<1>1. 0 \in Vals /\ <<0, 0>> \in Words /\ 0 \in Addrs
  BY BiuAssumptions DEF Words, Addrs
<1>2. AccessTypes
  BY <1>1 DEF AccessTypes, NoRequest, NoTransfer
<1>3. ~accessed /\ ~running /\ ~split_active /\ ~done_r
  BY DEF accessed, running
<1> QED BY <1>2, <1>3
       DEF AccessInv, Wanted, FirstCycle, SecondCycle, FirstHalfTrue, WholeTrue

LEMMA AccessStep == AccessInv /\ [Next]_vars => AccessInv'
PROOF
<1> SUFFICES ASSUME AccessInv, [Next]_vars PROVE AccessInv'
  OBVIOUS
<1>1. CASE Next
  <2>1. PICK ready \in BOOLEAN : Clock(ready)
    BY <1>1 DEF Next
  <2>2. PICK redirect \in redirects, pop \in Pops :
          /\ BiuClock(biu_req, biu_hold_req, redirect, pop, ready, din)
          /\ ArbClock /\ MemClock(ready) /\ EuClock /\ DmaClock
    BY <2>1 DEF Clock
  <2>3. redirect.addr \in Addrs
    BY <2>2, RedirectIsAddr
  <2>4. AccessTypes'
    BY <2>2, <2>3, AccessTypesStep DEF AccessInv
  <2>5. Wanted'
    BY <2>2, WantedStep DEF AccessInv
  <2>6. FirstCycle' /\ SecondCycle'
    BY <2>2, CyclesStep DEF AccessInv
  <2>7. FirstHalfTrue'
    BY <2>2, FirstHalfStep
  <2>8. WholeTrue'
    BY <2>2, WholeStep
  <2> QED BY <2>4, <2>5, <2>6, <2>7, <2>8 DEF AccessInv
<1>2. CASE UNCHANGED vars
  <2>1. UNCHANGED <<t, cur, fetch_ptr, split_second, split_active, split_lo, req_taken,
                    rdata_r, done_r, xfer, eu, dma, dma_owns, dma_owns_d, mem>>
    BY <1>2 DEF vars, biuVars, split
  <2>2. dmaRequest' = dmaRequest
    BY <2>1, Zenon DEF dmaRequest, reads, writes, NoRequest
  <2>3. biu_req' = biu_req
    BY <2>1, <2>2 DEF biu_req, arb_gap, NoRequest
  <2>4. AccessTypes'
    BY <2>1 DEF AccessInv, AccessTypes
  <2>5. Wanted' /\ FirstCycle' /\ SecondCycle'
    BY <2>1, <2>3
       DEF AccessInv, Wanted, FirstCycle, SecondCycle, accessed, running, isOdd, plus
  <2>6. FirstHalfTrue' /\ WholeTrue'
    BY <2>1, <2>3 DEF AccessInv, FirstHalfTrue, WholeTrue, running, holds, bytes, plus
  <2> QED BY <2>4, <2>5, <2>6 DEF AccessInv
<1> QED BY <1>1, <1>2

(* A cycle under way is of the access its master asked for, and stays it    *)
(* over both halves of a word at an odd address, whichever of the execution *)
(* unit and the DMA owns the bus (biu.sv, lines 207-316).                   *)
THEOREM CpuBusAccessInvariant == Spec => []AccessInv
BY AccessInit, AccessStep, PTL DEF Spec

(* A master told that its access is done had asked for it, and the bytes   *)
(* it named are what it read or wrote (biu.sv:24-28).                      *)
THEOREM CpuBusDoneIsTrue == Spec => []DoneIsTrue
PROOF
<1>1. AccessInv => DoneIsTrue
  BY DEF AccessInv, Wanted, WholeTrue, accessed, DoneIsTrue
<1> QED BY <1>1, CpuBusAccessInvariant, PTL

(* Memory changes only at the bytes the access in progress names, lane by  *)
(* lane (biu.sv:257-297).                                                  *)
THEOREM CpuBusWritesOnlyWhatIsAsked == Spec => WritesOnlyWhatIsAsked
PROOF
<1>1. ASSUME AccessInv, [Next]_vars
      PROVE  [\A a \in Addrs : mem'[a] # mem[a] =>
                biu_req.wr /\ \E i \in 1 .. Len(bytes(biu_req)) : bytes(biu_req)[i] = a]_vars
  <2>1. SUFFICES ASSUME Next, NEW a \in Addrs, mem'[a] # mem[a]
                 PROVE  biu_req.wr /\ \E i \in 1 .. Len(bytes(biu_req)) : bytes(biu_req)[i] = a
    BY <1>1
  <2> DEFINE q == biu_req
  <2>2. PICK ready \in BOOLEAN : MemClock(ready)
    BY <2>1 DEF Next, Clock
  <2>3. AccessTypes /\ q \in Requests
    BY <1>1, RequestTyped DEF AccessInv
  <2>4. wr /\ ((a = even(cur.addr) /\ lowLane) \/ (a = even(cur.addr) + 1 /\ highLane))
    BY <2>1, <2>2, <2>3, MemoryStep
  <2>5. running /\ q.wr
    BY <1>1, <2>4 DEF AccessInv, Wanted, running, wr
  <2>6. a = q.addr \/ (q.word /\ a = plus(q.addr, 1))
    <3>1. CASE split_second
      <4>1. q.word /\ isOdd(q.addr) /\ cur.addr = plus(q.addr, 1) /\ ~highLane
        BY <1>1, <2>5, <3>1 DEF AccessInv, SecondCycle, highLane
      <4>2. even(cur.addr) = cur.addr
        BY <2>3, <4>1, Neighbours DEF Requests
      <4> QED BY <2>4, <4>1, <4>2
    <3>2. CASE ~split_second /\ isOdd(q.addr)
      <4>1. cur.addr = q.addr /\ ~lowLane
        BY <1>1, <2>5, <3>2 DEF AccessInv, FirstCycle, lowLane
      <4>2. even(cur.addr) + 1 = q.addr
        BY <2>3, <3>2, <4>1, Neighbours DEF Requests
      <4> QED BY <2>4, <4>1, <4>2
    <3>3. CASE ~split_second /\ ~isOdd(q.addr)
      <4>1. cur.addr = q.addr /\ (highLane => q.word)
        BY <1>1, <2>5, <3>3 DEF AccessInv, FirstCycle, highLane
      <4>2. even(cur.addr) = q.addr /\ even(cur.addr) + 1 = plus(q.addr, 1)
        BY <2>3, <3>3, <4>1, Neighbours DEF Requests
      <4> QED BY <2>4, <4>1, <4>2
    <3> QED BY <3>1, <3>2, <3>3
  <2>7. PICK i \in 1 .. Len(bytes(q)) : bytes(q)[i] = a
    BY <2>6 DEF bytes
  <2> QED BY <2>5, <2>7
<1> QED BY <1>1, CpuBusAccessInvariant, PTL DEF Spec, WritesOnlyWhatIsAsked
=============================================================================
