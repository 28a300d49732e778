----------------------------- MODULE CacheProofs ----------------------------
(***************************************************************************)
(* Proofs about Cache, for every number of sets, ways, words in a line and *)
(* places in the write buffer, and every memory.                           *)
(***************************************************************************)
EXTENDS Cache, TLAPS, WellFoundedInduction

Entries == [addr : Addrs, data : Words, be : SUBSET Lanes]
TStates == {"idle", "T1", "T2", "T3", "T4", "reset"}

Types ==
  /\ bus \in [t : TStates, kind : {"rd", "wr"}, addr : Addrs, be : SUBSET Lanes,
              data : Words]
  /\ ext \in {Memory!NoRequest}
               \cup [kind : {"wr"}, addr : Addrs, be : {Lanes}, data : Words]
  /\ array \in [Addrs -> Words]
  /\ done \in [{"cache", "ext"} -> BOOLEAN]
  /\ answer \in {Memory!NoAnswer}
                  \cup [kind : {"rd", "wr"}, port : {"cache", "ext"}, data : Words]
  /\ tags \in [Sets -> [Ways -> Tags]]
  /\ valid \in [Sets -> [Ways -> BOOLEAN]]
  /\ dat \in [Ways -> [Sets -> [Offs -> Words]]]
  /\ r \in [addr : Addrs, tags : [Ways -> Tags], data : [Ways -> Words]]
  /\ arr_wr_d \in BOOLEAN /\ gap \in BOOLEAN /\ hit_ack \in BOOLEAN
  /\ hold \in Words
  /\ state \in {"S_IDLE", "S_FILL", "S_WRITE"}
  /\ f \in [tag : Tags, set : Sets, way : Ways, off : Offs, cnt : Offs, poison : BOOLEAN]
  /\ wb \in Seq(Entries) /\ Len(wb) <= WBUF_DEPTH

(* The registered lookup shows the arrays as they are, unless they have    *)
(* just been written, and in T2 and T3 it is of the address of the access. *)
LookupTrue ==
  /\ ~arr_wr_d => /\ r.tags = tags[r.addr.set]
                  /\ \A w \in Ways : r.data[w] = dat[w][r.addr.set][r.addr.off]
  /\ bus.t \in {"T2", "T3"} => r.addr = bus.addr

(* The port: a request is answered in the clock after it has been          *)
(* performed, and is still shown then; what the answer of a read carries   *)
(* is in the array, and so is the write that is answered.                  *)
PortTrue ==
  /\ done["cache"] <=> m_ready
  /\ answer.kind # "none" /\ answer.port = "ext" => done["ext"]
  /\ state = "S_WRITE" => wb # <<>>
  /\ m_ready => ~gap /\ state \in {"S_FILL", "S_WRITE"}
  /\ m_ready /\ state = "S_FILL" =>
       m_rdata = array[[tag |-> f.tag, set |-> f.set, off |-> f.off]]
  /\ m_ready /\ state = "S_WRITE" =>
       \A l \in wb[1].be : array[wb[1].addr][l] = wb[1].data[l]

(* A fill: its line is nowhere else, not in another way and not in the     *)
(* write buffer; its way is not valid; and the words it has brought are    *)
(* those of the array, unless somebody has written behind its back.        *)
after(o, k) == IF o + k < LINE_WORDS THEN o + k ELSE (o + k) - LINE_WORDS
later(k)    == after(f.off, k)

FillTrue ==
  state = "S_FILL" =>
    /\ ~valid[f.set][f.way]
    /\ \A w \in Ways : valid[f.set][w] => tags[f.set][w] # f.tag
    /\ \A q \in 1..Len(wb) : lineOf(wb[q].addr) # <<f.tag, f.set>>
    /\ ~f.poison =>
         \A o \in Offs : (\A k \in 0..(LINE_WORDS - 1) - f.cnt : o # later(k)) =>
           dat[f.way][f.set][o] = array[[tag |-> f.tag, set |-> f.set, off |-> o]]

CacheInv == Types /\ LookupTrue /\ PortTrue /\ FillTrue /\ OneWayPerTag /\ Coherent

(* With no other master: an access that waits for the first word of a fill *)
(* is the one the fill was started for, and a hit stays a hit.             *)
ReadTrue ==
  /\ ext.kind = "none"
  /\ bus.t \in {"T2", "T3"} /\ bus.kind = "rd" => view[bus.addr] \in seen
  /\ state = "S_FILL" /\ f.cnt = 0 =>
       \/ bus.t = "reset"
       \/ /\ bus.t = "T3" /\ bus.kind = "rd"
          /\ bus.addr = [tag |-> f.tag, set |-> f.set, off |-> f.off]
  /\ hit_ack => /\ state # "S_FILL" /\ bus.t \in {"T3", "T4", "reset"}
                /\ bus.t = "T3" => bus.kind = "rd" /\ hit_any /\ hold \in seen

(***************************************************************************)
(* The program's view of the memory.                                       *)
(***************************************************************************)

LEMMA LatestIsLast ==
  ASSUME NEW n \in Nat, NEW S \in SUBSET (1..n), S # {}
  PROVE  latest(S) \in S /\ \A p \in S : p <= latest(S)
PROOF
<1> DEFINE D == {n - q : q \in S}
           Less == {ss \in Nat \X Nat : ss[1] < ss[2]}
<1>1. D # {} /\ D \subseteq Nat
  <2>1. ASSUME NEW q \in S PROVE n - q \in Nat
    <3>1. q \in 1..n
      OBVIOUS
    <3> QED BY <3>1
  <2> QED BY <2>1
<1>2. IsWellFoundedOn(Less, Nat)
  BY NatLessThanWellFounded, Zenon DEF OpToRel
<1>3. PICK d \in D : \A e \in D : <<e, d>> \notin Less
  <2> HIDE DEF D, Less
  <2> QED BY <1>1, <1>2, WFMin, Zenon
<1>4. PICK q \in S : d = n - q
  BY <1>3
<1>5. ASSUME NEW p \in S PROVE p <= q
  <2>1. n - p \in D /\ n - p \in Nat /\ d \in Nat
    BY <1>1, <1>3
  <2>2. <<n - p, d>> \notin Less
    BY <1>3, <2>1
  <2>3. ~(n - p < d)
    BY <2>1, <2>2, SMT
  <2>4. p \in 1..n /\ q \in 1..n
    OBVIOUS
  <2> HIDE DEF D, Less
  <2> QED BY <1>4, <2>1, <2>3, <2>4
<1>6. \E x \in S : \A p \in S : p <= x
  BY <1>5
<1> QED BY <1>6, Zenon DEF latest

(* A write buffer w in front of an array ar, as the program sees the two.  *)
waiting(w, a, l) == {q \in 1..Len(w) : w[q].addr = a /\ l \in w[q].be}
shown(ar, w, a, l) ==
  IF waiting(w, a, l) = {} THEN ar[a][l] ELSE w[latest(waiting(w, a, l))].data[l]

LEMMA ViewShown ==
  ASSUME NEW a \in Addrs, NEW l \in Lanes
  PROVE  view[a][l] = shown(array, wb, a, l)
BY DEF view, queued, shown, waiting

LEMMA ViewShownNext ==
  ASSUME NEW a \in Addrs, NEW l \in Lanes
  PROVE  view'[a][l] = shown(array', wb', a, l)
BY DEF view, queued, shown, waiting

LEMMA LastShows ==
  ASSUME NEW w \in Seq(Entries), NEW ar, NEW a, NEW l, NEW q \in waiting(w, a, l),
         \A p \in waiting(w, a, l) : p <= q
  PROVE  shown(ar, w, a, l) = w[q].data[l]
PROOF
<1> DEFINE S == waiting(w, a, l)
<1>1. S # {} /\ S \subseteq 1..Len(w) /\ Len(w) \in Nat
  BY DEF waiting
<1>2. latest(S) \in S /\ \A p \in S : p <= latest(S)
  BY <1>1, LatestIsLast
<1>3. latest(S) = q
  BY <1>1, <1>2
<1> QED BY <1>1, <1>3 DEF shown

(* A store that joins the buffer is seen from then on.                     *)
LEMMA PushShows ==
  ASSUME NEW w \in Seq(Entries), NEW e \in Entries, NEW ar, NEW a, NEW l
  PROVE  shown(ar, Append(w, e), a, l)
           = IF a = e.addr /\ l \in e.be THEN e.data[l] ELSE shown(ar, w, a, l)
PROOF
<1> DEFINE v == Append(w, e)
           n == Len(w)
<1>1. /\ v \in Seq(Entries) /\ n \in Nat /\ Len(v) = n + 1 /\ v[n + 1] = e
      /\ \A q \in 1..n : v[q] = w[q]
  OBVIOUS
<1> HIDE DEF v
<1>2. CASE a = e.addr /\ l \in e.be
  <2>1. n + 1 \in waiting(v, a, l) /\ \A p \in waiting(v, a, l) : p <= n + 1
    BY <1>1, <1>2 DEF waiting
  <2>2. shown(ar, v, a, l) = v[n + 1].data[l]
    BY <1>1, <2>1, LastShows
  <2> QED BY <1>1, <1>2, <2>2 DEF v
<1>3. CASE ~(a = e.addr /\ l \in e.be)
  <2>1. waiting(v, a, l) = waiting(w, a, l)
    BY <1>1, <1>3 DEF waiting
  <2>2. CASE waiting(w, a, l) = {}
    BY <1>3, <2>1, <2>2 DEF shown, v
  <2>3. CASE waiting(w, a, l) # {}
    <3>1. waiting(w, a, l) \subseteq 1..n
      BY DEF waiting
    <3>2. latest(waiting(w, a, l)) \in 1..n
      BY <1>1, <2>3, <3>1, LatestIsLast
    <3>3. v[latest(waiting(w, a, l))] = w[latest(waiting(w, a, l))]
      BY <1>1, <3>2
    <3>4. shown(ar, v, a, l) = shown(ar, w, a, l)
      BY <2>1, <2>3, <3>3 DEF shown
    <3> QED BY <1>3, <3>4 DEF v
  <2> QED BY <2>2, <2>3
<1> QED BY <1>2, <1>3

(* A store that leaves the buffer, once it is in the array, is still seen. *)
LEMMA PopShows ==
  ASSUME NEW w \in Seq(Entries), w # <<>>, NEW ar, NEW a, NEW l,
         a = w[1].addr /\ l \in w[1].be => ar[a][l] = w[1].data[l]
  PROVE  shown(ar, Tail(w), a, l) = shown(ar, w, a, l)
PROOF
<1> DEFINE v == Tail(w)
           n == Len(w)
<1>1. /\ v \in Seq(Entries) /\ n \in Nat /\ n >= 1 /\ Len(v) = n - 1
      /\ \A q \in 1..n - 1 : v[q] = w[q + 1]
  OBVIOUS
<1> HIDE DEF v
<1>2. CASE waiting(v, a, l) = {}
  <2>1. waiting(w, a, l) \subseteq {1}
    <3>1. ASSUME NEW q \in waiting(w, a, l), q # 1 PROVE FALSE
      <4>1. q - 1 \in 1..n - 1 /\ v[q - 1] = w[q] /\ q - 1 \in 1..Len(v)
        BY <1>1, <3>1 DEF waiting
      <4>2. q - 1 \in waiting(v, a, l)
        BY <3>1, <4>1 DEF waiting
      <4> QED BY <1>2, <4>2
    <3> QED BY <3>1
  <2>2. CASE waiting(w, a, l) = {}
    BY <1>2, <2>2 DEF shown, v
  <2>3. CASE waiting(w, a, l) = {1}
    <3>1. shown(ar, w, a, l) = w[1].data[l]
      <4>1. 1 \in waiting(w, a, l) /\ \A p \in waiting(w, a, l) : p <= 1
        BY <2>3
      <4> QED BY <4>1, LastShows
    <3>2. a = w[1].addr /\ l \in w[1].be
      BY <2>3 DEF waiting
    <3> QED BY <1>2, <3>1, <3>2 DEF shown, v
  <2> QED BY <2>1, <2>2, <2>3
<1>3. CASE waiting(v, a, l) # {}
  <2> DEFINE q == latest(waiting(v, a, l))
  <2>1. q \in waiting(v, a, l) /\ \A p \in waiting(v, a, l) : p <= q
    <3>1. waiting(v, a, l) \subseteq 1..Len(v) /\ Len(v) \in Nat
      BY <1>1 DEF waiting
    <3> QED BY <1>3, <3>1, LatestIsLast
  <2>2. shown(ar, v, a, l) = v[q].data[l]
    BY <1>3 DEF shown
  <2> HIDE DEF q
  <2>3. q \in 1..n - 1 /\ v[q] = w[q + 1]
    BY <1>1, <2>1 DEF waiting
  <2>4. q + 1 \in waiting(w, a, l)
    BY <1>1, <2>1, <2>3 DEF waiting
  <2>5. ASSUME NEW p \in waiting(w, a, l) PROVE p <= q + 1
    <3>1. CASE p = 1
      BY <2>3, <3>1
    <3>2. CASE p # 1
      <4>1. p - 1 \in 1..n - 1 /\ v[p - 1] = w[p]
        BY <1>1, <3>2 DEF waiting
      <4>2. p - 1 \in waiting(v, a, l)
        BY <1>1, <4>1 DEF waiting
      <4>3. p - 1 <= q
        BY <2>1, <4>2
      <4>4. p \in Nat
        BY <1>1 DEF waiting
      <4> QED BY <2>3, <4>3, <4>4
    <3> QED BY <3>1, <3>2
  <2>6. shown(ar, w, a, l) = w[q + 1].data[l]
    BY <2>4, <2>5, LastShows
  <2> QED BY <2>2, <2>3, <2>6 DEF v
<1> QED BY <1>2, <1>3

(* What the array holds below a store that waits is not seen.              *)
LEMMA BelowNotShown ==
  ASSUME NEW w, NEW ar, NEW br, NEW a, NEW l,
         waiting(w, a, l) = {} => ar[a][l] = br[a][l]
  PROVE  shown(ar, w, a, l) = shown(br, w, a, l)
BY DEF shown

(***************************************************************************)
(* A clock of the cache, by the state it is in.                            *)
(***************************************************************************)

LEMMA Shapes ==
  /\ anAddr \in Addrs /\ aWord \in Words
  /\ LINE_WORDS \in Nat \ {0} /\ WAYS \in Nat \ {0} /\ WBUF_DEPTH \in Nat \ {0}
  /\ NoFill \in [tag : Tags, set : Sets, way : Ways, off : Offs, cnt : Offs, poison : BOOLEAN]
PROOF
<1>1. LINE_WORDS \in Nat \ {0} /\ WAYS \in Nat \ {0} /\ WBUF_DEPTH \in Nat \ {0}
  BY CacheAssumptions
<1>2. 0 \in Offs /\ 1 \in Ways
  BY <1>1 DEF Offs, Ways
<1>3. Tags # {} /\ Sets # {} /\ Vals # {}
  BY CacheAssumptions
<1>4. PICK tg \in Tags : TRUE
  BY <1>3
<1>5. PICK st \in Sets : TRUE
  BY <1>3
<1>6. PICK v \in Vals : TRUE
  BY <1>3
<1>7. [tag |-> tg, set |-> st, off |-> 0] \in Addrs /\ [l \in Lanes |-> v] \in Words
  BY <1>2 DEF Addrs, Words
<1>8. anAddr \in Addrs /\ aWord \in Words
  <2>1. (\E a \in Addrs : TRUE) /\ (\E w \in Words : TRUE)
    BY <1>7, Zenon
  <2>2. anAddr \in Addrs
    BY <2>1, Zenon DEF anAddr
  <2>3. aWord \in Words
    BY <2>1, Zenon DEF aWord
  <2> QED BY <2>2, <2>3
<1>9. anAddr.tag \in Tags /\ anAddr.set \in Sets
  BY <1>8 DEF Addrs
<1> QED BY <1>1, <1>2, <1>8, <1>9 DEF NoFill

FillRequest == [kind |-> "rd", addr |-> [tag |-> f.tag, set |-> f.set, off |-> f.off],
                be |-> Lanes, data |-> aWord]
DrainRequest == [kind |-> "wr", addr |-> Head(wb).addr, be |-> Head(wb).be,
                 data |-> Head(wb).data]

LEMMA Requests ==
  /\ gap \/ state = "S_IDLE" => m_request = Memory!NoRequest
  /\ ~gap /\ state = "S_FILL" => m_request = FillRequest
  /\ ~gap /\ state = "S_WRITE" => m_request = DrainRequest
PROOF
<1>1. gap => m_request = Memory!NoRequest
  BY Zenon DEF m_request, Memory!NoRequest
<1>2. state = "S_IDLE" => m_request = Memory!NoRequest
  BY Zenon DEF m_request, Memory!NoRequest
<1>3. ~gap /\ state = "S_FILL" => m_request = FillRequest
  BY Zenon DEF m_request, FillRequest
<1>4. ~gap /\ state = "S_WRITE" => m_request = DrainRequest
  BY Zenon DEF m_request, DrainRequest
<1> QED BY <1>1, <1>2, <1>3, <1>4

LEMMA RequestsNext ==
  /\ gap' \/ state' = "S_IDLE" => m_request' = Memory!NoRequest
  /\ ~gap' /\ state' = "S_FILL" => m_request' = FillRequest'
  /\ ~gap' /\ state' = "S_WRITE" => m_request' = DrainRequest'
PROOF
<1>1. (/\ gap \/ state = "S_IDLE" => m_request = Memory!NoRequest
       /\ ~gap /\ state = "S_FILL" => m_request = FillRequest
       /\ ~gap /\ state = "S_WRITE" => m_request = DrainRequest)'
  BY Requests, PTL
<1>2. (Memory!NoRequest)' = Memory!NoRequest
  BY DEF Memory!NoRequest
<1> QED BY <1>1, <1>2

(* Writes a word of one line of one way of an array of lines.              *)
LEMMA LineWritten ==
  ASSUME NEW D \in [Ways -> [Sets -> [Offs -> Words]]],
         NEW w \in Ways, NEW s \in Sets, NEW o \in Offs, NEW x \in Words
  PROVE  LET E == [D EXCEPT ![w][s][o] = x] IN
         /\ E \in [Ways -> [Sets -> [Offs -> Words]]]
         /\ \A v \in Ways, u \in Sets, p \in Offs :
              E[v][u][p] = IF v = w /\ u = s /\ p = o THEN x ELSE D[v][u][p]
OBVIOUS

LEMMA FlagWritten ==
  ASSUME NEW X, NEW V \in [Sets -> [Ways -> X]],
         NEW w \in Ways, NEW s \in Sets, NEW b \in X
  PROVE  LET E == [V EXCEPT ![s][w] = b] IN
         /\ E \in [Sets -> [Ways -> X]]
         /\ \A v \in Ways, u \in Sets : E[u][v] = IF v = w /\ u = s THEN b ELSE V[u][v]
OBVIOUS

LEMMA WriteClock ==
  ASSUME state = "S_WRITE", CacheClock
  PROVE  /\ f' = f /\ dat' = dat /\ tags' = tags
         /\ ~hit_ack' /\ ~arr_wr_d' /\ gap' = m_ready
         /\ state' = IF m_ready THEN "S_IDLE" ELSE "S_WRITE"
         /\ wb' = IF m_ready THEN Tail(wb) ELSE wb
         /\ valid' = IF snoop_flush THEN invalidated ELSE valid
PROOF
<1> USE DEF miss_now, hit_now, wr_now, wb_push, wb_pop, fill_word, fill_last, installs
<1>1. PICK victim \in victims :
        /\ \/ StartFill(victim) \/ StartDrain \/ StayIdle
           \/ FillWait \/ FillWord \/ Drain
        /\ ValidClock(victim)
        /\ LookupClock /\ DataClock /\ TagClock /\ QueueClock /\ AckClock
  BY Zenon DEF CacheClock
<1>2. f' = f /\ state' = IF m_ready THEN "S_IDLE" ELSE "S_WRITE"
  BY <1>1 DEF StartFill, StartDrain, StayIdle, FillWait, FillWord, Drain
<1>3. dat' = dat /\ ~arr_wr_d'
  BY <1>1 DEF DataClock
<1>4. tags' = tags
  BY <1>1 DEF TagClock
<1>5. wb' = IF m_ready THEN Tail(wb) ELSE wb
  BY <1>1 DEF QueueClock
<1>6. ~hit_ack' /\ gap' = m_ready
  <2>1. hit_ack' = hit_now /\ gap' = m_ready
    BY <1>1, Zenon DEF AckClock
  <2> QED BY <2>1
<1>7. valid' = IF snoop_flush THEN invalidated ELSE valid
  <2>1. CASE snoop_flush
    BY <1>1, <2>1, Zenon DEF ValidClock
  <2>2. CASE ~snoop_flush
    <3>1. ~miss_now /\ ~installs
      OBVIOUS
    <3>2. valid' = valid
      BY <1>1, <2>2, <3>1, Zenon DEF ValidClock
    <3> QED BY <2>2, <3>2
  <2> QED BY <2>1, <2>2
<1> QED BY <1>2, <1>3, <1>4, <1>5, <1>6, <1>7

LEMMA FillClock ==
  ASSUME state = "S_FILL", CacheClock
  PROVE  /\ wb' = wb /\ ~hit_ack' /\ arr_wr_d' = m_ready /\ gap' = m_ready
         /\ dat' = IF m_ready THEN [dat EXCEPT ![f.way][f.set][f.off] = m_rdata] ELSE dat
         /\ tags' = IF installs THEN [tags EXCEPT ![f.set][f.way] = f.tag] ELSE tags
         /\ valid' = IF snoop_flush THEN invalidated
                     ELSE IF installs THEN [valid EXCEPT ![f.set][f.way] = TRUE] ELSE valid
         /\ ~m_ready => /\ state' = "S_FILL"
                        /\ f' = [f EXCEPT !.poison = f.poison \/ snoop_flush]
         /\ fill_last => state' = "S_IDLE" /\ f' = NoFill
         /\ m_ready /\ ~fill_last =>
              /\ state' = "S_FILL"
              /\ f' = [f EXCEPT !.off = (f.off + 1) % LINE_WORDS, !.cnt = f.cnt + 1,
                                !.poison = f.poison \/ snoop_flush]
PROOF
<1>1. PICK victim \in victims :
        /\ \/ StartFill(victim) \/ StartDrain \/ StayIdle
           \/ FillWait \/ FillWord \/ Drain
        /\ ValidClock(victim)
        /\ LookupClock /\ DataClock /\ TagClock /\ QueueClock /\ AckClock
  BY Zenon DEF CacheClock
<1>2. /\ ~miss_now /\ ~wb_push /\ ~wb_pop /\ (fill_word <=> m_ready) /\ ~hit_now
      /\ (fill_last => m_ready)
  BY DEF miss_now, wb_push, wr_now, wb_pop, fill_word, fill_last, hit_now
<1>3. FillWait \/ FillWord
  BY <1>1 DEF StartFill, StartDrain, StayIdle, Drain, miss_now
<1>4. dat' = IF m_ready THEN [dat EXCEPT ![f.way][f.set][f.off] = m_rdata] ELSE dat
  BY <1>1, <1>2 DEF DataClock
<1>5. tags' = IF installs THEN [tags EXCEPT ![f.set][f.way] = f.tag] ELSE tags
  BY <1>1 DEF TagClock
<1>6. wb' = wb
  BY <1>1, <1>2 DEF QueueClock
<1>7. ~hit_ack' /\ gap' = m_ready
  <2>1. hit_ack' = hit_now /\ gap' = m_ready
    BY <1>1, Zenon DEF AckClock
  <2> QED BY <1>2, <2>1
<1>8. valid' = IF snoop_flush THEN invalidated
               ELSE IF installs THEN [valid EXCEPT ![f.set][f.way] = TRUE] ELSE valid
  <2>1. CASE snoop_flush
    BY <1>1, <2>1, Zenon DEF ValidClock, installs
  <2>2. CASE ~snoop_flush /\ installs
    BY <1>1, <1>2, <2>2, Zenon DEF ValidClock
  <2>3. CASE ~snoop_flush /\ ~installs
    BY <1>1, <1>2, <2>3, Zenon DEF ValidClock
  <2> QED BY <2>1, <2>2, <2>3
<1>9. arr_wr_d' = m_ready
  <2>1. arr_wr_d' = (fill_word \/ (wb_push /\ hit_any))
    BY <1>1 DEF DataClock
  <2> QED BY <1>2, <2>1, Zenon DEF m_ready
<1>10. ~m_ready => /\ state' = "S_FILL"
                   /\ f' = [f EXCEPT !.poison = f.poison \/ snoop_flush]
  BY <1>2, <1>3 DEF FillWait, FillWord
<1>11. fill_last => state' = "S_IDLE" /\ f' = NoFill
  BY <1>2, <1>3 DEF FillWait, FillWord
<1>12. m_ready /\ ~fill_last =>
              /\ state' = "S_FILL"
              /\ f' = [f EXCEPT !.off = (f.off + 1) % LINE_WORDS, !.cnt = f.cnt + 1,
                                !.poison = f.poison \/ snoop_flush]
  BY <1>2, <1>3 DEF FillWait, FillWord
<1> QED BY <1>4, <1>5, <1>6, <1>7, <1>8, <1>9, <1>10, <1>11, <1>12

Stored == [addr |-> bus.addr, data |-> bus.data, be |-> bus.be]

LEMMA IdleClock ==
  ASSUME state = "S_IDLE", CacheClock
  PROVE  /\ tags' = tags /\ gap' = m_ready /\ (hit_ack' <=> hit_now)
         /\ (arr_wr_d' <=> wb_push /\ hit_any)
         /\ dat' = IF wb_push /\ hit_any
                     THEN [dat EXCEPT ![hit_way][r.addr.set][r.addr.off] =
                                        merge(@, bus.data, bus.be)]
                     ELSE dat
         /\ wb' = IF wb_push THEN Append(wb, Stored) ELSE wb
         /\ ~miss_now => /\ state' \in {"S_IDLE", "S_WRITE"} /\ f' = f
                         /\ state' = "S_WRITE" => wb # <<>>
                         /\ valid' = IF snoop_flush THEN invalidated ELSE valid
         /\ miss_now => \E victim \in Ways :
              /\ state' = "S_FILL"
              /\ f' = [tag |-> r.addr.tag, set |-> r.addr.set, way |-> victim,
                       off |-> r.addr.off, cnt |-> 0, poison |-> snoop_flush]
              /\ valid' = IF snoop_flush THEN invalidated
                          ELSE [valid EXCEPT ![r.addr.set][victim] = FALSE]
PROOF
<1>1. PICK victim \in victims :
        /\ \/ StartFill(victim) \/ StartDrain \/ StayIdle
           \/ FillWait \/ FillWord \/ Drain
        /\ ValidClock(victim)
        /\ LookupClock /\ DataClock /\ TagClock /\ QueueClock /\ AckClock
  BY Zenon DEF CacheClock
<1>2. ~fill_word /\ ~fill_ack /\ ~fill_last /\ ~installs /\ ~wb_pop
  BY DEF fill_word, fill_ack, fill_last, installs, wb_pop
<1>3. victim \in Ways
  BY <1>1 DEF victims
<1>4. StartFill(victim) \/ StartDrain \/ StayIdle
  BY <1>1, <1>2 DEF FillWait, FillWord, Drain
<1>5. tags' = tags
  BY <1>1, <1>2 DEF TagClock
<1>6. gap' = m_ready /\ (hit_ack' <=> hit_now)
  <2>1. hit_ack' = hit_now /\ gap' = m_ready
    BY <1>1, Zenon DEF AckClock
  <2> QED BY <2>1
<1>7. arr_wr_d' <=> wb_push /\ hit_any
  <2>1. arr_wr_d' = (fill_word \/ (wb_push /\ hit_any))
    BY <1>1 DEF DataClock
  <2> QED BY <1>2, <2>1
<1>8. dat' = IF wb_push /\ hit_any
                     THEN [dat EXCEPT ![hit_way][r.addr.set][r.addr.off] =
                                        merge(@, bus.data, bus.be)]
                     ELSE dat
  BY <1>1, <1>2 DEF DataClock
<1>9. wb' = IF wb_push THEN Append(wb, Stored) ELSE wb
  BY <1>1, <1>2 DEF QueueClock, Stored
<1>10. ASSUME ~miss_now
       PROVE  /\ state' \in {"S_IDLE", "S_WRITE"} /\ f' = f
              /\ state' = "S_WRITE" => wb # <<>>
              /\ valid' = IF snoop_flush THEN invalidated ELSE valid
  <2>1. StartDrain \/ StayIdle
    BY <1>4, <1>10 DEF StartFill
  <2>2. state' \in {"S_IDLE", "S_WRITE"} /\ f' = f /\ (state' = "S_WRITE" => wb # <<>>)
    BY <2>1 DEF StartDrain, StayIdle, drains, wb_empty
  <2>3. CASE snoop_flush
    BY <1>1, <1>10, <2>2, <2>3, Zenon DEF ValidClock, installs
  <2>4. CASE ~snoop_flush
    <3>1. valid' = valid
      BY <1>1, <1>2, <1>10, <2>4, Zenon DEF ValidClock
    <3> QED BY <2>2, <2>4, <3>1
  <2> QED BY <2>3, <2>4
<1>11. ASSUME miss_now
       PROVE  /\ state' = "S_FILL"
              /\ f' = [tag |-> r.addr.tag, set |-> r.addr.set, way |-> victim,
                       off |-> r.addr.off, cnt |-> 0, poison |-> snoop_flush]
              /\ valid' = IF snoop_flush THEN invalidated
                          ELSE [valid EXCEPT ![r.addr.set][victim] = FALSE]
  <2>1. StartFill(victim)
    BY <1>4, <1>11 DEF StartDrain, StayIdle
  <2>2. CASE snoop_flush
    BY <1>1, <2>1, <2>2, Zenon DEF ValidClock, StartFill, installs
  <2>3. CASE ~snoop_flush
    <3>1. valid' = [valid EXCEPT ![r.addr.set][victim] = FALSE]
      BY <1>1, <1>2, <1>11, <2>3, Zenon DEF ValidClock
    <3> QED BY <2>1, <2>3, <3>1 DEF StartFill
  <2> QED BY <2>2, <2>3
<1> QED BY <1>3, <1>5, <1>6, <1>7, <1>8, <1>9, <1>10, <1>11

(***************************************************************************)
(* A clock of the memory.                                                  *)
(***************************************************************************)

MemoryStep == Memory!PerformNone \/ Memory!Perform("cache") \/ Memory!Perform("ext")

(* What a port shows.                                                      *)
asked(p) == IF p = "cache" THEN m_request ELSE ext

LEMMA MemoryNone ==
  ASSUME Memory!PerformNone
  PROVE  /\ array' = array /\ answer' = Memory!NoAnswer
         /\ done' = [p \in {"cache", "ext"} |->
              /\ asked(p)' # Memory!NoRequest
              /\ done[p]]
BY DEF Memory!PerformNone, asked, Memory!NoRequest

LEMMA MemoryPerforms ==
  ASSUME NEW i \in {"cache", "ext"}, Memory!Perform(i)
  PROVE  LET a == asked(i) IN
         /\ a # Memory!NoRequest /\ ~done[i]
         /\ array' = IF a.kind = "wr"
                       THEN [array EXCEPT ![a.addr] =
                               [l \in Lanes |-> IF l \in a.be THEN a.data[l] ELSE @[l]]]
                       ELSE array
         /\ answer' = [kind |-> a.kind, port |-> i,
                       data |-> IF a.kind = "rd" THEN array[a.addr] ELSE a.data]
         /\ done' = [p \in {"cache", "ext"} |->
              /\ asked(p)' # Memory!NoRequest
              /\ done[p] \/ p = i]
BY DEF Memory!Perform, Memory!written, asked, Memory!NoRequest

(***************************************************************************)
(* Types.                                                                  *)
(***************************************************************************)

Requested == {Memory!NoRequest}
               \cup [kind : {"rd", "wr"}, addr : Addrs, be : SUBSET Lanes, data : Words]

LEMMA HitWay ==
  ASSUME hit_any
  PROVE  hit_way \in Ways /\ way_hit(hit_way)
BY Zenon DEF hit_any, hit_way

LEMMA RequestTyped ==
  ASSUME Types, state = "S_WRITE" => wb # <<>>
  PROVE  m_request \in Requested /\ ext \in Requested
PROOF
<1> USE DEF Requested
<1>1. CASE gap \/ state = "S_IDLE"
  BY <1>1, Requests DEF Types
<1>2. CASE ~gap /\ state = "S_FILL"
  <2>1. f.tag \in Tags /\ f.set \in Sets /\ f.off \in Offs
    BY DEF Types
  <2>2. [tag |-> f.tag, set |-> f.set, off |-> f.off] \in Addrs
    BY <2>1 DEF Addrs
  <2>3. FillRequest \in Requested
    BY <2>2, Shapes DEF FillRequest
  <2> QED BY <1>2, <2>3, Requests DEF Types
<1>3. CASE ~gap /\ state = "S_WRITE"
  <2>1. wb \in Seq(Entries) /\ wb # <<>>
    BY <1>3 DEF Types
  <2>2. Head(wb) \in Entries
    BY <2>1
  <2>3. DrainRequest \in Requested
    BY <2>2 DEF DrainRequest, Entries
  <2> QED BY <1>3, <2>3, Requests DEF Types
<1> QED BY <1>1, <1>2, <1>3 DEF Types

LEMMA MergeTyped ==
  ASSUME NEW old \in Words, NEW new \in Words, NEW be \in SUBSET Lanes
  PROVE  merge(old, new, be) \in Words
BY DEF merge, Words

LEMMA MemoryTypes ==
  ASSUME Types, state = "S_WRITE" => wb # <<>>, MemoryStep
  PROVE  /\ array' \in [Addrs -> Words]
         /\ done' \in [{"cache", "ext"} -> BOOLEAN]
         /\ answer' \in {Memory!NoAnswer}
                  \cup [kind : {"rd", "wr"}, port : {"cache", "ext"}, data : Words]
PROOF
<1>1. CASE Memory!PerformNone
  BY <1>1, MemoryNone DEF Types
<1>2. ASSUME NEW i \in {"cache", "ext"}, Memory!Perform(i)
      PROVE  /\ array' \in [Addrs -> Words]
             /\ done' \in [{"cache", "ext"} -> BOOLEAN]
             /\ answer' \in {Memory!NoAnswer}
                  \cup [kind : {"rd", "wr"}, port : {"cache", "ext"}, data : Words]
  <2> DEFINE a == asked(i)
  <2>1.  /\ a # Memory!NoRequest
         /\ array' = IF a.kind = "wr"
                       THEN [array EXCEPT ![a.addr] =
                               [l \in Lanes |-> IF l \in a.be THEN a.data[l] ELSE @[l]]]
                       ELSE array
         /\ answer' = [kind |-> a.kind, port |-> i,
                       data |-> IF a.kind = "rd" THEN array[a.addr] ELSE a.data]
         /\ done' = [p \in {"cache", "ext"} |->
              /\ asked(p)' # Memory!NoRequest
              /\ done[p] \/ p = i]
    BY <1>2, MemoryPerforms
  <2>2. a \in [kind : {"rd", "wr"}, addr : Addrs, be : SUBSET Lanes, data : Words]
    <3>1. a \in Requested
      BY <1>2, RequestTyped DEF asked
    <3> QED BY <2>1, <3>1 DEF Requested
  <2> HIDE DEF a
  <2>3. array \in [Addrs -> Words]
    BY DEF Types
  <2>4. a.addr \in Addrs /\ a.data \in Words /\ a.kind \in {"rd", "wr"} /\ array[a.addr] \in Words
    BY <2>2, <2>3
  <2>5. [l \in Lanes |-> IF l \in a.be THEN a.data[l] ELSE array[a.addr][l]] \in Words
    BY <2>4 DEF Words
  <2>6. array' \in [Addrs -> Words]
    <3>1. CASE a.kind = "wr"
      <4>1. array' = [array EXCEPT ![a.addr] =
                       [l \in Lanes |-> IF l \in a.be THEN a.data[l] ELSE array[a.addr][l]]]
        BY <2>1, <3>1
      <4> QED BY <2>3, <2>4, <2>5, <4>1
    <3>2. CASE a.kind # "wr"
      BY <2>1, <2>3, <3>2
    <3> QED BY <3>1, <3>2
  <2>7. answer' \in [kind : {"rd", "wr"}, port : {"cache", "ext"}, data : Words]
    BY <2>1, <2>4
  <2>8. done' \in [{"cache", "ext"} -> BOOLEAN]
    <3>1. \A p \in {"cache", "ext"} :
            (/\ asked(p)' # Memory!NoRequest
             /\ done[p] \/ p = i) \in BOOLEAN
      OBVIOUS
    <3> QED BY <2>1, <3>1
  <2> QED BY <2>6, <2>7, <2>8
<1> QED BY <1>1, <1>2 DEF MemoryStep

LEMMA BusTypes ==
  ASSUME Types, BusClock, ExtClock
  PROVE  /\ bus' \in [t : TStates, kind : {"rd", "wr"}, addr : Addrs, be : SUBSET Lanes,
                      data : Words]
         /\ ext' \in {Memory!NoRequest}
               \cup [kind : {"wr"}, addr : Addrs, be : {Lanes}, data : Words]
PROOF
<1> DEFINE Bus == [t : TStates, kind : {"rd", "wr"}, addr : Addrs, be : SUBSET Lanes,
                   data : Words]
<1>1. bus \in Bus
  BY DEF Types
<1>2. \A t \in TStates : Passive(t) \in Bus /\ [bus EXCEPT !.t = t] \in Bus
  BY <1>1, Shapes DEF Passive
<1>3. BusStart => bus' \in Bus
  BY Shapes DEF BusStart, Words, TStates
<1>4. bus' \in Bus
  <2> HIDE DEF Bus
  <2>1. {"idle", "T1", "T2", "T3", "T4", "reset"} = TStates
    BY DEF TStates
  <2> QED BY <1>1, <1>2, <1>3, <2>1 DEF BusClock, BusReset, BusRelease
<1>5. ext' \in {Memory!NoRequest}
               \cup [kind : {"wr"}, addr : Addrs, be : {Lanes}, data : Words]
  BY DEF Types, ExtClock
<1> QED BY <1>4, <1>5

FillRegs == [tag : Tags, set : Sets, way : Ways, off : Offs, cnt : Offs, poison : BOOLEAN]

LEMMA FillRegsTyped ==
  ASSUME Types, CacheClock
  PROVE  /\ state' \in {"S_IDLE", "S_FILL", "S_WRITE"} /\ f' \in FillRegs
PROOF
<1> DEFINE OK == state' \in {"S_IDLE", "S_FILL", "S_WRITE"} /\ f' \in FillRegs
<1>0. /\ f \in FillRegs /\ NoFill \in FillRegs /\ r.addr \in Addrs
      /\ state \in {"S_IDLE", "S_FILL", "S_WRITE"}
      /\ (ext.kind = "wr") \in BOOLEAN
  BY Shapes DEF Types, FillRegs
<1>1. CASE state = "S_WRITE"
  BY <1>0, <1>1, WriteClock
<1>2. CASE state = "S_FILL"
  <2>1. [f EXCEPT !.poison = f.poison \/ snoop_flush] \in FillRegs
    BY <1>0 DEF FillRegs, snoop_flush
  <2>2. CASE m_ready /\ ~fill_last
    <3>1. f.cnt # LINE_WORDS - 1 /\ LINE_WORDS \in Nat \ {0}
      BY <1>2, <2>2, Shapes DEF fill_last, fill_word
    <3>2. f.cnt \in Offs /\ f.off \in Offs
      BY <1>0 DEF FillRegs
    <3>3. f.cnt + 1 \in Offs /\ (f.off + 1) % LINE_WORDS \in Offs
      BY <3>1, <3>2 DEF Offs
    <3>4. [f EXCEPT !.off = (f.off + 1) % LINE_WORDS, !.cnt = f.cnt + 1,
                    !.poison = f.poison \/ snoop_flush] \in FillRegs
      BY <1>0, <3>3 DEF FillRegs, snoop_flush
    <3> QED BY <1>2, <2>2, <3>4, FillClock
  <2> QED BY <1>0, <1>2, <2>1, <2>2, FillClock
<1>3. CASE state = "S_IDLE"
  <2>1. CASE ~miss_now
    BY <1>0, <1>3, <2>1, IdleClock
  <2>2. CASE miss_now
    <3>1. PICK victim \in Ways :
              /\ state' = "S_FILL"
              /\ f' = [tag |-> r.addr.tag, set |-> r.addr.set, way |-> victim,
                       off |-> r.addr.off, cnt |-> 0, poison |-> snoop_flush]
      BY <1>3, <2>2, IdleClock
    <3>2. r.addr.tag \in Tags /\ r.addr.set \in Sets /\ r.addr.off \in Offs
      BY <1>0 DEF Addrs
    <3>3. 0 \in Offs /\ snoop_flush \in BOOLEAN
      BY Shapes DEF Offs, snoop_flush
    <3> QED BY <3>1, <3>2, <3>3 DEF FillRegs
  <2> QED BY <2>1, <2>2
<1> QED BY <1>0, <1>1, <1>2, <1>3

LEMMA FlagsTyped ==
  ASSUME CacheClock
  PROVE  arr_wr_d' \in BOOLEAN /\ gap' \in BOOLEAN /\ hit_ack' \in BOOLEAN
PROOF
<1>1. DataClock /\ AckClock
  BY Zenon DEF CacheClock
<1>2. hit_ack' = hit_now /\ gap' = m_ready
  BY <1>1, Zenon DEF AckClock
<1>3. arr_wr_d' = (fill_word \/ (wb_push /\ hit_any))
  BY <1>1 DEF DataClock
<1> QED BY <1>2, <1>3 DEF hit_now, m_ready

LEMMA ArraysTyped ==
  ASSUME Types, state = "S_WRITE" => wb # <<>>, CacheClock
  PROVE  /\ tags' \in [Sets -> [Ways -> Tags]]
         /\ valid' \in [Sets -> [Ways -> BOOLEAN]]
         /\ dat' \in [Ways -> [Sets -> [Offs -> Words]]]
         /\ wb' \in Seq(Entries)
PROOF
<1>1. /\ f.way \in Ways /\ f.set \in Sets /\ f.off \in Offs /\ f.tag \in Tags
      /\ r.addr.set \in Sets /\ r.addr.off \in Offs
  BY DEF Types, Addrs
<1>2. /\ tags \in [Sets -> [Ways -> Tags]]
      /\ valid \in [Sets -> [Ways -> BOOLEAN]]
      /\ dat \in [Ways -> [Sets -> [Offs -> Words]]]
      /\ invalidated \in [Sets -> [Ways -> BOOLEAN]]
      /\ wb \in Seq(Entries) /\ Stored \in Entries
  BY DEF Types, invalidated, Stored, Entries
<1>3. CASE state = "S_WRITE"
  <2>1. wb' \in Seq(Entries)
    <3>1. wb # <<>> /\ (wb' = wb \/ wb' = Tail(wb))
      BY <1>3, WriteClock
    <3>2. Tail(wb) \in Seq(Entries)
      BY <1>2, <3>1
    <3> QED BY <1>2, <3>1, <3>2
  <2> QED BY <1>2, <1>3, <2>1, WriteClock
<1>4. CASE state = "S_FILL"
  <2>1. dat' \in [Ways -> [Sets -> [Offs -> Words]]]
    <3>1. CASE m_ready
      <4>1. m_rdata \in Words
        BY <3>1 DEF Types, m_ready, m_rdata, Memory!NoAnswer
      <4>2. [dat EXCEPT ![f.way][f.set][f.off] = m_rdata]
              \in [Ways -> [Sets -> [Offs -> Words]]]
        BY ONLY <1>1, <1>2, <4>1, LineWritten
      <4> QED BY <1>4, <3>1, <4>2, FillClock
    <3>2. CASE ~m_ready
      BY <1>2, <1>4, <3>2, FillClock
    <3> QED BY <3>1, <3>2
  <2>2. valid' \in [Sets -> [Ways -> BOOLEAN]]
    <3>1. [valid EXCEPT ![f.set][f.way] = TRUE] \in [Sets -> [Ways -> BOOLEAN]]
      BY ONLY <1>1, <1>2, FlagWritten
    <3> QED BY <1>2, <1>4, <3>1, FillClock
  <2>3. tags' \in [Sets -> [Ways -> Tags]]
    <3>1. [tags EXCEPT ![f.set][f.way] = f.tag] \in [Sets -> [Ways -> Tags]]
      BY ONLY <1>1, <1>2, FlagWritten
    <3> QED BY <1>2, <1>4, <3>1, FillClock
  <2> QED BY <1>2, <1>4, <2>1, <2>2, <2>3, FillClock
<1>5. CASE state = "S_IDLE"
  <2>1. dat' \in [Ways -> [Sets -> [Offs -> Words]]]
    <3>1. CASE wb_push /\ hit_any
      <4> DEFINE x == merge(dat[hit_way][r.addr.set][r.addr.off], bus.data, bus.be)
      <4>1. hit_way \in Ways
        BY <3>1, HitWay
      <4>2. dat[hit_way][r.addr.set][r.addr.off] \in Words
        BY <1>1, <1>2, <4>1
      <4>3. x \in Words
        BY <4>2, MergeTyped DEF Types
      <4> HIDE DEF x
      <4>4. [dat EXCEPT ![hit_way][r.addr.set][r.addr.off] = x]
              \in [Ways -> [Sets -> [Offs -> Words]]]
        BY ONLY <1>1, <1>2, <4>1, <4>3, LineWritten
      <4>5. dat' = [dat EXCEPT ![hit_way][r.addr.set][r.addr.off] = x]
        BY <1>5, <3>1, IdleClock DEF x
      <4> QED BY <4>4, <4>5
    <3>2. CASE ~(wb_push /\ hit_any)
      BY <1>2, <1>5, <3>2, IdleClock
    <3> QED BY <3>1, <3>2
  <2>2. valid' \in [Sets -> [Ways -> BOOLEAN]]
    <3>1. \A victim \in Ways :
            [valid EXCEPT ![r.addr.set][victim] = FALSE] \in [Sets -> [Ways -> BOOLEAN]]
      BY ONLY <1>1, <1>2, FlagWritten
    <3>2. CASE miss_now
      <4>1. PICK victim \in Ways :
              valid' = IF snoop_flush THEN invalidated
                       ELSE [valid EXCEPT ![r.addr.set][victim] = FALSE]
        BY <1>5, <3>2, IdleClock
      <4>2. [valid EXCEPT ![r.addr.set][victim] = FALSE] \in [Sets -> [Ways -> BOOLEAN]]
        BY <3>1
      <4> QED BY <1>2, <4>1, <4>2
    <3>3. CASE ~miss_now
      BY <1>2, <1>5, <3>3, IdleClock
    <3> QED BY <3>2, <3>3
  <2>3. wb' \in Seq(Entries)
    <3>1. Append(wb, Stored) \in Seq(Entries)
      BY <1>2
    <3>2. wb' = wb \/ wb' = Append(wb, Stored)
      BY <1>5, IdleClock
    <3> QED BY <1>2, <3>1, <3>2
  <2> QED BY <1>2, <1>5, <2>1, <2>2, <2>3, IdleClock
<1> QED BY <1>3, <1>4, <1>5 DEF Types

LEMMA LookupTyped ==
  ASSUME Types, CacheClock
  PROVE  /\ r' = [addr |-> bus.addr, tags |-> tags[bus.addr.set],
                  data |-> [w \in Ways |-> dat[w][bus.addr.set][bus.addr.off]]]
         /\ r' \in [addr : Addrs, tags : [Ways -> Tags], data : [Ways -> Words]]
PROOF
<1>1. r' = [addr |-> bus.addr, tags |-> tags[bus.addr.set],
            data |-> [w \in Ways |-> dat[w][bus.addr.set][bus.addr.off]]]
  BY Zenon DEF CacheClock, LookupClock
<1>2. bus.addr \in Addrs /\ bus.addr.set \in Sets /\ bus.addr.off \in Offs
  BY DEF Types, Addrs
<1>3. tags[bus.addr.set] \in [Ways -> Tags]
  BY <1>2 DEF Types
<1>4. \A w \in Ways : dat[w][bus.addr.set][bus.addr.off] \in Words
  BY <1>2 DEF Types
<1> QED BY <1>1, <1>2, <1>3, <1>4

LEMMA HoldTyped ==
  ASSUME Types, CacheClock
  PROVE  hold' \in Words /\ (hit_now => hold' = hit_data)
PROOF
<1>1. AckClock
  BY Zenon DEF CacheClock
<1>2. CASE hit_now
  <2>1. hold' = hit_data
    <3>1. ~fill_ack
      BY <1>2 DEF hit_now, fill_ack, fill_word
    <3> QED BY <1>1, <1>2, <3>1, Zenon DEF AckClock
  <2>2. hit_way \in Ways
    BY <1>2, HitWay DEF hit_now
  <2>3. hit_data \in Words
    BY <2>2 DEF Types, hit_data
  <2> QED BY <2>1, <2>3
<1>3. CASE ~hit_now /\ fill_ack
  <2>1. hold' = m_rdata
    BY <1>1, <1>3, Zenon DEF AckClock
  <2>2. m_rdata \in Words
    BY <1>3 DEF Types, fill_ack, fill_word, m_ready, m_rdata, Memory!NoAnswer
  <2> QED BY <1>3, <2>1, <2>2
<1>4. CASE ~hit_now /\ ~fill_ack
  <2>1. hold' = hold
    BY <1>1, <1>4, Zenon DEF AckClock
  <2> QED BY <1>4, <2>1 DEF Types
<1> QED BY <1>2, <1>3, <1>4

LEMMA BufferBounded ==
  ASSUME Types, state = "S_WRITE" => wb # <<>>, CacheClock
  PROVE  Len(wb') <= WBUF_DEPTH
PROOF
<1>1. wb \in Seq(Entries) /\ Len(wb) \in Nat /\ Len(wb) <= WBUF_DEPTH
      /\ WBUF_DEPTH \in Nat
  BY Shapes DEF Types
<1>2. CASE state = "S_WRITE"
  <2>1. wb # <<>> /\ (wb' = wb \/ wb' = Tail(wb))
    BY <1>2, WriteClock
  <2>2. Len(Tail(wb)) = Len(wb) - 1
    BY <1>1, <2>1
  <2> QED BY <1>1, <2>1, <2>2
<1>3. CASE state = "S_FILL"
  BY <1>1, <1>3, FillClock
<1>4. CASE state = "S_IDLE"
  <2>1. CASE wb_push
    <3>1. Len(wb) # WBUF_DEPTH
      BY <2>1 DEF wb_push, wb_full
    <3>2. wb' = Append(wb, Stored) /\ Len(Append(wb, Stored)) = Len(wb) + 1
      BY <1>1, <1>4, <2>1, IdleClock
    <3> QED BY <1>1, <3>1, <3>2
  <2>2. CASE ~wb_push
    BY <1>1, <1>4, <2>2, IdleClock
  <2> QED BY <2>1, <2>2
<1> QED BY <1>2, <1>3, <1>4 DEF Types

LEMMA TypesStep ==
  ASSUME Types, state = "S_WRITE" => wb # <<>>,
         CacheClock, BusClock, ExtClock, MemoryStep
  PROVE  Types'
BY FillRegsTyped, ArraysTyped, FlagsTyped, LookupTyped, HoldTyped, BufferBounded,
   MemoryTypes, BusTypes DEF Types, FillRegs, Memory!NoRequest, Memory!NoAnswer

(***************************************************************************)
(* The lookup.                                                             *)
(***************************************************************************)

LEMMA BusStays ==
  ASSUME Types, BusClock, bus'.t \in {"T2", "T3"}
  PROVE  /\ bus.t \in {"T1", "T2", "T3"} /\ (bus'.t = "T2" <=> bus.t = "T1")
         /\ bus'.addr = bus.addr /\ bus'.kind = bus.kind
         /\ bus'.data = bus.data /\ bus'.be = bus.be
PROOF
<1>1. bus \in [t : TStates, kind : {"rd", "wr"}, addr : Addrs, be : SUBSET Lanes,
               data : Words]
  BY DEF Types
<1>2. \/ bus.t = "idle" /\ bus' = bus
      \/ bus.t = "T1" /\ bus' = [bus EXCEPT !.t = "T2"]
      \/ bus.t = "T2" /\ bus' = [bus EXCEPT !.t = "T3"]
      \/ bus.t = "T3" /\ bus' = bus
  <2>1. ~BusStart
    BY DEF BusStart
  <2>2. \A t \in TStates : bus' = Passive(t) => bus'.t = t
    BY DEF Passive
  <2>3. bus' # Passive("T4") /\ ~BusReset
    BY <2>2 DEF BusReset, TStates
  <2>4. ~(bus.t = "T4" /\ bus' = [bus EXCEPT !.t = "idle"]) /\ ~BusRelease
    BY <1>1 DEF BusRelease
  <2> QED BY <2>1, <2>3, <2>4 DEF BusClock
<1> QED BY <1>1, <1>2

LEMMA LookupStep ==
  ASSUME Types, CacheClock, BusClock
  PROVE  LookupTrue'
PROOF
<1>1. r' = [addr |-> bus.addr, tags |-> tags[bus.addr.set],
            data |-> [w \in Ways |-> dat[w][bus.addr.set][bus.addr.off]]]
  BY LookupTyped
<1>2. ASSUME ~arr_wr_d' PROVE tags' = tags /\ dat' = dat
  <2>1. CASE state = "S_WRITE"
    BY <2>1, WriteClock
  <2>2. CASE state = "S_FILL"
    <3>1. ~m_ready /\ ~installs
      <4>1. ~m_ready
        BY <1>2, <2>2, FillClock
      <4> QED BY <4>1 DEF installs, fill_last, fill_word
    <3> QED BY <2>2, <3>1, FillClock
  <2>3. CASE state = "S_IDLE"
    BY <1>2, <2>3, IdleClock
  <2> QED BY <2>1, <2>2, <2>3 DEF Types
<1>3. ~arr_wr_d' => /\ r'.tags = tags'[r'.addr.set]
                    /\ \A w \in Ways : r'.data[w] = dat'[w][r'.addr.set][r'.addr.off]
  BY <1>1, <1>2
<1>4. bus'.t \in {"T2", "T3"} => r'.addr = bus'.addr
  BY <1>1, BusStays
<1> QED BY <1>3, <1>4 DEF LookupTrue

(***************************************************************************)
(* The port.                                                               *)
(***************************************************************************)

(* When the memory performs the cache's request, the cache stands still.   *)
LEMMA CachePerformed ==
  ASSUME Types, PortTrue, CacheClock, Memory!Perform("cache")
  PROVE  /\ ~gap /\ ~m_ready /\ ~gap'
         /\ state \in {"S_FILL", "S_WRITE"} /\ state' = state /\ wb' = wb
         /\ state = "S_WRITE" => f' = f
         /\ state = "S_FILL" => f' = [f EXCEPT !.poison = f.poison \/ snoop_flush]
PROOF
<1>1. m_request # Memory!NoRequest /\ ~done["cache"]
  BY MemoryPerforms DEF asked
<1>2. ~gap /\ state \in {"S_FILL", "S_WRITE"}
  BY <1>1, Requests DEF Types
<1>3. ~m_ready
  BY <1>1 DEF PortTrue
<1>4. CASE state = "S_FILL"
  <2>1. wb' = wb /\ gap' = m_ready /\ state' = "S_FILL"
        /\ f' = [f EXCEPT !.poison = f.poison \/ snoop_flush]
    BY <1>3, <1>4, FillClock
  <2> QED BY <1>2, <1>3, <1>4, <2>1
<1>5. CASE state = "S_WRITE"
  <2>1. wb' = wb /\ gap' = m_ready /\ state' = "S_WRITE" /\ f' = f
    BY <1>3, <1>5, WriteClock
  <2> QED BY <1>2, <1>3, <1>5, <2>1
<1> QED BY <1>2, <1>4, <1>5

(* An answer for the cache comes from no other step.                       *)
LEMMA NotAnswered ==
  ASSUME Memory!PerformNone \/ Memory!Perform("ext")
  PROVE  ~m_ready'
BY MemoryNone, MemoryPerforms DEF m_ready, Memory!NoAnswer

LEMMA PortStep ==
  ASSUME Types, PortTrue, CacheClock, BusClock, ExtClock, MemoryStep
  PROVE  PortTrue'
PROOF
<1>g. gap' = m_ready
  BY WriteClock, FillClock, IdleClock DEF Types
<1>1. state' = "S_WRITE" => wb' # <<>>
  <2>1. CASE state = "S_WRITE"
    BY <2>1, WriteClock DEF PortTrue
  <2>2. CASE state = "S_FILL"
    <3>1. state' # "S_WRITE"
      BY <2>2, FillClock
    <3> QED BY <3>1
  <2>3. CASE state = "S_IDLE"
    <3>1. CASE state' = "S_WRITE"
      <4>1. wb # <<>>
        BY <2>3, <3>1, IdleClock
      <4>2. wb' = wb \/ wb' = Append(wb, Stored)
        BY <2>3, IdleClock
      <4>3. wb \in Seq(Entries) /\ Stored \in Entries
        BY DEF Types, Stored, Entries
      <4>4. Len(Append(wb, Stored)) = Len(wb) + 1 /\ Len(wb) \in Nat /\ Len(<<>>) = 0
        BY <4>3
      <4> QED BY <4>1, <4>2, <4>4
    <3> QED BY <3>1
  <2> QED BY <2>1, <2>2, <2>3 DEF Types
<1>2. answer'.kind # "none" /\ answer'.port = "ext" => done'["ext"]
  <2>1. CASE Memory!Perform("ext")
    <3>1. ext # Memory!NoRequest /\ ~done["ext"]
      BY <2>1, MemoryPerforms DEF asked
    <3>2. ~(answer.kind # "none" /\ answer.port = "ext")
      BY <3>1 DEF PortTrue
    <3>3. ext' = ext
      BY <3>1, <3>2 DEF ExtClock, Types, Memory!NoRequest
    <3>4. done'["ext"] = (asked("ext")' # Memory!NoRequest /\ (done["ext"] \/ "ext" = "ext"))
      BY <2>1, MemoryPerforms
    <3> QED BY <3>1, <3>3, <3>4 DEF asked
  <2>2. CASE Memory!PerformNone
    BY <2>2, MemoryNone DEF Memory!NoAnswer
  <2>3. CASE Memory!Perform("cache")
    <3>1. answer'.port = "cache"
      BY <2>3, MemoryPerforms
    <3> QED BY <3>1
  <2> QED BY <2>1, <2>2, <2>3 DEF MemoryStep
<1>3. CASE Memory!Perform("cache")
  <2>1. /\ ~gap /\ ~m_ready /\ ~gap'
        /\ state \in {"S_FILL", "S_WRITE"} /\ state' = state /\ wb' = wb
        /\ state = "S_FILL" => f' = [f EXCEPT !.poison = f.poison \/ snoop_flush]
    BY <1>3, CachePerformed
  <2>2. /\ array' = IF m_request.kind = "wr"
                       THEN [array EXCEPT ![m_request.addr] =
                               [l \in Lanes |-> IF l \in m_request.be
                                                  THEN m_request.data[l] ELSE @[l]]]
                       ELSE array
        /\ answer' = [kind |-> m_request.kind, port |-> "cache",
                      data |-> IF m_request.kind = "rd" THEN array[m_request.addr]
                               ELSE m_request.data]
        /\ done'["cache"] = (m_request' # Memory!NoRequest /\ (done["cache"] \/ TRUE))
    BY <1>3, MemoryPerforms DEF asked
  <2>3. CASE state = "S_FILL"
    <3>1. m_request = FillRequest /\ m_request' = FillRequest'
      BY <2>1, <2>3, Requests, RequestsNext
    <3>2. m_request.kind = "rd" /\ m_request'.kind = "rd"
          /\ m_request.addr = [tag |-> f.tag, set |-> f.set, off |-> f.off]
      BY <3>1 DEF FillRequest
    <3>3. array' = array /\ answer'.kind = "rd" /\ answer'.port = "cache"
          /\ answer'.data = array[[tag |-> f.tag, set |-> f.set, off |-> f.off]]
      BY <2>2, <3>2
    <3>4. f'.tag = f.tag /\ f'.set = f.set /\ f'.off = f.off
      BY <2>1, <2>3 DEF Types
    <3>5. done'["cache"] /\ m_ready'
      <4>1. m_request' # Memory!NoRequest
        BY <3>2 DEF Memory!NoRequest
      <4>2. done'["cache"]
        BY <2>2, <4>1, Zenon
      <4> QED BY <3>3, <4>2 DEF m_ready
    <3> QED BY <1>1, <1>2, <2>1, <2>3, <3>3, <3>4, <3>5 DEF PortTrue, m_rdata
  <2>4. CASE state = "S_WRITE"
    <3>1. m_request = DrainRequest /\ m_request' = DrainRequest'
      BY <2>1, <2>4, Requests, RequestsNext
    <3>w. wb \in Seq(Entries) /\ wb # <<>> /\ Head(wb) = wb[1] /\ wb[1] \in Entries
      BY <2>4 DEF PortTrue, Types
    <3>2. m_request.kind = "wr" /\ m_request'.kind = "wr" /\ m_request.addr = wb[1].addr
          /\ m_request.be = wb[1].be /\ m_request.data = wb[1].data
      BY <3>1, <3>w DEF DrainRequest
    <3>3. answer'.kind = "wr" /\ answer'.port = "cache"
      BY <2>2, <3>2
    <3>4. done'["cache"] /\ m_ready'
      <4>1. m_request' # Memory!NoRequest
        BY <3>2 DEF Memory!NoRequest
      <4>2. done'["cache"]
        BY <2>2, <4>1, Zenon
      <4> QED BY <3>3, <4>2 DEF m_ready
    <3>5. array' = [array EXCEPT ![wb[1].addr] =
                      [l \in Lanes |-> IF l \in wb[1].be THEN wb[1].data[l] ELSE @[l]]]
      BY <2>2, <3>2
    <3>6. wb[1].addr \in Addrs /\ wb[1].be \subseteq Lanes /\ array \in [Addrs -> Words]
      BY <3>w DEF Entries, Types
    <3>7. \A l \in wb[1].be : array'[wb[1].addr][l] = wb[1].data[l]
      BY <3>5, <3>6
    <3> QED BY <1>1, <1>2, <2>1, <2>4, <3>4, <3>7 DEF PortTrue
  <2> QED BY <2>1, <2>3, <2>4
<1>4. CASE Memory!PerformNone \/ Memory!Perform("ext")
  <2>1. ~m_ready'
    BY <1>4, NotAnswered
  <2>2. done'["cache"] = (m_request' # Memory!NoRequest /\ done["cache"])
    <3>1. CASE Memory!PerformNone
      BY <3>1, MemoryNone DEF asked
    <3>2. CASE Memory!Perform("ext")
      <4>1. done'["cache"] = (asked("cache")' # Memory!NoRequest
                                /\ (done["cache"] \/ "cache" = "ext"))
        BY <3>2, MemoryPerforms
      <4> QED BY <4>1 DEF asked
    <3> QED BY <1>4, <3>1, <3>2
  <2>3. ~done'["cache"]
    <3>1. CASE m_ready
      BY <1>g, <2>2, <3>1, RequestsNext
    <3>2. CASE ~m_ready
      BY <2>2, <3>2 DEF PortTrue
    <3> QED BY <3>1, <3>2
  <2> QED BY <1>1, <1>2, <2>1, <2>3 DEF PortTrue
<1> QED BY <1>3, <1>4 DEF MemoryStep

(***************************************************************************)
(* The view moves only where somebody stores.                              *)
(***************************************************************************)

LEMMA BufferMoves ==
  ASSUME Types, CacheClock
  PROVE  \/ wb_push /\ state = "S_IDLE" /\ wb' = Append(wb, Stored)
         \/ ~wb_push /\ state = "S_WRITE" /\ m_ready /\ wb' = Tail(wb)
         \/ ~wb_push /\ ~(state = "S_WRITE" /\ m_ready) /\ wb' = wb
PROOF
<1>1. wb_push => state = "S_IDLE"
  BY DEF wb_push, wr_now
<1>2. CASE state = "S_WRITE"
  BY <1>1, <1>2, WriteClock
<1>3. CASE state = "S_FILL"
  BY <1>1, <1>3, FillClock
<1>4. CASE state = "S_IDLE"
  BY <1>1, <1>4, IdleClock
<1> QED BY <1>2, <1>3, <1>4 DEF Types

LEMMA ArrayMoves ==
  ASSUME Types, PortTrue, MemoryStep, ~Memory!Perform("cache"),
         NEW a \in Addrs, NEW l \in Lanes, ~(ext.kind = "wr" /\ a = ext.addr)
  PROVE  array'[a][l] = array[a][l]
PROOF
<1>1. CASE Memory!PerformNone
  BY <1>1, MemoryNone
<1>2. CASE Memory!Perform("ext")
  <2>1. array' = IF ext.kind = "wr"
                       THEN [array EXCEPT ![ext.addr] =
                               [m \in Lanes |-> IF m \in ext.be THEN ext.data[m] ELSE @[m]]]
                       ELSE array
    BY <1>2, MemoryPerforms DEF asked
  <2> QED BY <2>1 DEF Types
<1> QED BY <1>1, <1>2 DEF MemoryStep

LEMMA ViewMoves ==
  ASSUME Types, PortTrue, CacheClock, MemoryStep,
         NEW a \in Addrs, NEW l \in Lanes
  PROVE  /\ wb_push /\ a = bus.addr /\ l \in bus.be => view'[a][l] = bus.data[l]
         /\ \/ wb_push /\ a = bus.addr /\ l \in bus.be
            \/ ext.kind = "wr" /\ a = ext.addr
            \/ view'[a][l] = view[a][l]
PROOF
<1>w. wb \in Seq(Entries) /\ Stored \in Entries
  BY DEF Types, Stored, Entries
<1>v. view[a][l] = shown(array, wb, a, l) /\ view'[a][l] = shown(array', wb', a, l)
  BY ViewShown, ViewShownNext
<1>1. CASE Memory!Perform("cache")
  <2>1. /\ ~gap /\ state \in {"S_FILL", "S_WRITE"} /\ wb' = wb
    BY <1>1, CachePerformed
  <2>2. ~wb_push
    BY <2>1 DEF wb_push, wr_now
  <2>3. array' = IF m_request.kind = "wr"
                       THEN [array EXCEPT ![m_request.addr] =
                               [m \in Lanes |-> IF m \in m_request.be
                                                  THEN m_request.data[m] ELSE @[m]]]
                       ELSE array
    BY <1>1, MemoryPerforms DEF asked
  <2>4. CASE state = "S_FILL"
    <3>1. m_request.kind = "rd"
      BY <2>1, <2>4, Requests DEF FillRequest
    <3> QED BY <1>v, <2>1, <2>2, <2>3, <3>1
  <2>5. CASE state = "S_WRITE"
    <3>1. wb # <<>> /\ Head(wb) = wb[1] /\ 1 \in 1..Len(wb)
      BY <1>w, <2>5 DEF PortTrue
    <3>2. m_request.addr = wb[1].addr /\ m_request.be = wb[1].be
      BY <2>1, <2>5, <3>1, Requests DEF DrainRequest
    <3>3. ASSUME waiting(wb, a, l) = {} PROVE array'[a][l] = array[a][l]
      <4>1. ~(a = wb[1].addr /\ l \in wb[1].be)
        BY <3>1, <3>3 DEF waiting
      <4> QED BY <2>3, <3>2, <4>1 DEF Types
    <3>4. shown(array', wb, a, l) = shown(array, wb, a, l)
      BY <3>3, BelowNotShown
    <3> QED BY <1>v, <2>1, <2>2, <3>4
  <2> QED BY <2>1, <2>4, <2>5
<1>2. CASE ~Memory!Perform("cache")
  <2>1. ~(ext.kind = "wr" /\ a = ext.addr) => array'[a][l] = array[a][l]
    BY <1>2, ArrayMoves
  <2>2. ~(ext.kind = "wr" /\ a = ext.addr)
           => shown(array', wb, a, l) = shown(array, wb, a, l)
    BY <2>1, BelowNotShown
  <2>3. CASE wb_push /\ wb' = Append(wb, Stored)
    <3>1. shown(array', wb', a, l)
            = IF a = Stored.addr /\ l \in Stored.be THEN Stored.data[l]
              ELSE shown(array', wb, a, l)
      BY <1>w, <2>3, PushShows
    <3> QED BY <1>v, <2>2, <2>3, <3>1 DEF Stored
  <2>4. CASE ~wb_push /\ state = "S_WRITE" /\ m_ready /\ wb' = Tail(wb)
    <3>1. CASE ~(ext.kind = "wr" /\ a = ext.addr)
      <4>1. wb # <<>> /\ (a = wb[1].addr /\ l \in wb[1].be => array'[a][l] = wb[1].data[l])
        BY <2>1, <2>4, <3>1 DEF PortTrue
      <4>2. shown(array', wb', a, l) = shown(array', wb, a, l)
        BY <1>w, <2>4, <4>1, PopShows
      <4> QED BY <1>v, <2>2, <2>4, <3>1, <4>2
    <3> QED BY <2>4, <3>1
  <2>5. CASE ~wb_push /\ wb' = wb
    BY <1>v, <2>2, <2>5
  <2> QED BY <2>3, <2>4, <2>5, BufferMoves
<1> QED BY <1>1, <1>2

(***************************************************************************)
(* A fill.                                                                 *)
(***************************************************************************)

LEMMA WrapNext ==
  ASSUME NEW n \in Nat \ {0}, NEW o \in 0..n - 1
  PROVE  (o + 1) % n = IF o + 1 = n THEN 0 ELSE o + 1
PROOF
<1>1. CASE o + 1 = n
  BY <1>1
<1>2. CASE o + 1 # n
  BY <1>2
<1> QED BY <1>1, <1>2

LEMMA AllMissing ==
  ASSUME NEW u \in Offs, NEW o \in Offs
  PROVE  \E k \in 0..LINE_WORDS - 1 : o = after(u, k)
PROOF
<1> DEFINE k == IF o >= u THEN o - u ELSE (o - u) + LINE_WORDS
<1>1. k \in 0..LINE_WORDS - 1 /\ o = after(u, k)
  BY Shapes DEF Offs, after
<1> QED BY <1>1

LEMMA OneLessMissing ==
  ASSUME f.off \in Offs, f.cnt \in Offs, f.cnt # LINE_WORDS - 1,
         f'.off = (f.off + 1) % LINE_WORDS, f'.cnt = f.cnt + 1,
         NEW o \in Offs, o # f.off,
         \A k \in 0..(LINE_WORDS - 1) - f'.cnt : o # later(k)'
  PROVE  \A k \in 0..(LINE_WORDS - 1) - f.cnt : o # later(k)
PROOF
<1> SUFFICES ASSUME NEW k \in 0..(LINE_WORDS - 1) - f.cnt PROVE o # later(k)
  OBVIOUS
<1>1. LINE_WORDS \in Nat \ {0} /\ f.off \in 0..LINE_WORDS - 1 /\ f.cnt \in 0..LINE_WORDS - 1
  BY Shapes DEF Offs
<1>2. f'.off = IF f.off + 1 = LINE_WORDS THEN 0 ELSE f.off + 1
  BY <1>1, WrapNext
<1>3. CASE k = 0
  BY <1>1, <1>3 DEF later, after
<1>4. CASE k # 0
  <2>1. k - 1 \in 0..(LINE_WORDS - 1) - f'.cnt
    BY <1>1, <1>4
  <2>2. later(k - 1)' = later(k)
    BY <1>1, <1>2, <1>4 DEF later, after
  <2> QED BY <2>1, <2>2
<1> QED BY <1>3, <1>4

Clock == CacheClock /\ BusClock /\ ExtClock /\ MemoryStep

(* What a fill reads is not changed by the fill's own accesses.            *)
LEMMA ArrayStands ==
  ASSUME Types, PortTrue, CacheClock, MemoryStep, state # "S_WRITE", ~snoop_flush
  PROVE  array' = array
PROOF
<1>1. ~Memory!Perform("ext")
  <2>1. ext = Memory!NoRequest
    BY DEF Types, snoop_flush
  <2> QED BY <2>1, MemoryPerforms DEF asked
<1>2. CASE Memory!PerformNone
  BY <1>2, MemoryNone
<1>3. CASE Memory!Perform("cache")
  <2>1. /\ ~gap /\ state = "S_FILL"
    BY <1>3, CachePerformed
  <2>2. m_request.kind = "rd"
    BY <2>1, Requests DEF FillRequest
  <2> QED BY <1>3, <2>2, MemoryPerforms DEF asked
<1> QED BY <1>1, <1>2, <1>3 DEF MemoryStep

LEMMA FillStarts ==
  ASSUME CacheInv, Clock, state = "S_IDLE"
  PROVE  FillTrue'
PROOF
<1> USE DEF CacheInv, Clock
<1>1. CASE ~miss_now
  <2>1. state' # "S_FILL"
    BY <1>1, IdleClock
  <2> QED BY <2>1 DEF FillTrue
<1>2. CASE miss_now
  <2>1. PICK victim \in Ways :
              /\ state' = "S_FILL"
              /\ f' = [tag |-> r.addr.tag, set |-> r.addr.set, way |-> victim,
                       off |-> r.addr.off, cnt |-> 0, poison |-> snoop_flush]
              /\ valid' = IF snoop_flush THEN invalidated
                          ELSE [valid EXCEPT ![r.addr.set][victim] = FALSE]
    BY <1>2, IdleClock
  <2>2. /\ ~arr_wr_d /\ bus.t \in {"T2", "T3"} /\ bus.kind = "rd"
        /\ ~hit_any /\ ~wb_hazard
    BY <1>2 DEF miss_now, lu_ok, c_rd
  <2>3. r.addr = bus.addr /\ r.tags = tags[r.addr.set]
    BY <2>2 DEF LookupTrue
  <2>4. wb' = wb /\ tags' = tags
    <3>1. ~wb_push
      BY <2>2 DEF wb_push, wr_now, c_wr
    <3> QED BY <1>2, <3>1, IdleClock
  <2>5. r.addr \in Addrs /\ r.addr.set \in Sets /\ r.addr.tag \in Tags /\ r.addr.off \in Offs
    BY DEF Types, Addrs
  <2>6. \A w \in Ways : valid[r.addr.set][w] => tags[r.addr.set][w] # r.addr.tag
    BY <2>2, <2>3 DEF hit_any, way_hit
  <2>7. \A q \in 1..Len(wb) : lineOf(wb[q].addr) # <<r.addr.tag, r.addr.set>>
    BY <2>2, <2>3 DEF wb_hazard, lineOf
  <2>8. \A w \in Ways : valid'[r.addr.set][w] => valid[r.addr.set][w] /\ w # victim
    <3>1. valid \in [Sets -> [Ways -> BOOLEAN]]
      BY DEF Types
    <3>2. CASE snoop_flush
      BY <2>1, <2>5, <3>2 DEF invalidated
    <3>3. CASE ~snoop_flush
      <4>1. valid' = [valid EXCEPT ![r.addr.set][victim] = FALSE]
        BY <2>1, <3>3
      <4> QED BY <2>5, <3>1, <4>1
    <3> QED BY <3>2, <3>3
  <2>9. \A o \in Offs : \E k \in 0..(LINE_WORDS - 1) - f'.cnt : o = later(k)'
    <3>1. f'.off \in Offs /\ f'.cnt = 0
      BY <2>1, <2>5
    <3>2. ASSUME NEW o \in Offs PROVE \E k \in 0..LINE_WORDS - 1 : o = later(k)'
      BY <3>1, AllMissing DEF later
    <3>3. LINE_WORDS - 1 = (LINE_WORDS - 1) - f'.cnt
      BY <3>1, Shapes
    <3> QED BY <3>2, <3>3
  <2>10. /\ ~valid'[f'.set][f'.way]
         /\ \A w \in Ways : valid'[f'.set][w] => tags'[f'.set][w] # f'.tag
         /\ \A q \in 1..Len(wb') : lineOf(wb'[q].addr) # <<f'.tag, f'.set>>
    BY <2>1, <2>4, <2>6, <2>7, <2>8 DEF lineOf
  <2> QED BY <2>9, <2>10 DEF FillTrue, lineOf
<1> QED BY <1>1, <1>2

LEMMA FillGoesOn ==
  ASSUME CacheInv, Clock, state = "S_FILL"
  PROVE  FillTrue'
PROOF
<1> USE DEF CacheInv, Clock
<1>1. CASE fill_last
  <2>1. state' = "S_IDLE"
    BY <1>1, FillClock
  <2> QED BY <2>1 DEF FillTrue
<1>2. CASE ~fill_last
  <2> DEFINE a(o) == [tag |-> f.tag, set |-> f.set, off |-> o]
             given(o) == \A k \in 0..(LINE_WORDS - 1) - f.cnt : o # later(k)
  <2>1. /\ ~valid[f.set][f.way]
        /\ \A w \in Ways : valid[f.set][w] => tags[f.set][w] # f.tag
        /\ \A q \in 1..Len(wb) : lineOf(wb[q].addr) # <<f.tag, f.set>>
        /\ ~f.poison => \A o \in Offs : given(o) => dat[f.way][f.set][o] = array[a(o)]
    BY DEF FillTrue
  <2>t. /\ f.tag \in Tags /\ f.set \in Sets /\ f.way \in Ways /\ f.off \in Offs /\ f.cnt \in Offs
        /\ f \in FillRegs
    BY DEF Types, FillRegs
  <2> HIDE DEF given
  <2>2. wb' = wb /\ tags' = tags /\ valid' = IF snoop_flush THEN invalidated ELSE valid
    <3>1. ~installs
      BY <1>2 DEF installs
    <3> QED BY <3>1, FillClock
  <2>3. /\ f'.tag = f.tag /\ f'.set = f.set /\ f'.way = f.way
        /\ ~f'.poison => ~f.poison /\ ~snoop_flush
    <3>1. CASE ~m_ready
      <4>1. f' = [f EXCEPT !.poison = f.poison \/ snoop_flush]
        BY <3>1, FillClock
      <4> QED BY <2>t, <4>1 DEF FillRegs
    <3>2. CASE m_ready
      <4>1. f' = [f EXCEPT !.off = (f.off + 1) % LINE_WORDS, !.cnt = f.cnt + 1,
                                !.poison = f.poison \/ snoop_flush]
        BY <1>2, <3>2, FillClock
      <4> QED BY <2>t, <4>1 DEF FillRegs
    <3> QED BY <3>1, <3>2
  <2>4. \A w \in Ways : valid'[f.set][w] => valid[f.set][w]
    BY <2>t, <2>2 DEF invalidated
  <2>5. ASSUME ~f'.poison, NEW o \in Offs,
               \A k \in 0..(LINE_WORDS - 1) - f'.cnt : o # later(k)'
        PROVE  dat'[f.way][f.set][o] = array'[a(o)]
    <3>1. ~f.poison /\ array' = array
      BY <2>3, <2>5, ArrayStands
    <3>2. CASE ~m_ready
      <4>1. f'.off = f.off /\ f'.cnt = f.cnt
        <5>1. f' = [f EXCEPT !.poison = f.poison \/ snoop_flush]
          BY <3>2, FillClock
        <5> QED BY <2>t, <5>1 DEF FillRegs
      <4>2. given(o)
        BY <2>5, <4>1 DEF later, given
      <4>3. dat' = dat
        BY <3>2, FillClock
      <4> QED BY <2>1, <3>1, <4>2, <4>3
    <3>3. CASE m_ready
      <4>1. dat' = [dat EXCEPT ![f.way][f.set][f.off] = m_rdata]
        BY <3>3, FillClock
      <4>2. m_rdata = array[a(f.off)] /\ m_rdata \in Words
        <5>1. m_rdata = array[a(f.off)]
          BY <3>3 DEF PortTrue
        <5>2. a(f.off) \in Addrs
          BY <2>t DEF Addrs
        <5> QED BY <5>1, <5>2 DEF Types
      <4>3. dat'[f.way][f.set][o] = IF o = f.off THEN m_rdata ELSE dat[f.way][f.set][o]
        <5>1. dat \in [Ways -> [Sets -> [Offs -> Words]]]
          BY DEF Types
        <5> QED BY ONLY <2>t, <4>1, <4>2, <5>1, o \in Offs, LineWritten
      <4>4. CASE o = f.off
        BY <3>1, <4>2, <4>3, <4>4
      <4>5. CASE o # f.off
        <5>1. f'.off = (f.off + 1) % LINE_WORDS /\ f'.cnt = f.cnt + 1
          <6>1. f' = [f EXCEPT !.off = (f.off + 1) % LINE_WORDS, !.cnt = f.cnt + 1,
                                !.poison = f.poison \/ snoop_flush]
            BY <1>2, <3>3, FillClock
          <6> QED BY <2>t, <6>1 DEF FillRegs
        <5>2. f.cnt # LINE_WORDS - 1
          BY <1>2, <3>3 DEF fill_last, fill_word
        <5>3. given(o)
          BY <2>t, <2>5, <4>5, <5>1, <5>2, OneLessMissing DEF given
        <5> QED BY <2>1, <3>1, <4>3, <4>5, <5>3
      <4> QED BY <4>4, <4>5
    <3> QED BY <3>2, <3>3
  <2>6. /\ ~valid'[f'.set][f'.way]
        /\ \A w \in Ways : valid'[f'.set][w] => tags'[f'.set][w] # f'.tag
        /\ \A q \in 1..Len(wb') : lineOf(wb'[q].addr) # <<f'.tag, f'.set>>
    BY <2>1, <2>2, <2>3, <2>4, <2>t DEF lineOf
  <2> QED BY <2>3, <2>5, <2>6 DEF FillTrue, lineOf
<1> QED BY <1>1, <1>2

LEMMA FillStep ==
  ASSUME CacheInv, Clock
  PROVE  FillTrue'
PROOF
<1>1. CASE state = "S_WRITE"
  <2>1. state' # "S_FILL"
    BY <1>1, WriteClock DEF Clock
  <2> QED BY <2>1 DEF FillTrue
<1> QED BY <1>1, FillStarts, FillGoesOn DEF CacheInv, Types

(***************************************************************************)
(* The lines.                                                              *)
(***************************************************************************)

at(s, w, o) == [tag |-> tags[s][w], set |-> s, off |-> o]

LaneCoherent ==
  \A s \in Sets, w \in Ways, o \in Offs :
    valid[s][w] => \A l \in Lanes : dat[w][s][o][l] = view[at(s, w, o)][l]

LEMMA AtTyped ==
  ASSUME Types, NEW s \in Sets, NEW w \in Ways, NEW o \in Offs
  PROVE  at(s, w, o) \in Addrs /\ dat[w][s][o] \in Words
BY DEF Types, at, Addrs

LEMMA ByLane == Types => (Coherent <=> LaneCoherent)
PROOF
<1> SUFFICES ASSUME Types PROVE Coherent <=> LaneCoherent
  OBVIOUS
<1>1. ASSUME NEW s \in Sets, NEW w \in Ways, NEW o \in Offs
      PROVE  dat[w][s][o] = view[at(s, w, o)]
               <=> \A l \in Lanes : dat[w][s][o][l] = view[at(s, w, o)][l]
  <2> DEFINE a == at(s, w, o)
             d == dat[w][s][o]
  <2>1. a \in Addrs /\ d \in [Lanes -> Vals]
    BY AtTyped DEF Words
  <2>2. view[a] = [l \in Lanes |-> IF queued(a, l) = {} THEN array[a][l]
                                   ELSE wb[latest(queued(a, l))].data[l]]
    BY <2>1 DEF view
  <2> DEFINE g == [l \in Lanes |-> IF queued(a, l) = {} THEN array[a][l]
                                   ELSE wb[latest(queued(a, l))].data[l]]
  <2>3. DOMAIN g = Lanes /\ g = [l \in Lanes |-> g[l]]
    OBVIOUS
  <2> HIDE DEF g, a, d
  <2>4. d = g <=> \A l \in Lanes : d[l] = g[l]
    BY <2>1, <2>3
  <2>5. view[a] = g
    BY <2>2 DEF g
  <2> QED BY <2>4, <2>5 DEF a, d
<1> QED BY <1>1 DEF Coherent, LaneCoherent, at

(* What a clock without a snoop does to the lines: a way becomes valid     *)
(* only when a fill is complete.                                           *)
LEMMA ValidMoves ==
  ASSUME Types, CacheClock, ~installs, NEW s \in Sets, NEW w \in Ways, valid'[s][w]
  PROVE  ~snoop_flush /\ valid[s][w] /\ tags' = tags
PROOF
<1>v. valid \in [Sets -> [Ways -> BOOLEAN]] /\ r.addr.set \in Sets
  BY DEF Types, Addrs
<1>1. tags' = tags
  BY WriteClock, FillClock, IdleClock DEF Types
<1>i. ~invalidated[s][w]
  BY DEF invalidated
<1>2. CASE state = "S_WRITE"
  BY <1>1, <1>2, <1>i, WriteClock
<1>3. CASE state = "S_FILL"
  BY <1>1, <1>3, <1>i, FillClock
<1>4. CASE state = "S_IDLE" /\ ~miss_now
  BY <1>1, <1>4, <1>i, IdleClock
<1>5. CASE state = "S_IDLE" /\ miss_now
  <2>1. PICK victim \in Ways : valid' = IF snoop_flush THEN invalidated
                          ELSE [valid EXCEPT ![r.addr.set][victim] = FALSE]
    BY <1>5, IdleClock
  <2>2. ~snoop_flush
    BY <1>i, <2>1
  <2>3. valid' = [valid EXCEPT ![r.addr.set][victim] = FALSE]
    BY <2>1, <2>2
  <2> QED BY <1>1, <1>v, <2>2, <2>3
<1> QED BY <1>2, <1>3, <1>4, <1>5 DEF Types

LEMMA Installed ==
  ASSUME Types, CacheClock, installs
  PROVE  /\ state = "S_FILL" /\ m_ready /\ f.cnt = LINE_WORDS - 1
         /\ ~f.poison /\ ~snoop_flush
         /\ \A s \in Sets, w \in Ways :
              /\ valid'[s][w] <=> (valid[s][w] \/ (w = f.way /\ s = f.set))
              /\ tags'[s][w] = IF w = f.way /\ s = f.set THEN f.tag ELSE tags[s][w]
PROOF
<1>1. state = "S_FILL" /\ m_ready /\ f.cnt = LINE_WORDS - 1 /\ ~f.poison /\ ~snoop_flush
  BY DEF installs, fill_last, fill_word
<1>2. f.way \in Ways /\ f.set \in Sets /\ f.tag \in Tags
      /\ valid \in [Sets -> [Ways -> BOOLEAN]] /\ tags \in [Sets -> [Ways -> Tags]]
  BY DEF Types
<1>3. valid' = [valid EXCEPT ![f.set][f.way] = TRUE]
      /\ tags' = [tags EXCEPT ![f.set][f.way] = f.tag]
  BY <1>1, FillClock
<1> QED BY <1>1, <1>2, <1>3

LEMMA OneWayStep ==
  ASSUME CacheInv, Clock
  PROVE  OneWayPerTag'
PROOF
<1> USE DEF CacheInv, Clock
<1>1. CASE installs
  <2>1. /\ state = "S_FILL"
        /\ \A s \in Sets, w \in Ways :
             /\ valid'[s][w] <=> (valid[s][w] \/ (w = f.way /\ s = f.set))
             /\ tags'[s][w] = IF w = f.way /\ s = f.set THEN f.tag ELSE tags[s][w]
    BY <1>1, Installed
  <2>2. \A w \in Ways : valid[f.set][w] => tags[f.set][w] # f.tag
    BY <2>1 DEF FillTrue
  <2> QED BY <2>1, <2>2 DEF OneWayPerTag
<1>2. CASE ~installs
  <2>1. \A s \in Sets, w \in Ways : valid'[s][w] => valid[s][w] /\ tags' = tags
    BY <1>2, ValidMoves
  <2> QED BY <2>1 DEF OneWayPerTag
<1> QED BY <1>1, <1>2

(* The line a fill installs is the array's, and nothing waits for it.      *)
LEMMA InstalledCoherent ==
  ASSUME CacheInv, Clock, installs, NEW o \in Offs, NEW l \in Lanes
  PROVE  dat'[f.way][f.set][o][l] = view'[[tag |-> f.tag, set |-> f.set, off |-> o]][l]
PROOF
<1> USE DEF CacheInv, Clock
<1> DEFINE a == [tag |-> f.tag, set |-> f.set, off |-> o]
<1>1. state = "S_FILL" /\ m_ready /\ f.cnt = LINE_WORDS - 1 /\ ~f.poison /\ ~snoop_flush
  BY Installed
<1>t. /\ f.tag \in Tags /\ f.set \in Sets /\ f.way \in Ways /\ f.off \in Offs
      /\ dat \in [Ways -> [Sets -> [Offs -> Words]]]
  BY DEF Types
<1>2. a \in Addrs
  BY <1>t DEF Addrs
<1>3. array' = array /\ wb' = wb
  BY <1>1, ArrayStands, FillClock
<1>4. waiting(wb, a, l) = {}
  BY <1>1 DEF FillTrue, waiting, lineOf
<1>5. view'[a][l] = array[a][l]
  BY <1>2, <1>3, <1>4, ViewShownNext DEF shown
<1>6. dat' = [dat EXCEPT ![f.way][f.set][f.off] = m_rdata]
      /\ m_rdata = array[[tag |-> f.tag, set |-> f.set, off |-> f.off]]
  BY <1>1, FillClock DEF PortTrue
<1>7. m_rdata \in Words
  <2>1. [tag |-> f.tag, set |-> f.set, off |-> f.off] \in Addrs
    BY <1>t DEF Addrs
  <2> QED BY <1>6, <2>1 DEF Types
<1>8. dat'[f.way][f.set][o] = IF o = f.off THEN m_rdata ELSE dat[f.way][f.set][o]
  BY ONLY <1>t, <1>6, <1>7, o \in Offs, LineWritten
<1>9. CASE o = f.off
  BY <1>5, <1>6, <1>8, <1>9
<1>10. CASE o # f.off
  <2>1. \A k \in 0..(LINE_WORDS - 1) - f.cnt : o # later(k)
    <3>1. ASSUME NEW k \in 0..(LINE_WORDS - 1) - f.cnt PROVE o # later(k)
      <4>1. k = 0
        BY <1>1, Shapes
      <4>2. later(0) = f.off
        BY <1>t, Shapes DEF later, after, Offs
      <4> QED BY <1>10, <4>1, <4>2
    <3> QED BY <3>1
  <2>2. dat[f.way][f.set][o] = array[a]
    BY <1>1, <2>1 DEF FillTrue
  <2> QED BY <1>5, <1>8, <1>10, <2>2
<1> QED BY <1>9, <1>10

(* A store that hits goes into the line in the clock it is queued.         *)
LEMMA StoredCoherent ==
  ASSUME CacheInv, Clock, ~installs,
         NEW s \in Sets, NEW w \in Ways, NEW o \in Offs, NEW l \in Lanes, valid'[s][w]
  PROVE  dat'[w][s][o][l] = view'[at(s, w, o)][l]
PROOF
<1> USE DEF CacheInv, Clock
<1> DEFINE a == at(s, w, o)
<1>1. ~snoop_flush /\ valid[s][w] /\ tags' = tags
  BY ValidMoves
<1>2. a \in Addrs
  BY AtTyped
<1>3. dat[w][s][o][l] = view[a][l]
  BY <1>1, ByLane DEF LaneCoherent
<1>4. /\ wb_push /\ a = bus.addr /\ l \in bus.be => view'[a][l] = bus.data[l]
      /\ (wb_push /\ a = bus.addr /\ l \in bus.be) \/ view'[a][l] = view[a][l]
  BY <1>1, <1>2, ViewMoves DEF snoop_flush
<1>5. CASE wb_push
  <2>1. /\ state = "S_IDLE" /\ ~arr_wr_d /\ r.addr = bus.addr /\ r.tags = tags[r.addr.set]
    BY <1>5 DEF wb_push, wr_now, lu_ok, c_wr, LookupTrue
  <2>2. dat' = IF hit_any
                     THEN [dat EXCEPT ![hit_way][r.addr.set][r.addr.off] =
                                        merge(@, bus.data, bus.be)]
                     ELSE dat
    BY <1>5, <2>1, IdleClock
  <2>3. CASE a = bus.addr
    <3>1. way_hit(w) /\ s = r.addr.set /\ o = r.addr.off
      BY <1>1, <2>1, <2>3 DEF way_hit, at
    <3>2. hit_any /\ hit_way \in Ways /\ way_hit(hit_way)
      <4>1. hit_any
        BY <3>1 DEF hit_any
      <4> QED BY <4>1, HitWay
    <3>3. hit_way = w
      <4>1. valid[s][hit_way] /\ tags[s][hit_way] = tags[s][w]
        BY <2>1, <3>1, <3>2 DEF way_hit
      <4> QED BY <1>1, <3>2, <4>1 DEF OneWayPerTag
    <3>4. dat' = [dat EXCEPT ![w][s][o] = merge(@, bus.data, bus.be)]
      BY <2>2, <3>1, <3>2, <3>3
    <3>5. dat'[w][s][o] = merge(dat[w][s][o], bus.data, bus.be)
      BY <3>4 DEF Types
    <3>6. dat'[w][s][o][l] = IF l \in bus.be THEN bus.data[l] ELSE dat[w][s][o][l]
      BY <3>5 DEF merge
    <3> QED BY <1>3, <1>4, <1>5, <2>3, <3>6
  <2>4. CASE a # bus.addr
    <3>1. dat'[w][s][o] = dat[w][s][o]
      <4>1. CASE hit_any
        <5>1. hit_way \in Ways /\ way_hit(hit_way)
          BY <4>1, HitWay
        <5>2. ~(w = hit_way /\ s = r.addr.set /\ o = r.addr.off)
          <6>1. ASSUME w = hit_way, s = r.addr.set, o = r.addr.off PROVE FALSE
            <7>1. a = [tag |-> r.addr.tag, set |-> r.addr.set, off |-> r.addr.off]
              BY <2>1, <5>1, <6>1 DEF at, way_hit
            <7>2. bus.addr = [tag |-> bus.addr.tag, set |-> bus.addr.set, off |-> bus.addr.off]
              BY DEF Types, Addrs
            <7> QED BY <2>1, <2>4, <7>1, <7>2
          <6> QED BY <6>1
        <5>3. dat' = [dat EXCEPT ![hit_way][r.addr.set][r.addr.off] =
                                        merge(@, bus.data, bus.be)]
          BY <2>2, <4>1
        <5>4. dat \in [Ways -> [Sets -> [Offs -> Words]]]
          BY DEF Types
        <5> QED BY <5>2, <5>3, <5>4
      <4>2. CASE ~hit_any
        BY <2>2, <4>2
      <4> QED BY <4>1, <4>2
    <3> QED BY <1>3, <1>4, <2>4, <3>1
  <2> QED BY <2>3, <2>4
<1>6. CASE ~wb_push
  <2>1. dat'[w][s][o] = dat[w][s][o]
    <3>1. CASE state = "S_WRITE"
      BY <3>1, WriteClock
    <3>2. CASE state = "S_IDLE"
      BY <1>6, <3>2, IdleClock
    <3>3. CASE state = "S_FILL" /\ ~m_ready
      BY <3>3, FillClock
    <3>4. CASE state = "S_FILL" /\ m_ready
      <4>1. dat' = [dat EXCEPT ![f.way][f.set][f.off] = m_rdata] /\ m_rdata \in Words
        <5>1. m_rdata \in Words
          BY <3>4 DEF Types, m_ready, m_rdata, Memory!NoAnswer
        <5> QED BY <3>4, <5>1, FillClock
      <4>2. /\ f.set \in Sets /\ f.way \in Ways /\ f.off \in Offs
            /\ dat \in [Ways -> [Sets -> [Offs -> Words]]]
        BY DEF Types
      <4>3. ~(w = f.way /\ s = f.set)
        BY <1>1, <3>4 DEF FillTrue
      <4> QED BY ONLY <4>1, <4>2, <4>3, w \in Ways, s \in Sets, o \in Offs, LineWritten
    <3> QED BY <3>1, <3>2, <3>3, <3>4 DEF Types
  <2> QED BY <1>3, <1>4, <1>6, <2>1
<1> QED BY <1>5, <1>6

LEMMA CoherentStep ==
  ASSUME CacheInv, Clock, Types'
  PROVE  Coherent'
PROOF
<1> USE DEF CacheInv, Clock
<1>1. ASSUME NEW s \in Sets, NEW w \in Ways, NEW o \in Offs, NEW l \in Lanes, valid'[s][w]
      PROVE  dat'[w][s][o][l] = view'[at(s, w, o)'][l]
  <2>1. CASE ~installs
    <3>1. tags' = tags
      BY <1>1, <2>1, ValidMoves
    <3>2. at(s, w, o)' = at(s, w, o)
      BY <3>1 DEF at
    <3> QED BY <1>1, <2>1, <3>2, StoredCoherent
  <2>2. CASE installs
    <3>1. /\ state = "S_FILL" /\ m_ready /\ ~snoop_flush
          /\ valid'[s][w] <=> (valid[s][w] \/ (w = f.way /\ s = f.set))
          /\ tags'[s][w] = IF w = f.way /\ s = f.set THEN f.tag ELSE tags[s][w]
      BY <2>2, Installed
    <3>2. CASE w = f.way /\ s = f.set
      <4>1. at(s, w, o)' = [tag |-> f.tag, set |-> f.set, off |-> o]
        BY <3>1, <3>2 DEF at
      <4> QED BY <2>2, <3>2, <4>1, InstalledCoherent
    <3>3. CASE ~(w = f.way /\ s = f.set)
      <4>1. at(s, w, o)' = at(s, w, o) /\ at(s, w, o) \in Addrs
        BY <3>1, <3>3, AtTyped DEF at
      <4>2. view'[at(s, w, o)][l] = view[at(s, w, o)][l]
        <5>1. ~wb_push
          BY <3>1 DEF wb_push, wr_now
        <5> QED BY <3>1, <4>1, <5>1, ViewMoves DEF snoop_flush
      <4>3. dat'[w][s][o] = dat[w][s][o]
        <5>1. dat' = [dat EXCEPT ![f.way][f.set][f.off] = m_rdata] /\ m_rdata \in Words
          <6>1. m_rdata \in Words
            BY <3>1 DEF Types, m_ready, m_rdata, Memory!NoAnswer
          <6> QED BY <3>1, <6>1, FillClock
        <5>2. /\ f.set \in Sets /\ f.way \in Ways /\ f.off \in Offs
              /\ dat \in [Ways -> [Sets -> [Offs -> Words]]]
          BY DEF Types
        <5> QED BY ONLY <3>3, <5>1, <5>2, w \in Ways, s \in Sets, o \in Offs, LineWritten
      <4>4. dat[w][s][o][l] = view[at(s, w, o)][l]
        BY <3>1, <3>3, <1>1, ByLane DEF LaneCoherent
      <4> QED BY <4>1, <4>2, <4>3, <4>4
    <3> QED BY <3>2, <3>3
  <2> QED BY <2>1, <2>2
<1>2. LaneCoherent'
  BY <1>1 DEF LaneCoherent
<1>3. (Types => (Coherent <=> LaneCoherent))'
  BY ByLane, PTL
<1> QED BY <1>2, <1>3

LEMMA CacheStep == CacheInv /\ [Next]_vars => CacheInv'
PROOF
<1> SUFFICES ASSUME CacheInv, [Next]_vars PROVE CacheInv'
  OBVIOUS
<1>1. CASE Next
  <2>1. Clock
    BY <1>1 DEF Next, Edge, Clock, MemoryStep
  <2>2. Types'
    BY <2>1, TypesStep DEF Clock, CacheInv, PortTrue
  <2> QED BY <2>1, <2>2, LookupStep, PortStep, FillStep, OneWayStep, CoherentStep
          DEF CacheInv, Clock
<1>2. CASE UNCHANGED vars
  <2>1. UNCHANGED <<bus, ext, array, done, answer, tags, valid, dat, r, arr_wr_d, state,
                    f, gap, wb, hit_ack, hold>>
    BY <1>2 DEF vars, memVars, cacheVars
  <2>2. Types'
    BY <2>1 DEF CacheInv, Types
  <2>3. LookupTrue' /\ OneWayPerTag'
    BY <2>1 DEF CacheInv, LookupTrue, OneWayPerTag
  <2>4. PortTrue'
    BY <2>1 DEF CacheInv, PortTrue, m_ready, m_rdata
  <2>5. FillTrue'
    BY <2>1 DEF CacheInv, FillTrue, later, after, lineOf
  <2>6. Coherent'
    <3>1. view' = view
      BY <2>1 DEF view, queued
    <3> QED BY <2>1, <3>1 DEF CacheInv, Coherent
  <2> QED BY <2>2, <2>3, <2>4, <2>5, <2>6 DEF CacheInv
<1> QED BY <1>1, <1>2

LEMMA CacheInit == Init => CacheInv
PROOF
<1> SUFFICES ASSUME Init PROVE CacheInv
  OBVIOUS
<1> USE DEF Init
<1>1. anAddr.tag \in Tags /\ anAddr.set \in Sets /\ anAddr.off \in Offs
  BY Shapes DEF Addrs
<1>2. \A s \in Sets, w \in Ways : ~valid[s][w]
  OBVIOUS
<1>3. Types
  <2>1. bus \in [t : TStates, kind : {"rd", "wr"}, addr : Addrs, be : SUBSET Lanes,
                 data : Words]
    BY Shapes DEF Passive, TStates
  <2>2. wb \in Seq(Entries) /\ Len(wb) <= WBUF_DEPTH
    BY Shapes
  <2>3. r \in [addr : Addrs, tags : [Ways -> Tags], data : [Ways -> Words]]
    BY <1>1, Shapes
  <2> QED BY <1>1, <2>1, <2>2, <2>3, Shapes DEF Types
<1>4. LookupTrue
  <2>1. bus.t = "idle"
    BY DEF Passive
  <2>2. r.tags = tags[r.addr.set] /\ \A w \in Ways : r.data[w] = dat[w][r.addr.set][r.addr.off]
    BY <1>1
  <2> QED BY <2>1, <2>2 DEF LookupTrue
<1>5. PortTrue
  BY DEF PortTrue, m_ready, Memory!NoAnswer
<1>6. FillTrue
  BY DEF FillTrue
<1>7. OneWayPerTag /\ Coherent
  BY <1>2 DEF OneWayPerTag, Coherent
<1> QED BY <1>3, <1>4, <1>5, <1>6, <1>7 DEF CacheInv

(* The cache's registers, its port and its lines agree with the memory,    *)
(* whatever the bus unit and the other master do.                          *)
THEOREM CacheInvariant == Spec => []CacheInv
BY CacheInit, CacheStep, PTL DEF Spec

(* "No valid way already holds that tag" (cache.sv:205-207): fills of      *)
(* every length, evictions and snoops keep the selects of the lookup       *)
(* one-hot, in caches of every shape.                                      *)
THEOREM CacheOneWayPerTag == Spec => []OneWayPerTag
PROOF
<1>1. CacheInv => OneWayPerTag
  BY DEF CacheInv
<1> QED BY <1>1, CacheInvariant, PTL

(* A valid line is what the program has stored: the memory with the queued *)
(* writes on top of it (cache.sv:317-342, 446-450), though other masters   *)
(* write behind the cache's back (cache.sv:37-55).                         *)
THEOREM CacheCoherent == Spec => []Coherent
PROOF
<1>1. CacheInv => Coherent
  BY DEF CacheInv
<1> QED BY <1>1, CacheInvariant, PTL

(***************************************************************************)
(* The port's contract.                                                    *)
(***************************************************************************)

LEMMA CacheKeepsRequest ==
  ASSUME CacheInv, Clock
  PROVE  \/ m_request' = m_request
         \/ m_request = Memory!NoRequest
         \/ done["cache"] /\ m_request' = Memory!NoRequest
PROOF
<1> USE DEF CacheInv, Clock
<1>1. CASE gap \/ state = "S_IDLE"
  BY <1>1, Requests
<1>2. CASE m_ready
  <2>1. done["cache"] /\ gap' = m_ready
    BY <1>2, WriteClock, FillClock, IdleClock DEF PortTrue, Types
  <2> QED BY <1>2, <2>1, RequestsNext
<1>3. CASE ~gap /\ state = "S_FILL" /\ ~m_ready
  <2>1. f' = [f EXCEPT !.poison = f.poison \/ snoop_flush] /\ state' = "S_FILL"
        /\ gap' = m_ready
    BY <1>3, FillClock
  <2>2. m_request = FillRequest /\ m_request' = FillRequest'
    BY <1>3, <2>1, Requests, RequestsNext
  <2>3. f'.tag = f.tag /\ f'.set = f.set /\ f'.off = f.off
    BY <2>1 DEF Types
  <2> QED BY <2>2, <2>3 DEF FillRequest
<1>4. CASE ~gap /\ state = "S_WRITE" /\ ~m_ready
  <2>1. wb' = wb /\ state' = "S_WRITE" /\ gap' = m_ready
    BY <1>4, WriteClock
  <2>2. m_request = DrainRequest /\ m_request' = DrainRequest'
    BY <1>4, <2>1, Requests, RequestsNext
  <2> QED BY <2>1, <2>2 DEF DrainRequest
<1> QED BY <1>1, <1>2, <1>3, <1>4 DEF Types

LEMMA ExtKeepsRequest ==
  ASSUME CacheInv, ExtClock
  PROVE  \/ ext' = ext
         \/ ext = Memory!NoRequest
         \/ done["ext"] /\ ext' = Memory!NoRequest
BY DEF CacheInv, Types, PortTrue, ExtClock, Memory!NoRequest

(* The request lines carry a request the memory knows, in a form that holds*)
(* of the next state as well.                                              *)
LEMMA RequestTypedAlways ==
  Types /\ (state = "S_WRITE" => wb # <<>>) => m_request \in Requested /\ ext \in Requested
BY RequestTyped

(* The arbiter's contract (sdram_arbiter.sv:31-37, cache.sv:403-405): a    *)
(* request stands unchanged until it is performed, then is dropped for a   *)
(* clock before the next one.                                              *)
THEOREM CacheKeepsPortContract == Spec => KeepsPortContract
PROOF
<1>1. ASSUME CacheInv, CacheInv', Next PROVE Memory!PortsMove
  <2>1. Clock
    BY <1>1 DEF Next, Edge, Clock, MemoryStep
  <2>2. m_request' \in Requested /\ ext' \in Requested
    <3>1. (Types /\ (state = "S_WRITE" => wb # <<>>)
             => m_request \in Requested /\ ext \in Requested)'
      BY RequestTypedAlways, PTL
    <3>3. Requested' = Requested
      BY DEF Requested, Memory!NoRequest
    <3> QED BY <1>1, <3>1, <3>3 DEF CacheInv, PortTrue
  <2> DEFINE rq == [p \in {"cache", "ext"} |-> IF p = "cache" THEN m_request ELSE ext]
             rqn == [p \in {"cache", "ext"} |-> IF p = "cache" THEN m_request' ELSE ext']
             All == [{"cache", "ext"} -> Memory!Accesses \cup {Memory!NoRequest}]
  <2>3. rqn \in All
    BY <2>2 DEF Requested, Memory!Accesses, Memory!NoRequest
  <2>4. \A j \in {"cache", "ext"} :
           \/ rqn[j] = rq[j]
           \/ rq[j] = Memory!NoRequest
           \/ done[j] /\ rqn[j] = Memory!NoRequest
    <3>1. rqn["cache"] = m_request' /\ rq["cache"] = m_request
          /\ rqn["ext"] = ext' /\ rq["ext"] = ext
      OBVIOUS
    <3> HIDE DEF rq, rqn
    <3> QED BY <1>1, <2>1, <3>1, CacheKeepsRequest, ExtKeepsRequest DEF Clock
  <2> QED BY <2>3, <2>4 DEF Memory!PortsMove
<1>2. CacheInv /\ CacheInv' /\ [Next]_vars => [Memory!PortsMove]_vars
  BY <1>1
<1> QED BY <1>2, CacheInvariant, PTL DEF Spec, KeepsPortContract

(***************************************************************************)
(* What the CPU reads and stores, while no other master writes low memory  *)
(* (ExtTags = {}).  With one, a hit recognised in T2 may be a miss in T3,  *)
(* and the fill it starts answers the next access instead.                 *)
(***************************************************************************)

(* An access ends in the clock its READY is shown.                         *)
LEMMA BusWaits ==
  ASSUME Types, BusClock
  PROVE  /\ bus.t = "T3" => bus'.t \in {"T3", "T4", "reset"}
         /\ bus.t = "T2" => bus'.t \in {"T3", "reset"}
         /\ bus.t = "T3" /\ ~c_ready => bus' = bus \/ bus'.t = "reset"
         /\ bus.t = "reset" /\ state = "S_FILL" => bus'.t = "reset"
         /\ bus'.t = "T4" => bus.t = "T3" /\ c_ready
PROOF
<1>1. bus \in [t : TStates, kind : {"rd", "wr"}, addr : Addrs, be : SUBSET Lanes,
               data : Words]
  BY DEF Types
<1>2. \A t \in TStates : Passive(t).t = t /\ [bus EXCEPT !.t = t].t = t
  BY <1>1 DEF Passive
<1>3. BusStart => bus'.t = "T1" /\ bus.t = "idle"
  BY DEF BusStart
<1>4. {"idle", "T1", "T2", "T3", "T4", "reset"} = TStates
  BY DEF TStates
<1>5. \/ bus.t = "idle" /\ bus'.t \in {"idle", "T1"}
      \/ bus.t = "T1" /\ bus'.t = "T2"
      \/ bus.t = "T2" /\ bus'.t = "T3"
      \/ bus.t = "T3" /\ ~c_ready /\ bus' = bus
      \/ bus.t = "T3" /\ c_ready /\ bus'.t = "T4"
      \/ bus.t = "T4" /\ bus'.t = "idle"
      \/ bus'.t = "reset"
      \/ bus.t = "reset" /\ state # "S_FILL" /\ bus'.t = "idle"
  BY <1>2, <1>3, <1>4 DEF BusClock, BusReset, BusRelease
<1> QED BY <1>1, <1>5

LEMMA ReadShown ==
  ASSUME ReadTrue, Types, BusClock, History, bus'.t \in {"T2", "T3"}, bus'.kind = "rd"
  PROVE  /\ view'[bus'.addr] \in seen'
         /\ bus.t \in {"T2", "T3"} => view[bus.addr] \in seen'
PROOF
<1>1. seen' = (IF bus.t = "T1" THEN {} ELSE seen) \cup {view'[bus'.addr]}
  BY DEF History
<1>2. bus'.kind = bus.kind
  BY BusStays
<1> QED BY <1>1, <1>2 DEF ReadTrue

(* A hit is of the word the program would read.                            *)
LEMMA HitShown ==
  ASSUME CacheInv, hit_now
  PROVE  hit_data = view[bus.addr] /\ r.addr = bus.addr
PROOF
<1>1. /\ ~arr_wr_d /\ bus.t \in {"T2", "T3"} /\ hit_any
  BY DEF hit_now, lu_ok, c_rd
<1>2. r.addr = bus.addr /\ r.tags = tags[r.addr.set]
      /\ \A w \in Ways : r.data[w] = dat[w][r.addr.set][r.addr.off]
  BY <1>1 DEF CacheInv, LookupTrue
<1>3. hit_way \in Ways /\ way_hit(hit_way)
  BY <1>1, HitWay
<1>4. bus.addr = [tag |-> bus.addr.tag, set |-> bus.addr.set, off |-> bus.addr.off]
      /\ bus.addr.set \in Sets /\ bus.addr.off \in Offs
  BY DEF CacheInv, Types, Addrs
<1>5. valid[bus.addr.set][hit_way] /\ tags[bus.addr.set][hit_way] = bus.addr.tag
  BY <1>2, <1>3 DEF way_hit
<1>6. dat[hit_way][bus.addr.set][bus.addr.off]
        = view[[tag |-> bus.addr.tag, set |-> bus.addr.set, off |-> bus.addr.off]]
  BY <1>3, <1>4, <1>5 DEF CacheInv, Coherent
<1> QED BY <1>2, <1>3, <1>4, <1>6 DEF hit_data

(* A fill's answer is what the program would read as well.                 *)
LEMMA FillShown ==
  ASSUME CacheInv, state = "S_FILL", m_ready
  PROVE  m_rdata = view[[tag |-> f.tag, set |-> f.set, off |-> f.off]]
PROOF
<1> DEFINE a == [tag |-> f.tag, set |-> f.set, off |-> f.off]
<1>1. a \in Addrs /\ array[a] \in [Lanes -> Vals] /\ m_rdata = array[a]
  BY DEF CacheInv, Types, Addrs, Words, PortTrue
<1>2. \A q \in 1..Len(wb) : wb[q].addr # a
  BY DEF CacheInv, FillTrue, lineOf
<1>3. \A l \in Lanes : queued(a, l) = {}
  BY <1>2 DEF queued
<1>4. view[a] = [l \in Lanes |-> array[a][l]]
  BY <1>1, <1>3 DEF view
<1> QED BY <1>1, <1>4

LEMMA Alone == ASSUME ExtTags = {}, ExtClock, ext.kind = "none" PROVE ext'.kind = "none"
BY DEF ExtClock

LEMMA HitAnswered ==
  ASSUME CacheInv, ReadTrue, Clock, History, ExtTags = {}, hit_ack'
  PROVE  /\ state' # "S_FILL" /\ bus'.t \in {"T3", "T4", "reset"}
         /\ bus'.t = "T3" => bus'.kind = "rd" /\ hit_any' /\ hold' \in seen'
PROOF
<1> USE DEF CacheInv, Clock
<1>1. hit_now /\ state = "S_IDLE" /\ ~arr_wr_d /\ bus.t \in {"T2", "T3"}
      /\ bus.kind = "rd" /\ hit_any
  <2>1. state = "S_IDLE"
    BY WriteClock, FillClock DEF Types
  <2>2. hit_now
    BY <2>1, IdleClock
  <2> QED BY <2>1, <2>2 DEF hit_now, lu_ok, c_rd
<1>2. ~miss_now /\ ~snoop_flush
  BY <1>1 DEF miss_now, snoop_flush, ReadTrue
<1>3. state' \in {"S_IDLE", "S_WRITE"} /\ valid' = valid /\ tags' = tags
  BY <1>1, <1>2, IdleClock
<1>4. bus'.t \in {"T3", "T4", "reset"}
  BY <1>1, BusWaits
<1>5. ASSUME bus'.t = "T3"
      PROVE  bus'.kind = "rd" /\ hit_any' /\ hold' \in seen'
  <2>1. bus'.kind = "rd" /\ bus'.addr = bus.addr
    BY <1>1, <1>5, BusStays
  <2>2. r.addr = bus.addr /\ r.tags = tags[r.addr.set] /\ r'.addr = r.addr
        /\ r'.tags = tags[r.addr.set]
    <3>1. r' = [addr |-> bus.addr, tags |-> tags[bus.addr.set],
                data |-> [w \in Ways |-> dat[w][bus.addr.set][bus.addr.off]]]
      BY LookupTyped
    <3> QED BY <1>1, <3>1 DEF LookupTrue
  <2>3. hit_any'
    BY <1>1, <1>3, <2>2 DEF hit_any, way_hit
  <2>4. hold' = hit_data
    <3>1. PICK victim \in victims : AckClock
      BY Zenon DEF CacheClock
    <3>2. ~fill_ack
      BY <1>1 DEF fill_ack, fill_word
    <3> QED BY <1>1, <3>1, <3>2, Zenon DEF AckClock
  <2>5. hit_data \in seen'
    BY <1>1, <1>5, <2>1, HitShown, ReadShown
  <2> QED BY <2>1, <2>3, <2>4, <2>5
<1> QED BY <1>3, <1>4, <1>5

LEMMA FirstWordAwaited ==
  ASSUME CacheInv, ReadTrue, Clock, state' = "S_FILL", f'.cnt = 0
  PROVE  \/ bus'.t = "reset"
         \/ /\ bus'.t = "T3" /\ bus'.kind = "rd"
            /\ bus'.addr = [tag |-> f'.tag, set |-> f'.set, off |-> f'.off]
PROOF
<1> USE DEF CacheInv, Clock
<1>1. CASE state = "S_IDLE"
  <2>1. miss_now
    BY <1>1, IdleClock
  <2>2. /\ ~arr_wr_d /\ bus.t \in {"T2", "T3"} /\ bus.kind = "rd" /\ ~hit_any
        /\ r.addr = bus.addr
    BY <2>1 DEF miss_now, lu_ok, c_rd, LookupTrue
  <2>3. f'.tag = bus.addr.tag /\ f'.set = bus.addr.set /\ f'.off = bus.addr.off
    <3>1. PICK victim \in Ways :
            f' = [tag |-> r.addr.tag, set |-> r.addr.set, way |-> victim,
                  off |-> r.addr.off, cnt |-> 0, poison |-> snoop_flush]
      BY <1>1, <2>1, IdleClock
    <3> QED BY <2>2, <3>1
  <2>4. ~c_ready \/ bus.t = "T2"
    BY <1>1, <2>2 DEF c_ready, fill_ack, fill_word, wb_push, wr_now, c_wr, ReadTrue
  <2>5. bus'.t = "reset" \/ bus'.t = "T3"
    BY <2>2, <2>4, BusWaits
  <2>6. bus'.t = "T3" => bus'.kind = "rd" /\ bus'.addr = bus.addr
    BY <2>2, BusStays
  <2>7. bus.addr = [tag |-> bus.addr.tag, set |-> bus.addr.set, off |-> bus.addr.off]
    BY DEF Types, Addrs
  <2> QED BY <2>3, <2>5, <2>6, <2>7
<1>2. CASE state = "S_FILL"
  <2>1. f.cnt \in Nat /\ f \in [tag : Tags, set : Sets, way : Ways, off : Offs, cnt : Offs,
                                poison : BOOLEAN]
    BY DEF Types, Offs
  <2>2. ~m_ready /\ f'.tag = f.tag /\ f'.set = f.set /\ f'.off = f.off /\ f.cnt = 0
    <3>1. CASE fill_last
      BY <1>2, <3>1, FillClock
    <3>2. CASE m_ready /\ ~fill_last
      <4>1. f'.cnt = f.cnt + 1
        BY <1>2, <2>1, <3>2, FillClock
      <4> QED BY <2>1, <4>1
    <3>3. CASE ~m_ready
      <4>1. f' = [f EXCEPT !.poison = f.poison \/ snoop_flush]
        BY <1>2, <3>3, FillClock
      <4> QED BY <2>1, <3>3, <4>1
    <3> QED BY <3>1, <3>2, <3>3
  <2>3. bus.t = "T3" /\ bus.kind = "rd" => ~c_ready
    BY <1>2, <2>2 DEF c_ready, fill_ack, fill_word, wb_push, wr_now, ReadTrue
  <2>4. bus'.t = "reset" \/ bus' = bus
    BY <1>2, <2>2, <2>3, BusWaits DEF ReadTrue
  <2> QED BY <1>2, <2>2, <2>4 DEF ReadTrue
<1>3. CASE state = "S_WRITE"
  BY <1>3, WriteClock
<1> QED BY <1>1, <1>2, <1>3 DEF Types

LEMMA ReadStep == ExtTags = {} => (CacheInv /\ ReadTrue /\ [Next]_vars => ReadTrue')
PROOF
<1> SUFFICES ASSUME ExtTags = {}, CacheInv, ReadTrue, [Next]_vars PROVE ReadTrue'
  OBVIOUS
<1>1. CASE Next
  <2>1. Clock /\ History
    BY <1>1 DEF Next, Edge, Clock, MemoryStep
  <2>2. ext'.kind = "none"
    BY <2>1, Alone DEF Clock, ReadTrue
  <2>3. bus'.t \in {"T2", "T3"} /\ bus'.kind = "rd" => view'[bus'.addr] \in seen'
    BY <2>1, ReadShown DEF Clock, CacheInv
  <2>4. hit_ack' => /\ state' # "S_FILL" /\ bus'.t \in {"T3", "T4", "reset"}
                    /\ bus'.t = "T3" => bus'.kind = "rd" /\ hit_any' /\ hold' \in seen'
    BY <2>1, HitAnswered
  <2>5. state' = "S_FILL" /\ f'.cnt = 0 =>
          \/ bus'.t = "reset"
          \/ /\ bus'.t = "T3" /\ bus'.kind = "rd"
             /\ bus'.addr = [tag |-> f'.tag, set |-> f'.set, off |-> f'.off]
    BY <2>1, FirstWordAwaited
  <2> QED BY <2>2, <2>3, <2>4, <2>5 DEF ReadTrue
<1>2. CASE UNCHANGED vars
  <2>1. UNCHANGED <<bus, ext, array, done, answer, tags, valid, dat, r, arr_wr_d, state,
                    f, gap, wb, hit_ack, hold, seen>>
    BY <1>2 DEF vars, memVars, cacheVars
  <2>2. view' = view /\ hit_any' = hit_any
    BY <2>1 DEF view, queued, hit_any, way_hit
  <2> QED BY <2>1, <2>2 DEF ReadTrue
<1> QED BY <1>1, <1>2

LEMMA ReadInit == Init => ReadTrue
BY DEF Init, ReadTrue, Passive, Memory!NoRequest

LEMMA ReadAlways == ExtTags = {} => (Spec => [](CacheInv /\ ReadTrue))
PROOF
<1> SUFFICES ASSUME ExtTags = {} PROVE Spec => [](CacheInv /\ ReadTrue)
  OBVIOUS
<1>1. CacheInv /\ ReadTrue /\ [Next]_vars => (CacheInv /\ ReadTrue)'
  BY CacheStep, ReadStep
<1> QED BY <1>1, CacheInit, ReadInit, PTL DEF Spec

(* With no other master below 1 MB, what READY brings the CPU in T3, from  *)
(* the arrays, from the first word of a fill or behind a queue that still  *)
(* drains, is a value the program's memory held during that very read.     *)
THEOREM CacheReadsAreFresh == ExtTags = {} => (Spec => []ReadsAreFresh)
PROOF
<1> SUFFICES ASSUME ExtTags = {} PROVE Spec => []ReadsAreFresh
  OBVIOUS
<1>1. ASSUME CacheInv, ReadTrue, bus.t = "T3", bus.kind = "rd", c_ready
      PROVE  c_rdata \in seen
  <2>1. view[bus.addr] \in seen
    BY <1>1 DEF ReadTrue
  <2>2. CASE hit_ack
    BY <1>1, <2>2 DEF ReadTrue, c_rdata, fill_ack, fill_word
  <2>3. CASE fill_ack
    <3>1. state = "S_FILL" /\ m_ready /\ f.cnt = 0
      BY <2>3 DEF fill_ack, fill_word
    <3>2. m_rdata = view[bus.addr]
      BY <1>1, <3>1, FillShown DEF ReadTrue
    <3> QED BY <2>1, <2>3, <3>2 DEF c_rdata
  <2>4. ~wb_push
    BY <1>1 DEF wb_push, wr_now, c_wr
  <2> QED BY <1>1, <2>2, <2>3, <2>4 DEF c_ready
<1>2. CacheInv /\ ReadTrue => ReadsAreFresh
  BY <1>1 DEF ReadsAreFresh
<1> QED BY <1>2, ReadAlways, PTL

(* With no other master below 1 MB, the program's memory changes only      *)
(* where and when the program stores, no store is pushed into a full       *)
(* queue, and a store the CPU sees finished has landed.                    *)
THEOREM CacheStoresLand == ExtTags = {} => (Spec => StoresLand)
PROOF
<1> SUFFICES ASSUME ExtTags = {} PROVE Spec => StoresLand
  OBVIOUS
<1> DEFINE Lands ==
      /\ Len(wb') <= WBUF_DEPTH
      /\ \A a \in Addrs, l \in Lanes : view'[a][l] # view[a][l] =>
           \/ wb_push /\ a = bus.addr /\ l \in bus.be
           \/ ext.kind = "wr" /\ a = ext.addr
      /\ bus.kind = "wr" /\ bus'.t = "T4" =>
           \A l \in bus.be : view'[bus.addr][l] = bus.data[l]
<1>1. ASSUME CacheInv, ReadTrue, Next PROVE Lands
  <2>1. Clock
    BY <1>1 DEF Next, Edge, Clock, MemoryStep
  <2>2. Len(wb') <= WBUF_DEPTH
    BY <1>1, <2>1, BufferBounded DEF CacheInv, PortTrue, Clock
  <2>3. ASSUME NEW a \in Addrs, NEW l \in Lanes, view'[a][l] # view[a][l]
        PROVE  \/ wb_push /\ a = bus.addr /\ l \in bus.be
               \/ ext.kind = "wr" /\ a = ext.addr
    BY <1>1, <2>1, <2>3, ViewMoves DEF CacheInv, Clock
  <2>4. ASSUME bus.kind = "wr", bus'.t = "T4", NEW l \in bus.be
        PROVE  view'[bus.addr][l] = bus.data[l]
    <3>1. bus.t = "T3" /\ c_ready
      BY <1>1, <2>1, <2>4, BusWaits DEF CacheInv, Clock
    <3>2. ~hit_ack
      BY <1>1, <2>4, <3>1 DEF ReadTrue
    <3>3. ~fill_ack
      BY <1>1, <2>4, <3>1 DEF ReadTrue, fill_ack, fill_word
    <3>4. wb_push
      BY <3>1, <3>2, <3>3 DEF c_ready
    <3>5. bus.addr \in Addrs /\ l \in Lanes
      BY <1>1 DEF CacheInv, Types
    <3> QED BY <1>1, <2>1, <2>4, <3>4, <3>5, ViewMoves DEF CacheInv, Clock
  <2> QED BY <2>2, <2>3, <2>4
<1>2. CacheInv /\ ReadTrue /\ [Next]_vars => [Lands]_vars
  BY <1>1
<1> QED BY <1>2, ReadAlways, PTL DEF Spec, StoresLand
=============================================================================
