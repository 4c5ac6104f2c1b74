--------------------------- MODULE ReadoutProofs ---------------------------
(***************************************************************************)
(* Proofs about Readout, for every length of event, block and buffers, and *)
(* for every number of hits, timeouts and runs.                            *)
(***************************************************************************)
EXTENDS Readout, FiniteSetTheorems, SequenceTheorems, TLAPS

-----------------------------------------------------------------------------
(* Addresses that go round. *)

LEMMA MulMono ==
  ASSUME NEW u \in Nat, NEW a \in Nat, NEW b \in Nat, a <= b
  PROVE  u * a <= u * b /\ u * a \in Nat
<1>1. PICK c \in Nat : b = a + c
  <2>1. b - a \in Nat /\ b = a + (b - a)
    OBVIOUS
  <2>. QED
    BY <2>1
<1>2. u * b = u * a + u * c /\ u * c >= 0 /\ u * a >= 0
  BY <1>1
<1>. QED
  BY <1>2

LEMMA DivMod ==
  ASSUME NEW m \in Int, NEW u \in Nat \ {0}
  PROVE  \E q \in Int, r \in 0..u-1 : m = u * q + r /\ r = m % u /\ q = m \div u
<1>1. m \div u \in Int /\ m % u \in 0..u-1 /\ m = u * (m \div u) + (m % u)
  OBVIOUS
<1>. QED
  BY <1>1

\* Quotient and remainder are the only ones there are.
LEMMA DivModIs ==
  ASSUME NEW u \in Nat \ {0}, NEW r \in 0..u-1, NEW q \in Int, NEW a \in Int, a = u * q + r
  PROVE  a % u = r /\ a \div u = q
<1>1. PICK q2 \in Int, r2 \in 0..u-1 : a = u * q2 + r2 /\ r2 = a % u /\ q2 = a \div u
  BY DivMod
<1>2. u * (q - q2) = r2 - r
  BY <1>1
<1>3. ~(q - q2 >= 1)
  <2>. SUFFICES ASSUME q - q2 >= 1 PROVE FALSE
    OBVIOUS
  <2>1. u * 1 <= u * (q - q2)
    BY MulMono
  <2>. QED
    BY <1>1, <1>2, <2>1
<1>4. ~(q2 - q >= 1)
  <2>. SUFFICES ASSUME q2 - q >= 1 PROVE FALSE
    OBVIOUS
  <2>1. u * 1 <= u * (q2 - q)
    BY MulMono
  <2>2. u * (q2 - q) = r - r2
    BY <1>1
  <2>. QED
    BY <1>1, <2>1, <2>2
<1>5. q = q2
  BY <1>3, <1>4
<1>6. PICK z \in Int : z = u * q /\ z = u * q2
  <2>1. u * q \in Int
    OBVIOUS
  <2>. QED
    BY <1>5, <2>1
<1>7. r = r2
  <2>1. a = z + r /\ a = z + r2
    BY <1>1, <1>6, Zenon
  <2>3. r \in Int /\ r2 \in Int
    OBVIOUS
  <2>2. \A x, y, w, v \in Int : v = w + x /\ v = w + y => x = y
    OBVIOUS
  <2>. QED
    BY <2>1, <2>2, <2>3, Zenon
<1>. QED
  BY <1>1, <1>5, <1>7

LEMMA ModSmall ==
  ASSUME NEW u \in Nat \ {0}, NEW r \in 0..u-1
  PROVE  r % u = r
<1>1. r = u * 0 + r
  OBVIOUS
<1>. QED
  BY <1>1, DivModIs

LEMMA RemainderIs ==
  \A u \in Nat \ {0} : \A q, a, r \in Int : r \in 0..u-1 /\ a = u * q + r => a % u = r
BY DivModIs

\* Going on from an address, the distance of two, and two less than a lap apart.
LEMMA ModAdd ==
  ASSUME NEW u \in Nat \ {0}, NEW a \in Int, NEW n \in Int
  PROVE  ((a % u) + n) % u = (a + n) % u /\ a % u \in 0..u-1
<1>1. PICK q \in Int, r \in 0..u-1 : a = u * q + r /\ r = a % u
  BY DivMod
<1>2. PICK q2 \in Int, r2 \in 0..u-1 : r + n = u * q2 + r2 /\ r2 = (r + n) % u
  <2>1. r + n \in Int
    OBVIOUS
  <2>. QED
    BY <2>1, DivMod
<1>3. a + n = u * (q + q2) + r2
  <2>1. u * (q + q2) = u * q + u * q2 /\ u * q \in Int /\ u * q2 \in Int
    OBVIOUS
  <2>2. r \in Int /\ r2 \in Int
    OBVIOUS
  <2>3. a = u * q + r /\ r + n = u * q2 + r2
    BY <1>1, <1>2
  <2>. QED
    BY <2>1, <2>2, <2>3
<1>4. (a + n) % u = r2
  <2>1. q + q2 \in Int /\ a + n \in Int
    OBVIOUS
  <2>2. r2 \in Int /\ r2 \in 0..u-1
    OBVIOUS
  <2>. QED
    BY <1>3, <2>1, <2>2, RemainderIs, Zenon
<1>. QED
  BY <1>1, <1>2, <1>4

LEMMA ModDiff ==
  ASSUME NEW u \in Nat \ {0}, NEW a \in Int, NEW d \in 0..u-1
  PROVE  (((a + d) % u) - (a % u)) % u = d
<1>1. PICK q \in Int, r \in 0..u-1 : a = u * q + r /\ r = a % u
  BY DivMod
<1>2. PICK q2 \in Int, r2 \in 0..u-1 : a + d = u * q2 + r2 /\ r2 = (a + d) % u
  <2>1. a + d \in Int
    OBVIOUS
  <2>. QED
    BY <2>1, DivMod
<1>3. r2 - r = u * (q - q2) + d
  <2>1. PICK x \in Int, y \in Int : x = u * q /\ y = u * q2
    <3>1. u * q \in Int /\ u * q2 \in Int
      OBVIOUS
    <3>. QED
      BY <3>1
  <2>2. u * (q - q2) = x - y
    BY <2>1
  <2>3. a = x + r /\ a + d = y + r2
    BY <1>1, <1>2, <2>1
  <2>4. r2 - r = (x - y) + d
    BY <2>3
  <2>. QED
    BY <2>2, <2>4
<1>4. (r2 - r) % u = d
  BY <1>3, DivModIs
<1>. QED
  BY <1>1, <1>2, <1>4

LEMMA Apart ==
  ASSUME NEW u \in Nat \ {0}, NEW a \in Int, NEW b \in Int, a < b, b - a < u
  PROVE  b % u # a % u
<1>1. b - a \in 0..u-1 /\ b = a + (b - a)
  OBVIOUS
<1>2. ((b % u) - (a % u)) % u = b - a
  BY <1>1, ModDiff
<1>3. 0 % u = 0
  BY ModSmall
<1>4. a % u \in Int
  OBVIOUS
<1>5. ASSUME b % u = a % u PROVE FALSE
  <2>1. (b % u) - (a % u) = 0
    BY <1>4, <1>5
  <2>. QED
    BY <1>2, <1>3, <2>1
<1>. QED
  BY <1>5

\* Word r of block q of a memory of m blocks of u words.
LEMMA BlockRange ==
  ASSUME NEW u \in Nat \ {0}, NEW m \in Nat \ {0}, NEW q \in Int, NEW r \in 0..u-1
  PROVE  m * u \in Nat \ {0} /\ (q % m) * u \in Nat /\ (q % m) * u + r \in 0..m*u-1
<1>1. PICK s \in 0..m-1 : s = q % m
  BY DivMod
<1>2. PICK x \in Nat : x = u * s /\ x = s * u
  <2>1. u * s \in Nat /\ u * s = s * u
    BY MulMono
  <2>. QED
    BY <2>1
<1>3. PICK y \in Nat : y = u * m /\ y = m * u
  <2>1. u * m \in Nat /\ u * m = m * u
    BY MulMono
  <2>. QED
    BY <2>1
<1>4. x + u <= y
  <2>1. u * (s + 1) <= u * m /\ u * (s + 1) = u * s + u
    BY MulMono
  <2>. QED
    BY <1>2, <1>3, <2>1
<1>5. y \in Nat \ {0} /\ x + r \in 0..y-1
  BY <1>4
<1>. QED
  BY <1>1, <1>2, <1>3, <1>5

LEMMA BlockAddress ==
  ASSUME NEW u \in Nat \ {0}, NEW m \in Nat \ {0}, NEW q \in Int, NEW r \in 0..u-1
  PROVE  /\ (q * u + r) % (m * u) = (q % m) * u + r
         /\ ((q % m) * u + r) \div u = q % m
<1>1. PICK d \in Int, s \in 0..m-1 : q = m * d + s /\ s = q % m
  BY DivMod
<1>2. PICK x \in Nat : x = s * u
  BY <1>1, BlockRange
<1>3. PICK y \in Nat \ {0} : y = m * u
  BY BlockRange
<1>4. x + r \in 0..y-1
  BY <1>1, <1>2, <1>3, BlockRange
<1>5. q * u + r = y * d + (x + r)
  <2>1. (m * d + s) * u = (m * d) * u + s * u
    OBVIOUS
  <2>2. (m * d) * u = (m * u) * d /\ (m * u) * d \in Int
    OBVIOUS
  <2>3. PICK z \in Int : z = (m * u) * d
    BY <2>2
  <2>4. q * u = z + x /\ z = y * d
    BY <1>1, <1>2, <1>3, <2>1, <2>2, <2>3
  <2>5. (z + x) + r = z + (x + r)
    BY <1>2, <2>3
  <2>. QED
    BY <2>4, <2>5
<1>7. (q * u + r) % y = x + r
  <2>1. q * u + r \in Int
    OBVIOUS
  <2>2. x + r \in Int
    OBVIOUS
  <2>. QED
    BY <1>4, <1>5, <2>1, <2>2, RemainderIs, Zenon
<1>8. (x + r) \div u = s
  <2>1. x + r = u * s + r /\ x + r \in Int
    BY <1>2
  <2>. QED
    BY <2>1, DivModIs
<1>. QED
  BY <1>1, <1>2, <1>3, <1>7, <1>8

\* The block an address is in.
LEMMA BlockNumber ==
  ASSUME NEW u \in Nat \ {0}, NEW m \in Nat \ {0}, NEW a \in 0..m*u-1
  PROVE  a \div u \in 0..m-1 /\ a % u \in 0..u-1 /\ a = (a \div u) * u + (a % u)
<1>1. a \in Int /\ a >= 0 /\ a < m * u
  OBVIOUS
<1>2. PICK q \in Int, r \in 0..u-1 : a = u * q + r /\ r = a % u /\ q = a \div u
  BY <1>1, DivMod
<1>3. q >= 0
  <2>. SUFFICES ASSUME q <= 0 - 1 PROVE FALSE
    OBVIOUS
  <2>1. u * 1 <= u * (0 - q) /\ u * (0 - q) = 0 - (u * q)
    BY MulMono
  <2>2. PICK x \in Int : x = u * q
    OBVIOUS
  <2>. QED
    BY <1>1, <1>2, <2>1, <2>2
<1>4. q < m
  <2>. SUFFICES ASSUME m <= q PROVE FALSE
    OBVIOUS
  <2>1. u * m <= u * q /\ u * m = m * u
    BY <1>3, MulMono
  <2>2. PICK x \in Int, y \in Int : x = u * q /\ y = m * u
    OBVIOUS
  <2>. QED
    BY <1>1, <1>2, <2>1, <2>2
<1>5. q * u = u * q
  OBVIOUS
<1>. QED
  BY <1>2, <1>3, <1>4, <1>5

-----------------------------------------------------------------------------
(* Types. The counters count no more than the hits received in this run,   *)
(* and the blocks that are sent begin where the blocks of the memory do.   *)

LEMMA SizeFacts ==
  /\ maxwords \in Nat /\ maxwords > 2 /\ BlockLen \in Nat \ {0} /\ RamBlocks \in Nat \ {0}
  /\ HostBlocks \in Nat \ {0} /\ HalfFull \in Nat \ {0}
  /\ RamLen \in Nat \ {0} /\ HostLen \in Nat \ {0} /\ maxwords + BlockLen <= HostLen
  /\ 2^Width \in Nat \ {0} /\ maxwords < 2^Width
  /\ MaxHits \in Nat /\ MaxDisturbed \in Nat
<1>1. /\ maxwords \in Nat /\ maxwords > 2 /\ BlockLen \in Nat \ {0} /\ RamBlocks \in Nat \ {0}
      /\ HostBlocks \in Nat \ {0} /\ HalfFull \in Nat \ {0} /\ Width \in Nat /\ maxwords < 2^Width
      /\ maxwords + BlockLen <= HostBlocks * BlockLen
  BY SizeAssumption
<1>2. 2^Width \in Int
  BY <1>1
<1>3. 2^Width \in Nat \ {0}
  BY <1>1, <1>2
<1>4. 0 \in 0..BlockLen-1 /\ 0 \in Int
  BY <1>1
<1>5. RamBlocks * BlockLen \in Nat \ {0} /\ HostBlocks * BlockLen \in Nat \ {0}
  BY <1>1, <1>4, BlockRange
<1>. QED
  BY <1>1, <1>3, <1>5, BoundAssumption DEF RamLen, HostLen

Made == Len(stream)
Counted ==
  /\ hit_cnt + hit_drop_cnt + Len(fifo) <= nhits /\ words <= hit_cnt
  /\ stream \in Seq(Word) /\ timeouts \in Nat /\ stops \in Nat
  /\ timeouts + stops + early <= MaxDisturbed
Aligned == \E b \in 0..RamBlocks-1 : memaddr_last_packet = b * BlockLen
TInv == TypeOK /\ Counted /\ Aligned

LEMMA TypeFacts ==
  ASSUME TInv
  PROVE  /\ Made \in Nat /\ Len(fifo) \in Nat /\ fifo \in Seq(1..MaxHits) /\ stream \in Seq(Word)
         /\ nhits \in Nat /\ hit_cnt \in Nat /\ hit_drop_cnt \in Nat /\ words \in Nat
         /\ memwriteaddr \in 0..RamLen-1 /\ memaddr_last_packet \in 0..RamLen-1
         /\ memwriteaddr \div BlockLen \in 0..RamBlocks-1
         /\ ram \in [0..RamLen-1 -> Word] /\ dma_buf \in [0..HostLen-1 -> Word]
         /\ {wren_reg, endofevent_reg, memhalffull, done, wen, slip, dma_enabled} \subseteq BOOLEAN
         /\ data_reg \in Word
<1>1. fifo \in Seq(1..MaxHits) /\ stream \in Seq(Word)
  BY DEF TInv, TypeOK, Counted
<1>2. memwriteaddr \in 0..RamBlocks*BlockLen-1
  BY DEF TInv, TypeOK, RamLen
<1>3. memwriteaddr \div BlockLen \in 0..RamBlocks-1
  BY <1>2, BlockNumber, SizeFacts
<1>4. Made \in Nat /\ Len(fifo) \in Nat
  BY <1>1 DEF Made
<1>5. nhits \in Nat /\ hit_cnt \in Nat /\ hit_drop_cnt \in Nat /\ words \in Nat
  BY SizeFacts DEF TInv, TypeOK
<1>6. memwriteaddr \in 0..RamLen-1 /\ memaddr_last_packet \in 0..RamLen-1
  BY DEF TInv, TypeOK
<1>7. /\ ram \in [0..RamLen-1 -> Word] /\ dma_buf \in [0..HostLen-1 -> Word]
      /\ {wren_reg, endofevent_reg, memhalffull, done, wen, slip, dma_enabled} \subseteq BOOLEAN
      /\ data_reg \in Word
  BY DEF TInv, TypeOK
<1>. QED
  BY <1>1, <1>3, <1>4, <1>5, <1>6, <1>7

\* The facts about counts and queues alone.
LEMMA CountFacts ==
  ASSUME TInv
  PROVE  /\ Len(fifo) \in Nat /\ fifo \in Seq(1..MaxHits) /\ stream \in Seq(Word)
         /\ nhits \in Nat /\ hit_cnt \in Nat /\ hit_drop_cnt \in Nat /\ words \in Nat
         /\ nhits <= MaxHits /\ MaxHits \in Nat /\ HalfFull \in Nat /\ Len(fifo) <= HalfFull + 1
         /\ hit_cnt + hit_drop_cnt + Len(fifo) <= nhits /\ words <= hit_cnt
<1>1. MaxHits \in Nat /\ HalfFull \in Nat
  BY SizeFacts
<1>2. nhits <= MaxHits /\ Len(fifo) <= HalfFull + 1
  BY <1>1 DEF TInv, TypeOK
<1>3. hit_cnt + hit_drop_cnt + Len(fifo) <= nhits /\ words <= hit_cnt
  BY DEF TInv, Counted
<1>. QED
  BY <1>1, <1>2, <1>3, TypeFacts

LEMMA TallyFacts ==
  ASSUME TInv
  PROVE  /\ timeouts \in Nat /\ stops \in Nat /\ early \in Nat /\ MaxDisturbed \in Nat
         /\ timeouts + stops + early <= MaxDisturbed
<1>1. early \in 0..MaxDisturbed
  BY DEF TInv, TypeOK
<1>2. MaxDisturbed \in Nat
  BY SizeFacts
<1>3. timeouts \in Nat /\ stops \in Nat /\ timeouts + stops + early <= MaxDisturbed
  BY DEF TInv, Counted
<1>. QED
  BY <1>1, <1>2, <1>3

LEMMA TypesInit == Init => TInv
<1>. SUFFICES ASSUME Init PROVE TInv
  OBVIOUS
<1>1. 0 \in Word /\ 0 \in 0..MaxHits /\ 0 \in 0..RamLen-1 /\ 0 \in 0..BlockLen-1
      /\ 0 \in 0..2^Width-1 /\ 0 \in 0..RamBlocks-1 /\ 0 \in 0..HostBlocks-1 /\ 0 \in 0..MaxDisturbed
      /\ MaxDisturbed \in Nat
  BY SizeFacts DEF Word
<1>2. <<>> \in Seq(Word) /\ <<>> \in Seq(1..MaxHits) /\ Len(<<>>) = 0 /\ 0 <= HalfFull + 1
  BY SizeFacts
<1>3. ram \in [0..RamLen-1 -> Word] /\ dma_buf \in [0..HostLen-1 -> Word]
  BY <1>1 DEF Init, Ones
<1>4. Counted
  BY <1>1, <1>2 DEF Init, Counted
<1>5. Aligned
  <2>1. 0 \in 0..RamBlocks-1 /\ 0 * BlockLen = 0
    BY SizeFacts
  <2>. QED
    BY <2>1 DEF Init, Aligned
<1>6. data_reg \in Word
  BY <1>1 DEF Init, Ones
<1>. QED
  BY <1>1, <1>2, <1>3, <1>4, <1>5, <1>6 DEF Init, TInv, TypeOK

\* What comes out of the FIFO and goes into it.
LEMMA TailIs ==
  ASSUME TInv, fifo # <<>>
  PROVE  /\ Tail(fifo) \in Seq(1..MaxHits) /\ Len(Tail(fifo)) = Len(fifo) - 1 /\ Head(fifo) \in 1..MaxHits
         /\ Len(fifo) >= 1 /\ Head(fifo) \in Word
<1>1. Tail(fifo) \in Seq(1..MaxHits) /\ Len(Tail(fifo)) = Len(fifo) - 1 /\ Head(fifo) \in 1..MaxHits
      /\ Len(fifo) >= 1
  BY CountFacts, SMTT(30)
<1>2. \A h \in 1..MaxHits : h \in Word
  BY SizeFacts DEF Word
<1>. QED
  BY <1>1, <1>2

LEMMA HitTypes ==
  ASSUME TInv, Receive \/ DropHit
  PROVE  TInv'
<1>8. Aligned'
  BY DEF Receive, DropHit, engine, Aligned, TInv
<1>1. CASE Receive
  <2>1. nhits + 1 \in 1..MaxHits /\ nhits + 1 \in 0..MaxHits
    BY <1>1, CountFacts DEF Receive
  <2>2. fifo' \in Seq(1..MaxHits) /\ Len(fifo') = Len(fifo) + 1
    BY <1>1, <2>1, CountFacts DEF Receive
  <2>3. Len(fifo') <= HalfFull + 1
    BY <1>1, <2>2, CountFacts DEF Receive
  <2>5. /\ nhits' = nhits + 1 /\ hit_cnt' = hit_cnt /\ hit_drop_cnt' = hit_drop_cnt /\ words' = words
        /\ UNCHANGED <<stream, timeouts, stops, early>>
    BY <1>1 DEF Receive, builder, memory, thread
  <2>6. hit_cnt' + hit_drop_cnt' + Len(fifo') <= nhits' /\ words' <= hit_cnt'
    BY <2>2, <2>5, CountFacts, SMTT(30)
  <2>4. Counted'
    BY <2>5, <2>6 DEF Counted, TInv
  <2>. QED
    BY <1>8, <1>1, <2>1, <2>2, <2>3, <2>4
       DEF Receive, TInv, TypeOK, builder, pipe, memory, engine, host, thread
<1>3. CASE DropHit
  <2>1. fifo # <<>>
    BY <1>3, SizeFacts DEF DropHit
  <2>2. fifo' = Tail(fifo) /\ hit_drop_cnt' = hit_drop_cnt + 1 /\ hit_cnt' = hit_cnt /\ words' = words
        /\ nhits' = nhits /\ UNCHANGED <<stream, timeouts, stops, early>>
    BY <1>3 DEF DropHit, builder, memory, thread
  <2>3. fifo' \in Seq(1..MaxHits) /\ Len(fifo') = Len(fifo) - 1 /\ Len(fifo) >= 1
    BY <2>1, <2>2, TailIs
  <2>6. hit_cnt' + hit_drop_cnt' + Len(fifo') <= nhits' /\ words' <= hit_cnt'
    BY <2>2, <2>3, CountFacts, SMTT(30)
  <2>4. Counted'
    BY <2>2, <2>6 DEF Counted, TInv
  <2>5. hit_drop_cnt' \in 0..MaxHits /\ Len(fifo') <= HalfFull + 1
    BY <2>2, <2>3, CountFacts, SMTT(30)
  <2>. QED
    BY <1>8, <1>3, <2>3, <2>4, <2>5 DEF DropHit, TInv, TypeOK, builder, pipe, memory, engine, host, thread
<1>. QED
  BY <1>1, <1>3

\* The builder's half of a clock.
LEMMA BuilderTypes ==
  ASSUME TInv, Builder, UNCHANGED <<nhits, hit_drop_cnt>>
  PROVE  /\ fifo' \in Seq(1..MaxHits) /\ Len(fifo') <= HalfFull + 1
         /\ event_builder_state' \in {"waiting", "write_hits", "write_last_hit", "write_4kb_padding"}
         /\ word_counter' \in 0..2^Width-1 /\ cnt_4kb' \in 0..BlockLen-1
         /\ {done, wren_reg, endofevent_reg}' \subseteq BOOLEAN /\ data_reg' \in Word
         /\ hit_cnt' \in 0..MaxHits /\ words' \in 0..MaxHits
         /\ hit_cnt' + hit_drop_cnt' + Len(fifo') <= nhits' /\ words' <= hit_cnt'
<1>1. Ones \in Word /\ 0 \in 0..2^Width-1 /\ 0 \in 0..MaxHits /\ maxwords \in 0..2^Width-1
      /\ 0 \in 0..BlockLen-1
  BY SizeFacts DEF Ones, Word
<1>2. /\ word_counter \in 0..2^Width-1 /\ cnt_4kb \in 0..BlockLen-1 /\ done \in BOOLEAN /\ wen \in BOOLEAN
      /\ hit_cnt \in 0..MaxHits /\ words \in 0..MaxHits
      /\ event_builder_state \in {"waiting", "write_hits", "write_last_hit", "write_4kb_padding"}
  BY DEF TInv, TypeOK
<1>4. CASE Request
  <2>1. hit_cnt' + hit_drop_cnt' + Len(fifo') <= nhits' /\ words' <= hit_cnt'
    BY <1>4, CountFacts DEF Request
  <2>. QED
    BY <1>1, <1>2, <1>4, <2>1, CountFacts DEF Request, PutNothing
<1>5. CASE WriteHit
  <2>1. fifo # <<>> /\ fifo' = Tail(fifo) /\ hit_cnt' = hit_cnt + 1 /\ words' = words + 1
        /\ nhits' = nhits /\ hit_drop_cnt' = hit_drop_cnt
    BY <1>5 DEF WriteHit, fifo_en
  <2>2. fifo' \in Seq(1..MaxHits) /\ Len(fifo') = Len(fifo) - 1 /\ Len(fifo) >= 1 /\ Head(fifo) \in Word
    BY <2>1, TailIs
  <2>3. {done, wren_reg, endofevent_reg}' \subseteq BOOLEAN /\ data_reg' \in Word
    BY <1>2, <1>5, <2>2 DEF WriteHit, Put
  <2>10. hit_cnt' + hit_drop_cnt' + Len(fifo') <= nhits' /\ words' <= hit_cnt'
    <3>1. \A h, d, l, m \in Nat : l >= 1 /\ h + d + l <= m => (h + 1) + d + (l - 1) <= m
      OBVIOUS
    <3>2. (hit_cnt + 1) + hit_drop_cnt + (Len(fifo) - 1) <= nhits
      BY <2>2, <3>1, CountFacts
    <3>3. words + 1 <= hit_cnt + 1
      BY CountFacts
    <3>. QED
      BY <2>1, <2>2, <3>2, <3>3
  <2>6. hit_cnt' \in 0..MaxHits /\ words' \in 0..MaxHits /\ Len(fifo') <= HalfFull + 1
    BY <2>1, <2>2, CountFacts, SMTT(30)
  <2>7. word_counter' \in 0..2^Width-1 /\ cnt_4kb' \in 0..BlockLen-1
    <3>2. (word_counter - 1) % 2^Width \in 0..2^Width-1
      <4>1. word_counter - 1 \in Int
        BY <1>2, SizeFacts
      <4>. QED
        BY <4>1, SizeFacts, ModAdd
    <3>. QED
      BY <1>1, <1>2, <1>5, <3>2 DEF WriteHit
  <2>8. event_builder_state' \in {"waiting", "write_hits", "write_last_hit", "write_4kb_padding"}
    BY <1>5 DEF WriteHit
  <2>. QED
    BY <2>2, <2>3, <2>6, <2>7, <2>8, <2>10
<1>6. CASE WritePadding
  <2>1. cnt_4kb' \in 0..BlockLen-1
    <3>2. cnt_4kb' = cnt_4kb \/ (cnt_4kb # BlockLen-1 /\ cnt_4kb' = cnt_4kb + 1)
      BY <1>6 DEF WritePadding
    <3>3. BlockLen \in Nat
      BY SizeFacts
    <3>. QED
      BY <1>2, <3>2, <3>3
  <2>2. done' \in BOOLEAN
        /\ event_builder_state' \in {"waiting", "write_hits", "write_last_hit", "write_4kb_padding"}
    BY <1>2, <1>6 DEF WritePadding
  <2>3. word_counter' \in 0..2^Width-1
    BY <1>1, <1>2, <1>6 DEF WritePadding
  <2>4. wren_reg' \in BOOLEAN /\ endofevent_reg' \in BOOLEAN /\ data_reg' \in Word
    BY <1>1, <1>6 DEF WritePadding, Put
  <2>5. UNCHANGED <<fifo, hit_cnt, words>>
    BY <1>6 DEF WritePadding
  <2>. QED
    BY <1>2, <2>1, <2>2, <2>3, <2>4, <2>5, CountFacts
<1>7. CASE Idle
  <2>1. word_counter' \in 0..2^Width-1 /\ done' \in BOOLEAN
    BY <1>1, <1>2, <1>7 DEF Idle
  <2>2. UNCHANGED <<fifo, event_builder_state, cnt_4kb, hit_cnt, words>>
        /\ wren_reg' \in BOOLEAN /\ endofevent_reg' \in BOOLEAN /\ data_reg' \in Word
    BY <1>1, <1>7 DEF Idle, PutNothing
  <2>. QED
    BY <1>2, <2>1, <2>2, CountFacts
<1>. QED
  BY <1>4, <1>5, <1>6, <1>7 DEF Builder

Stored == ram' = IF wren_reg THEN [ram EXCEPT ![memwriteaddr] = data_reg] ELSE ram

\* The half of the engine's memory.
LEMMA StoreTypes ==
  ASSUME TInv, Store \/ Reset, Stored
  PROVE  /\ ram' \in [0..RamLen-1 -> Word] /\ memwriteaddr' \in 0..RamLen-1
         /\ memaddr_last_packet' \in 0..RamLen-1 /\ Aligned'
         /\ {memhalffull, slip, overflow}' \subseteq BOOLEAN
         /\ start_dma' \subseteq 0..RamBlocks-1 /\ enoughdata' \subseteq 0..RamBlocks-1
         /\ memoryblock_dma' \in 0..RamBlocks-1 /\ remote' \in 0..HostBlocks-1
         /\ state' \in {"disabled", "waiting", "running", "controlinfoheader"}
         /\ stream' \in Seq(Word)
<1>1. ram' \in [0..RamLen-1 -> Word]
  BY TypeFacts DEF Stored
<1>2. (memwriteaddr + 1) % RamLen \in 0..RamLen-1
  <2>1. memwriteaddr \in 0..RamLen-1 /\ RamLen \in Nat \ {0}
    BY TypeFacts, SizeFacts
  <2>2. memwriteaddr + 1 \in Int
    BY <2>1
  <2>. QED
    BY <2>1, <2>2, ModAdd
<1>3. CASE Store
  <2>1. memwriteaddr' \in 0..RamLen-1
    BY <1>2, <1>3, TypeFacts DEF Store
  <2>2. enoughdata' \subseteq 0..RamBlocks-1 /\ overflow' \in BOOLEAN /\ start_dma' \subseteq 0..RamBlocks-1
    <3>1. enoughdata \subseteq 0..RamBlocks-1 /\ start_dma \subseteq 0..RamBlocks-1 /\ overflow \in BOOLEAN
      BY DEF TInv, TypeOK
    <3>2. start_dma' = {} \/ start_dma' = {memwriteaddr \div BlockLen}
      BY <1>3 DEF Store
    <3>3. enoughdata' = enoughdata \cup start_dma
          /\ overflow' = (overflow \/ start_dma \cap enoughdata # {})
      BY <1>3 DEF Store
    <3>. QED
      BY <3>1, <3>2, <3>3, TypeFacts
  <2>3. memhalffull' \in BOOLEAN /\ slip' \in BOOLEAN
    <3>1. memhalffull' = half /\ (slip' = slip \/ slip' \in BOOLEAN)
      BY <1>3 DEF Store
    <3>. QED
      BY <3>1, TypeFacts DEF half
  <2>4. stream' \in Seq(Word)
    <3>1. stream' = stream \/ stream' = Append(stream, data_reg)
      BY <1>3 DEF Store
    <3>2. stream \in Seq(Word) /\ data_reg \in Word
      BY TypeFacts
    <3>. QED
      BY <3>1, <3>2, AppendProperties
  <2>5. UNCHANGED <<state, memaddr_last_packet, memoryblock_dma, remote>>
    BY <1>3 DEF Store
  <2>6. Aligned'
    BY <2>5 DEF Aligned, TInv
  <2>. QED
    BY <1>1, <2>1, <2>2, <2>3, <2>4, <2>5, <2>6 DEF TInv, TypeOK
<1>4. CASE Reset
  <2>1. 0 \in 0..RamLen-1 /\ 0 \in 0..RamBlocks-1 /\ 0 \in 0..HostBlocks-1 /\ 0 * BlockLen = 0
    BY SizeFacts
  <2>2. Aligned'
    BY <1>4, <2>1 DEF Aligned, Reset
  <2>3. <<>> \in Seq(Word)
    OBVIOUS
  <2>4. slip' \in BOOLEAN
    BY <1>4, TypeFacts DEF Reset
  <2>. QED
    BY <1>1, <1>4, <2>1, <2>2, <2>3, <2>4 DEF Reset
<1>. QED
  BY <1>3, <1>4

LEMMA ClockTypes == TInv /\ Clock => TInv'
<1>. SUFFICES ASSUME TInv, Clock PROVE TInv'
  OBVIOUS
<1>1. Builder /\ (Store \/ Reset) /\ Stored /\ dma_enabled' = wen
      /\ UNCHANGED <<nhits, hit_drop_cnt, lost, wen, host, running, stops, thread>>
  BY DEF Clock, Stored
<1>2. /\ fifo' \in Seq(1..MaxHits) /\ Len(fifo') <= HalfFull + 1
      /\ event_builder_state' \in {"waiting", "write_hits", "write_last_hit", "write_4kb_padding"}
      /\ word_counter' \in 0..2^Width-1 /\ cnt_4kb' \in 0..BlockLen-1
      /\ {done, wren_reg, endofevent_reg}' \subseteq BOOLEAN /\ data_reg' \in Word
      /\ hit_cnt' \in 0..MaxHits /\ words' \in 0..MaxHits
      /\ hit_cnt' + hit_drop_cnt' + Len(fifo') <= nhits' /\ words' <= hit_cnt'
  BY <1>1, BuilderTypes
<1>3. /\ ram' \in [0..RamLen-1 -> Word] /\ memwriteaddr' \in 0..RamLen-1
      /\ memaddr_last_packet' \in 0..RamLen-1 /\ Aligned'
      /\ {memhalffull, slip, overflow}' \subseteq BOOLEAN
      /\ start_dma' \subseteq 0..RamBlocks-1 /\ enoughdata' \subseteq 0..RamBlocks-1
      /\ memoryblock_dma' \in 0..RamBlocks-1 /\ remote' \in 0..HostBlocks-1
      /\ state' \in {"disabled", "waiting", "running", "controlinfoheader"}
      /\ stream' \in Seq(Word)
  BY <1>1, StoreTypes
<1>4. Counted'
  BY <1>1, <1>2, <1>3 DEF Counted, TInv, thread
<1>5. UNCHANGED <<nhits, hit_drop_cnt, wen, running, dma_buf, pc, outcome, early>> /\ dma_enabled' = wen
  BY <1>1 DEF host, thread
<1>. QED
  BY <1>2, <1>3, <1>4, <1>5 DEF TInv, TypeOK

LEMMA EngineTypes ==
  ASSUME TInv, Engine
  PROVE  TInv'
<1>2. UNCHANGED <<hits, builder, pipe, wen, memory, running, stops, thread>>
  BY DEF Engine, Disabled, TakeBlock, SendBlock, SendControl
<1>4. Counted'
  BY <1>2 DEF hits, builder, memory, thread, Counted, TInv
<1>6. CASE Disabled
  <2>1. Aligned'
    BY <1>6 DEF Disabled, Aligned, TInv
  <2>. QED
    BY <1>2, <1>4, <1>6, <2>1 DEF Disabled, TInv, TypeOK, hits, builder, pipe, thread, memory, host
<1>7. CASE TakeBlock
  <2>1. memoryblock_dma \in 0..RamBlocks-1
    BY DEF TInv, TypeOK
  <2>2. (memoryblock_dma + 1) % RamBlocks \in 0..RamBlocks-1
    <3>1. memoryblock_dma + 1 \in Int
      BY <2>1
    <3>. QED
      BY <3>1, ModAdd, SizeFacts
  <2>3. memoryblock_dma * BlockLen \in 0..RamLen-1
    <3>1. 0 \in 0..BlockLen-1 /\ memoryblock_dma \in Int
      BY <2>1, SizeFacts
    <3>2. memoryblock_dma % RamBlocks = memoryblock_dma
      BY <2>1, ModSmall, SizeFacts
    <3>3. memoryblock_dma * BlockLen + 0 \in 0..RamBlocks * BlockLen - 1
      BY <3>1, <3>2, BlockRange, SizeFacts
    <3>4. memoryblock_dma * BlockLen + 0 = memoryblock_dma * BlockLen
      BY <3>1, SizeFacts
    <3>. QED
      BY <3>3, <3>4 DEF RamLen
  <2>4. enoughdata' \subseteq 0..RamBlocks-1
    BY <1>7 DEF TakeBlock, TInv, TypeOK
  <2>5. Aligned'
    BY <1>7, <2>1 DEF TakeBlock, Aligned
  <2>. QED
    BY <1>2, <1>4, <1>7, <2>5, <2>2, <2>3, <2>4
       DEF TakeBlock, TInv, TypeOK, hits, builder, pipe, thread, memory, host
<1>8. CASE SendBlock
  <2>0. PICK b \in 0..RamBlocks-1 : memaddr_last_packet = b * BlockLen
    BY DEF TInv, Aligned
  <2>1. dma_buf' \in [0..HostLen-1 -> Word]
    <3>. SUFFICES ASSUME NEW a \in 0..HostLen-1, a \div BlockLen = remote
                  PROVE  ram[memaddr_last_packet + (a % BlockLen)] \in Word
      BY <1>8, TypeFacts DEF SendBlock
    <3>1. a % BlockLen \in 0..BlockLen-1
      BY ModAdd, SizeFacts
    <3>2. b % RamBlocks = b /\ b \in Int
      BY ModSmall, SizeFacts
    <3>3. b * BlockLen + (a % BlockLen) \in 0..RamLen-1
      BY <3>1, <3>2, BlockRange, SizeFacts DEF RamLen
    <3>. QED
      BY <2>0, <3>3, TypeFacts
  <2>2. (memaddr_last_packet + BlockLen) % RamLen = ((b + 1) % RamBlocks) * BlockLen
    <3>1. b + 1 \in Int /\ 0 \in 0..BlockLen-1
      BY SizeFacts
    <3>2. ((b + 1) * BlockLen + 0) % RamLen = ((b + 1) % RamBlocks) * BlockLen + 0
      BY <3>1, BlockAddress, SizeFacts DEF RamLen
    <3>3. b * BlockLen + BlockLen = (b + 1) * BlockLen + 0
      BY SizeFacts
    <3>4. (b + 1) % RamBlocks \in 0..RamBlocks-1
      BY <3>1, ModAdd, SizeFacts
    <3>5. ((b + 1) % RamBlocks) * BlockLen \in Int
      BY <3>4, SizeFacts
    <3>. QED
      BY <2>0, <3>2, <3>3, <3>5
  <2>3. (b + 1) % RamBlocks \in 0..RamBlocks-1
    <3>1. b + 1 \in Int
      OBVIOUS
    <3>. QED
      BY <3>1, ModAdd, SizeFacts
  <2>4. Aligned'
    BY <1>8, <2>2, <2>3 DEF SendBlock, Aligned
  <2>5. (memaddr_last_packet + BlockLen) % RamLen \in 0..RamLen-1
    <3>1. memaddr_last_packet \in 0..RamLen-1
      BY TypeFacts
    <3>2. memaddr_last_packet + BlockLen \in Int
      BY <3>1, SizeFacts
    <3>. QED
      BY <3>2, ModAdd, SizeFacts
  <2>. QED
    BY <1>2, <1>4, <1>8, <2>4, <2>5, <2>1
       DEF SendBlock, TInv, TypeOK, hits, builder, pipe, thread, memory
<1>9. CASE SendControl
  <2>1. (remote + 1) % HostBlocks \in 0..HostBlocks-1
    <3>1. remote \in 0..HostBlocks-1
      BY DEF TInv, TypeOK
    <3>2. remote + 1 \in Int
      BY <3>1
    <3>. QED
      BY <3>2, ModAdd, SizeFacts
  <2>2. Aligned'
    BY <1>9 DEF SendControl, Aligned, TInv
  <2>. QED
    BY <1>2, <1>4, <1>9, <2>2, <2>1 DEF SendControl, TInv, TypeOK, hits, builder, pipe, thread, memory
<1>. QED
  BY <1>6, <1>7, <1>8, <1>9 DEF Engine

LEMMA FilledType ==
  ASSUME TInv
  PROVE  Filled \in [0..HostLen-1 -> Word]
<1>1. Ones \in Word
  BY SizeFacts DEF Ones, Word
<1>. QED
  BY <1>1, TypeFacts DEF Filled

\* The thread and the main thread count what they disturb.
LEMMA TallyTypes ==
  ASSUME TInv, Thread \/ EndRun \/ BeginRun
  PROVE  /\ timeouts' \in Nat /\ stops' \in Nat /\ early' \in 0..MaxDisturbed
         /\ timeouts' + stops' + early' <= MaxDisturbed
<1>1. /\ timeouts \in Nat /\ stops \in Nat /\ early \in Nat /\ MaxDisturbed \in Nat
      /\ timeouts + stops + early <= MaxDisturbed
  BY TallyFacts
<1>2. \/ UNCHANGED <<timeouts, stops, early>>
      \/ /\ timeouts + stops + early < MaxDisturbed
         /\ \/ timeouts' = timeouts + 1 /\ UNCHANGED <<stops, early>>
            \/ stops' = stops + 1 /\ UNCHANGED <<timeouts, early>>
            \/ early' = early + 1 /\ UNCHANGED <<timeouts, stops>>
  <2>1. ASSUME NEW b, Early(b), UNCHANGED <<timeouts, stops>>
        PROVE  \/ UNCHANGED <<timeouts, stops, early>>
               \/ timeouts + stops + early < MaxDisturbed /\ early' = early + 1
    BY <1>1, <2>1 DEF Early, Disturbable
  <2>2. CASE Fill \/ EnableReadout \/ Copy
    BY <2>1, <2>2 DEF Fill, EnableReadout, Copy
  <2>3. CASE Disable
    <3>1. CASE done
      BY <1>1, <2>1, <2>3, <3>1 DEF Disable
    <3>2. CASE ~done
      <4>1. UNCHANGED <<early, stops>>
        BY <1>1, <2>3, <3>2 DEF Disable, Early
      <4>2. outcome' = "timeout" => timeouts + stops + early < MaxDisturbed
        BY <2>3, <3>2 DEF Disable, Disturbable
      <4>. QED
        BY <2>3, <4>1, <4>2 DEF Disable
    <3>. QED
      BY <3>1, <3>2
  <2>4. CASE EndRun \/ BeginRun
    BY <2>4 DEF EndRun, BeginRun, Disturbable, thread
  <2>. QED
    BY <2>2, <2>3, <2>4 DEF Thread
<1>. QED
  BY <1>1, <1>2

LEMMA ThreadTypes ==
  ASSUME TInv, Thread \/ EndRun \/ BeginRun
  PROVE  TInv'
<1>1. /\ UNCHANGED <<pipe, memory, engine, nhits>>
      /\ Filled \in [0..HostLen-1 -> Word]
  BY FilledType DEF Thread, Fill, EnableReadout, Disable, Copy, EndRun, BeginRun, Firmware, hits
<1>2. Aligned'
  BY <1>1 DEF Aligned, TInv, engine
<1>3. 0 \in 0..2^Width-1 /\ 0 \in 0..MaxHits /\ 0 \in 0..BlockLen-1
  BY SizeFacts
<1>4. <<>> \in Seq(1..MaxHits) /\ Len(<<>>) = 0 /\ 0 <= HalfFull + 1
  BY SizeFacts
<1>9. /\ timeouts' \in Nat /\ stops' \in Nat /\ early' \in 0..MaxDisturbed
      /\ timeouts' + stops' + early' <= MaxDisturbed
  BY TallyTypes
<1>5. CASE Fill \/ EnableReadout \/ Disable
  <2>1. Counted'
    BY <1>5, <1>9 DEF Fill, EnableReadout, Disable, Firmware, hits, builder, memory, TInv, Counted
  <2>2. outcome' \in {"none", "done", "timeout", "stopped"}
    BY <1>5 DEF Fill, EnableReadout, Disable, TInv, TypeOK
  <2>3. dma_buf' \in [0..HostLen-1 -> Word]
    BY <1>1, <1>5 DEF Fill, EnableReadout, Disable, TInv, TypeOK, host
  <2>. QED
    BY <1>1, <1>2, <1>3, <1>5, <1>9, <2>1, <2>2, <2>3
       DEF Fill, EnableReadout, Disable, Firmware, hits, builder, pipe, memory, engine, TInv, TypeOK
<1>6. CASE Copy
  <2>1. Counted'
    BY <1>6, <1>9 DEF Copy, Firmware, hits, builder, memory, TInv, Counted
  <2>. QED
    BY <1>1, <1>2, <1>6, <1>9, <2>1 DEF Copy, Firmware, hits, builder, pipe, memory, engine, TInv, TypeOK, host
<1>7. CASE EndRun
  <2>1. Counted'
    BY <1>7, <1>9 DEF EndRun, hits, builder, memory, TInv, Counted
  <2>. QED
    BY <1>1, <1>2, <1>7, <1>9, <2>1 DEF EndRun, hits, builder, pipe, memory, engine, host, thread, TInv, TypeOK
<1>8. CASE BeginRun
  <2>1. Counted'
    BY <1>1, <1>4, <1>8, <1>9, CountFacts DEF BeginRun, TInv, Counted, memory
  <2>. QED
    BY <1>1, <1>2, <1>3, <1>4, <1>8, <1>9, <2>1 DEF BeginRun, pipe, memory, engine, thread, TInv, TypeOK
<1>. QED
  BY <1>5, <1>6, <1>7, <1>8 DEF Thread

LEMMA TypesNext == TInv /\ [Next]_vars => TInv'
<1>. SUFFICES ASSUME TInv, [Next]_vars PROVE TInv'
  OBVIOUS
<1>1. CASE UNCHANGED vars
  BY <1>1 DEF vars, hits, builder, pipe, memory, engine, host, thread, TInv, TypeOK, Counted, Aligned
<1>. QED
  BY <1>1, HitTypes, ClockTypes, EngineTypes, ThreadTypes DEF Next

-----------------------------------------------------------------------------
(* Words and blocks are counted since the engine was disabled: block i     *)
(* begins at word At(i).                                                   *)

At(i) == i * BlockLen
RamAddr(a) == a % RamLen
RamBlock(i) == i % RamBlocks
HostBlock(i) == i % HostBlocks

LEMMA AtFacts ==
  /\ At(0) = 0
  /\ \A i \in Nat : At(i) \in Nat /\ At(i + 1) = At(i) + BlockLen
  /\ \A i, j \in Nat : i <= j => At(i) <= At(j)
<1>1. BlockLen \in Nat \ {0}
  BY SizeFacts
<1>2. \A i \in Nat : At(i) \in Nat /\ At(i) = BlockLen * i
  BY <1>1, MulMono DEF At
<1>3. \A i \in Nat : At(i + 1) = At(i) + BlockLen
  BY <1>1 DEF At
<1>4. \A i, j \in Nat : i <= j => At(i) <= At(j)
  <2>. SUFFICES ASSUME NEW i \in Nat, NEW j \in Nat, i <= j PROVE At(i) <= At(j)
    OBVIOUS
  <2>1. BlockLen * i <= BlockLen * j
    BY <1>1, MulMono
  <2>. QED
    BY <1>2, <2>1
<1>5. At(0) = 0
  BY <1>1 DEF At
<1>. QED
  BY <1>2, <1>3, <1>4, <1>5

\* A block that begins before another one also ends before it begins.
LEMMA AtLess ==
  ASSUME NEW i \in Nat, NEW j \in Nat, At(i) < At(j)
  PROVE  i < j /\ At(i + 1) <= At(j)
<1>1. i < j
  <2>. SUFFICES ASSUME j <= i PROVE FALSE
    OBVIOUS
  <2>. QED
    BY AtFacts
<1>2. i + 1 \in Nat /\ i + 1 <= j
  BY <1>1
<1>. QED
  BY <1>1, <1>2, AtFacts

\* Each word is in a block.
LEMMA WordInBlock ==
  ASSUME NEW a \in Nat
  PROVE  \E q \in Nat, r \in 0..BlockLen-1 : a = At(q) + r
<1>1. PICK q \in Int, r \in 0..BlockLen-1 : a = BlockLen * q + r
  <2>1. BlockLen \in Nat \ {0} /\ a \in Int
    BY SizeFacts
  <2>. QED
    BY <2>1, DivMod
<1>2. q >= 0
  <2>. SUFFICES ASSUME q <= 0 - 1 PROVE FALSE
    OBVIOUS
  <2>1. BlockLen * 1 <= BlockLen * (0 - q) /\ BlockLen * (0 - q) = 0 - (BlockLen * q)
    BY MulMono, SizeFacts
  <2>2. PICK x \in Int : x = BlockLen * q
    <3>1. BlockLen * q \in Int
      BY SizeFacts
    <3>. QED
      BY <3>1
  <2>3. BlockLen \in Nat /\ r \in Int /\ r < BlockLen
    BY SizeFacts
  <2>. QED
    BY <1>1, <2>1, <2>2, <2>3
<1>3. q \in Nat /\ BlockLen * q = At(q)
  BY <1>2, SizeFacts DEF At
<1>. QED
  BY <1>1, <1>3

LEMMA RamFacts ==
  /\ \A a \in Nat : RamAddr(a) \in 0..RamLen-1 /\ (RamAddr(a) + 1) % RamLen = RamAddr(a + 1)
  /\ \A a, n \in Nat : /\ RamAddr(a) + n < RamLen => RamAddr(a + n) = RamAddr(a) + n
                       /\ RamAddr(a) + n = RamLen => RamAddr(a + n) = 0
  /\ \A a, b \in Nat : a < b /\ b - a < RamLen => RamAddr(a) # RamAddr(b)
  /\ RamAddr(0) = 0
<1>1. RamLen \in Nat \ {0}
  BY SizeFacts
<1>2. ASSUME NEW a \in Nat, NEW n \in Nat
      PROVE  (RamAddr(a) + n) % RamLen = RamAddr(a + n) /\ RamAddr(a) \in 0..RamLen-1
  <2>1. a \in Int /\ n \in Int
    OBVIOUS
  <2>. QED
    BY <1>1, <2>1, ModAdd DEF RamAddr
<1>3. ASSUME NEW a \in Nat, NEW n \in Nat, RamAddr(a) + n < RamLen
      PROVE  RamAddr(a + n) = RamAddr(a) + n
  <2>1. RamAddr(a) + n \in 0..RamLen-1
    <3>1. RamAddr(a) \in 0..RamLen-1
      BY <1>2
    <3>. QED
      BY <1>1, <1>3, <3>1
  <2>2. (RamAddr(a) + n) % RamLen = RamAddr(a) + n
    BY <1>1, <2>1, ModSmall
  <2>. QED
    BY <1>2, <2>2
<1>4. ASSUME NEW a \in Nat, NEW n \in Nat, RamAddr(a) + n = RamLen
      PROVE  RamAddr(a + n) = 0
  <2>1. RamLen = RamLen * 1 + 0 /\ 0 \in 0..RamLen-1
    BY <1>1
  <2>2. RamLen % RamLen = 0
    BY <1>1, <2>1, DivModIs
  <2>. QED
    BY <1>2, <1>4, <2>2
<1>5. \A a, b \in Nat : a < b /\ b - a < RamLen => RamAddr(a) # RamAddr(b)
  BY <1>1, Apart DEF RamAddr
<1>6. RamAddr(0) = 0
  BY <1>1, ModSmall DEF RamAddr
<1>. QED
  BY <1>2, <1>3, <1>4, <1>5, <1>6

LEMMA BlockWords ==
  ASSUME NEW i \in Int, NEW r \in 0..BlockLen-1
  PROVE  /\ (i * BlockLen + r) % (RamBlocks * BlockLen) = (i % RamBlocks) * BlockLen + r
         /\ ((i % RamBlocks) * BlockLen + r) \div BlockLen = i % RamBlocks
<1>1. BlockLen \in Nat \ {0} /\ RamBlocks \in Nat \ {0}
  BY SizeFacts
<1>2. (i * BlockLen + r) % (RamBlocks * BlockLen) = (i % RamBlocks) * BlockLen + r
  BY <1>1, BlockAddress
<1>3. ((i % RamBlocks) * BlockLen + r) \div BlockLen = i % RamBlocks
  BY <1>1, BlockAddress
<1>. QED
  BY <1>2, <1>3

LEMMA BlockFacts ==
  /\ \A i \in Nat : RamBlock(i) \in 0..RamBlocks-1 /\ At(RamBlock(i)) = RamAddr(At(i))
  /\ \A i, n \in Nat : (RamBlock(i) + n) % RamBlocks = RamBlock(i + n)
  /\ \A i, j \in Nat : i < j /\ j - i < RamBlocks => RamBlock(i) # RamBlock(j)
  /\ \A i, j \in Nat : i <= j /\ j - i < RamBlocks => (RamBlock(j) - RamBlock(i)) % RamBlocks = j - i
  /\ RamBlock(0) = 0
<1>1. RamBlocks \in Nat \ {0} /\ BlockLen \in Nat \ {0} /\ 0 \in 0..BlockLen-1
  BY SizeFacts
<1>2. ASSUME NEW i \in Nat, NEW n \in Nat
      PROVE  (RamBlock(i) + n) % RamBlocks = RamBlock(i + n) /\ RamBlock(i) \in 0..RamBlocks-1
  <2>1. i \in Int /\ n \in Int
    OBVIOUS
  <2>. QED
    BY <1>1, <2>1, ModAdd DEF RamBlock
<1>3. ASSUME NEW i \in Nat, NEW j \in Nat, i < j, j - i < RamBlocks
      PROVE  RamBlock(i) # RamBlock(j)
  <2>1. i \in Int /\ j \in Int
    OBVIOUS
  <2>. QED
    BY <1>1, <1>3, <2>1, Apart DEF RamBlock
<1>4. ASSUME NEW i \in Nat, NEW j \in Nat, i <= j, j - i < RamBlocks
      PROVE  (RamBlock(j) - RamBlock(i)) % RamBlocks = j - i
  <2>1. j - i \in 0..RamBlocks-1 /\ i + (j - i) = j
    BY <1>1, <1>4
  <2>2. i \in Int
    OBVIOUS
  <2>3. (((i + (j - i)) % RamBlocks) - (i % RamBlocks)) % RamBlocks = j - i
    BY <1>1, <2>1, <2>2, ModDiff
  <2>. QED
    BY <2>1, <2>3 DEF RamBlock
<1>5. ASSUME NEW i \in Nat
      PROVE  At(RamBlock(i)) = RamAddr(At(i))
  <2>0. i \in Int
    OBVIOUS
  <2>1. (i * BlockLen + 0) % (RamBlocks * BlockLen) = (i % RamBlocks) * BlockLen + 0
    BY <1>1, <2>0, BlockWords
  <2>2. i * BlockLen + 0 = i * BlockLen
    BY <1>1
  <2>3. (i % RamBlocks) \in Int
    BY <1>1
  <2>4. (i % RamBlocks) * BlockLen + 0 = (i % RamBlocks) * BlockLen
    BY <1>1, <2>3
  <2>. QED
    BY <2>1, <2>2, <2>4 DEF At, RamAddr, RamBlock, RamLen
<1>6. RamBlock(0) = 0
  BY <1>1, ModSmall DEF RamBlock
<1>. QED
  BY <1>2, <1>3, <1>4, <1>5, <1>6

\* The place of a word of a block in the memory.
LEMMA WordAddress ==
  ASSUME NEW i \in Nat, NEW r \in 0..BlockLen-1
  PROVE  RamAddr(At(i) + r) = RamAddr(At(i)) + r /\ RamAddr(At(i) + r) \div BlockLen = RamBlock(i)
<1>1. RamBlocks \in Nat \ {0} /\ BlockLen \in Nat \ {0}
  BY SizeFacts
<1>2. /\ (i * BlockLen + r) % (RamBlocks * BlockLen) = (i % RamBlocks) * BlockLen + r
      /\ ((i % RamBlocks) * BlockLen + r) \div BlockLen = i % RamBlocks
  <2>1. i \in Int
    OBVIOUS
  <2>. QED
    BY <2>1, BlockWords
<1>3. RamAddr(At(i) + r) = At(RamBlock(i)) + r /\ (At(RamBlock(i)) + r) \div BlockLen = RamBlock(i)
  BY <1>2 DEF At, RamAddr, RamBlock, RamLen
<1>. QED
  BY <1>3, BlockFacts

\* The place of a word up to a lap further on.
LEMMA Around ==
  ASSUME NEW a \in Nat, NEW n \in Nat, n < RamLen
  PROVE  RamAddr(a + n) = IF RamAddr(a) + n < RamLen THEN RamAddr(a) + n ELSE RamAddr(a) + n - RamLen
<1>1. RamLen \in Nat \ {0} /\ RamAddr(a) \in 0..RamLen-1
  BY SizeFacts, RamFacts
<1>2. CASE RamAddr(a) + n < RamLen
  BY <1>2, RamFacts
<1>3. CASE ~(RamAddr(a) + n < RamLen)
  <2>1. PICK y \in Nat, L \in Nat \ {0} : y = RamAddr(a) /\ L = RamLen /\ y < L
    BY <1>1
  <2>2. PICK x \in Int : x = y + n
    BY <2>1
  <2>3. PICK r \in Int : r = x - L
    BY <2>1, <2>2
  <2>5. x = L * 1 + r /\ 1 \in Int /\ r \in 0..L-1
    BY <1>3, <2>1, <2>2, <2>3
  <2>6. x % L = r
    BY <2>1, <2>2, <2>5, DivModIs, ZenonT(30)
  <2>4. (RamAddr(a) + n) % RamLen = RamAddr(a + n)
    <3>1. a \in Int /\ n \in Int
      OBVIOUS
    <3>. QED
      BY <1>1, <3>1, ModAdd DEF RamAddr
  <2>. QED
    BY <1>3, <2>1, <2>2, <2>3, <2>4, <2>6
<1>. QED
  BY <1>2, <1>3

Half == RamLen \div 2

\* Half the memory is a number of blocks; two blocks less than a lap apart are different.
LEMMA HalfFacts ==
  /\ Half \in Nat /\ RamLen = Half + Half /\ Half >= BlockLen /\ BlockLen > 2
  /\ \E h \in Nat \ {0} : Half = At(h)
  /\ \A i, j \in Nat : i < j /\ At(j) - At(i) < RamLen => j - i < RamBlocks
<1>1. RamLen \in Nat \ {0} /\ RamBlocks \in Nat \ {0} /\ BlockLen \in Nat /\ BlockLen > 2 /\ RamBlocks % 2 = 0
  BY SizeFacts, SizeAssumption
<1>2. PICK h \in Nat \ {0} : RamBlocks = h + h
  <2>1. PICK q \in Int, r \in 0..1 : RamBlocks = 2 * q + r /\ r = RamBlocks % 2
    <3>1. RamBlocks \in Int /\ 2 \in Nat \ {0} /\ 2 - 1 = 1
      BY <1>1
    <3>. QED
      BY <3>1, DivMod
  <2>2. q \in Nat \ {0} /\ RamBlocks = q + q
    BY <1>1, <2>1
  <2>. QED
    BY <2>2
<1>3. RamLen = At(h) + At(h) /\ At(h) \in Nat /\ At(h) >= BlockLen
  <2>1. At(h) \in Nat /\ At(1) <= At(h) /\ At(1) = BlockLen
    BY <1>1, <1>2, AtFacts DEF At
  <2>2. (h + h) * BlockLen = h * BlockLen + h * BlockLen
    BY <1>1, <1>2
  <2>. QED
    BY <1>1, <1>2, <2>1, <2>2 DEF RamLen, At
<1>4. Half = At(h)
  <2>1. \A x \in Nat : (x + x) \div 2 = x
    OBVIOUS
  <2>. QED
    BY <1>3, <2>1 DEF Half
<1>5. ASSUME NEW i \in Nat, NEW j \in Nat, i < j, At(j) - At(i) < RamLen, RamBlocks <= j - i
      PROVE  FALSE
  <2>1. i + RamBlocks \in Nat /\ i + RamBlocks <= j
    BY <1>5, SizeFacts
  <2>2. At(i + RamBlocks) <= At(j) /\ At(i) \in Nat /\ At(j) \in Nat
    BY <2>1, AtFacts
  <2>3. At(i + RamBlocks) = At(i) + RamLen
    BY SizeFacts DEF At, RamLen
  <2>. QED
    BY <1>1, <1>5, <2>2, <2>3
<1>. QED
  BY <1>1, <1>2, <1>3, <1>4, <1>5

LEMMA HostFacts ==
  /\ \A i \in Nat : HostBlock(i) \in 0..HostBlocks-1 /\ (HostBlock(i) + 1) % HostBlocks = HostBlock(i + 1)
  /\ HostBlock(0) = 0
<1>1. HostBlocks \in Nat \ {0}
  BY SizeFacts
<1>2. ASSUME NEW i \in Nat
      PROVE  (HostBlock(i) + 1) % HostBlocks = HostBlock(i + 1) /\ HostBlock(i) \in 0..HostBlocks-1
  <2>1. i \in Int /\ 1 \in Int
    OBVIOUS
  <2>. QED
    BY <1>1, <2>1, ModAdd DEF HostBlock
<1>3. HostBlock(0) = 0
  BY <1>1, ModSmall DEF HostBlock
<1>. QED
  BY <1>2, <1>3

-----------------------------------------------------------------------------
(* The memory ring when k blocks have been sent since the engine was       *)
(* disabled. Back pressure comes two words late: at most two words more    *)
(* than half the memory are written and not sent. When the write address   *)
(* has gone round, the last packet lies behind the half, and back pressure *)
(* stays until it has gone round, too.                                     *)

Taken == IF state = "running" THEN 1 ELSE 0
Unnoted == IF state = "controlinfoheader" THEN 1 ELSE 0
InFlight == IF wren_reg THEN 1 ELSE 0
Fresh == IF start_dma = {} THEN 0 ELSE 1
Complete(n, m) == {i \in Nat : n <= i /\ At(i + 1) <= m}
Span(k) ==
  /\ memwriteaddr = RamAddr(Made) /\ memaddr_last_packet = RamAddr(At(k))
  /\ At(k + Taken) <= Made
Room(k) ==
  /\ Made - At(k) + InFlight <= Half + 2
  /\ ~memhalffull => Made - At(k) + InFlight <= Half + 1
  /\ memwriteaddr < memaddr_last_packet =>
       /\ memaddr_last_packet >= Half + BlockLen
       /\ IF memhalffull THEN memwriteaddr + InFlight <= 2 ELSE memwriteaddr = 0
Signalled(k) ==
  /\ memoryblock_dma = RamBlock(k + Taken) /\ ~overflow
  /\ enoughdata = {RamBlock(i) : i \in Complete(k + Taken, Made - Fresh)}
  /\ start_dma # {} =>
       \E i \in Nat : k + Taken <= i /\ At(i + 1) = Made /\ start_dma = {RamBlock(i)}
Noted(k) == Unnoted <= k /\ remote = HostBlock(k - Unnoted)
Ring(k) == Span(k) /\ Room(k) /\ Signalled(k) /\ Noted(k)

LEMMA NoneComplete == Complete(0, 0) = {}
<1>. SUFFICES ASSUME NEW i \in Nat, At(i + 1) <= 0 PROVE FALSE
  BY DEF Complete
<1>1. At(i + 1) = At(i) + BlockLen /\ At(i) \in Nat
  BY AtFacts
<1>. QED
  BY <1>1, SizeFacts

\* A memory without words.
LEMMA RingEmpty ==
  ASSUME stream = <<>>, memwriteaddr = 0, memaddr_last_packet = 0, memoryblock_dma = 0,
         enoughdata = {}, start_dma = {}, ~overflow, remote = 0, ~memhalffull,
         state # "running", state # "controlinfoheader"
  PROVE  Ring(0)
<1>1. Made = 0 /\ Taken = 0 /\ Unnoted = 0 /\ Fresh = 0 /\ InFlight \in {0, 1}
  BY DEF Made, Taken, Unnoted, Fresh, InFlight
<1>2. Half \in Nat /\ RamAddr(0) = 0 /\ RamBlock(0) = 0 /\ HostBlock(0) = 0 /\ At(0) = 0
  BY AtFacts, RamFacts, BlockFacts, HostFacts, HalfFacts
<1>3. Made - At(0) + InFlight <= Half + 1 /\ Made - At(0) + InFlight <= Half + 2
  BY <1>1, <1>2
<1>4. Room(0)
  BY <1>3 DEF Room
<1>. QED
  BY <1>1, <1>2, <1>4, NoneComplete DEF Ring, Span, Signalled, Noted

LEMMA RingInit == Init => Ring(0)
<1>. SUFFICES ASSUME Init PROVE Ring(0)
  OBVIOUS
<1>. QED
  BY RingEmpty DEF Init

LEMMA SpanFacts ==
  ASSUME TInv, NEW k \in Nat, Ring(k)
  PROVE  /\ At(k) \in Nat /\ Made \in Nat /\ At(k) <= Made /\ k + Taken \in Nat
         /\ Made - At(k) \in Nat /\ Made - At(k) < RamLen /\ InFlight \in {0, 1}
         /\ memwriteaddr = IF memaddr_last_packet + (Made - At(k)) < RamLen
                           THEN memaddr_last_packet + (Made - At(k))
                           ELSE memaddr_last_packet + (Made - At(k)) - RamLen
         /\ memaddr_last_packet \in 0..RamLen-1 /\ RamLen \in Nat
<1>1. k + Taken \in Nat /\ k <= k + Taken /\ InFlight \in {0, 1}
  BY DEF Taken, InFlight
<1>2. At(k) <= At(k + Taken) /\ At(k) \in Nat /\ At(k + Taken) \in Nat
  BY <1>1, AtFacts
<1>3. Made \in Nat /\ At(k) <= Made
  BY <1>2, TypeFacts DEF Ring, Span
<1>4. PICK d \in Nat : d = Made - At(k)
  BY <1>2, <1>3
<1>5. d < RamLen
  <2>1. d + InFlight <= Half + 2
    BY <1>4 DEF Ring, Room
  <2>. QED
    BY <1>1, <2>1, HalfFacts, SizeFacts
<1>6. memwriteaddr = RamAddr(At(k) + d) /\ memaddr_last_packet = RamAddr(At(k))
  <2>1. At(k) + d = Made
    BY <1>2, <1>3, <1>4
  <2>. QED
    BY <2>1 DEF Ring, Span
<1>7. RamAddr(At(k) + d) = IF RamAddr(At(k)) + d < RamLen THEN RamAddr(At(k)) + d
                           ELSE RamAddr(At(k)) + d - RamLen
  BY <1>2, <1>5, Around
<1>8. memaddr_last_packet \in 0..RamLen-1 /\ RamLen \in Nat
  BY TypeFacts, SizeFacts
<1>. QED
  BY <1>1, <1>2, <1>3, <1>4, <1>5, <1>6, <1>7, <1>8

\* The difference of the addresses tells the words that wait, or that the address went round.
LEMMA DiffIs ==
  ASSUME TInv, NEW k \in Nat, Ring(k)
  PROVE  /\ memwriteaddr >= memaddr_last_packet => diff = Made - At(k)
         /\ memwriteaddr < memaddr_last_packet => diff >= Half
         /\ diff \in Nat
<1>1. PICK d \in Nat, L \in Nat, m \in Nat :
        d = Made - At(k) /\ L = memaddr_last_packet /\ m = memwriteaddr
  BY SpanFacts, TypeFacts, SMTT(30)
<1>2. m = (IF L + d < RamLen THEN L + d ELSE L + d - RamLen) /\ d < RamLen /\ RamLen \in Nat
  BY <1>1, SpanFacts
<1>3. CASE m >= L
  <2>1. m = L + d
    BY <1>2, <1>3
  <2>2. diff = m - L
    BY <1>1, <1>3 DEF diff
  <2>. QED
    BY <1>1, <1>3, <2>1, <2>2
<1>4. CASE m < L
  <2>1. diff = L - m
    BY <1>1, <1>4 DEF diff
  <2>2. L >= Half + BlockLen /\ m <= 2
    <3>1. L >= Half + BlockLen /\ IF memhalffull THEN m + InFlight <= 2 ELSE m = 0
      BY <1>1, <1>4 DEF Ring, Room
    <3>2. InFlight \in {0, 1}
      BY DEF InFlight
    <3>. QED
      BY <3>1, <3>2
  <2>. QED
    BY <1>1, <1>4, <2>1, <2>2, HalfFacts, SizeFacts
<1>. QED
  BY <1>1, <1>3, <1>4

LEMMA BuilderPuts == Builder => wren_reg' \in BOOLEAN /\ (wren_reg' => ~memhalffull)
BY DEF Builder, Request, WriteHit, WritePadding, Idle, Put, PutNothing, fifo_en

\* When the write address goes round, the last packet lies behind the half.
LEMMA GoesRound ==
  ASSUME TInv, NEW k \in Nat, Ring(k), memwriteaddr >= memaddr_last_packet,
         wren_reg, memwriteaddr + 1 = RamLen, memaddr_last_packet # Half
  PROVE  memaddr_last_packet >= Half + BlockLen
<1>1. PICK d \in Nat, L \in Nat : d = Made - At(k) /\ L = memaddr_last_packet
  BY SpanFacts
<1>2. d + 1 <= Half + 2 /\ L + d + 1 = RamLen
  <2>1. d + 1 <= Half + 2
    BY <1>1 DEF Ring, Room, InFlight
  <2>. QED
    BY <1>1, <2>1, SpanFacts
<1>3. L >= Half - 2
  BY <1>1, <1>2, HalfFacts
<1>4. PICK h \in Nat \ {0} : Half = At(h)
  BY HalfFacts
<1>5. PICK b \in Nat : L = At(b)
  <2>1. PICK b \in 0..RamBlocks-1 : L = b * BlockLen
    BY <1>1 DEF TInv, Aligned
  <2>. QED
    BY <2>1, SizeFacts DEF At
<1>6. h <= b
  <2>. SUFFICES ASSUME b < h PROVE FALSE
    BY <1>4, <1>5
  <2>1. b + 1 \in Nat /\ b + 1 <= h
    BY <1>4, <1>5
  <2>2. At(b + 1) <= At(h) /\ At(b + 1) = At(b) + BlockLen
    BY <1>4, <1>5, <2>1, AtFacts
  <2>. QED
    BY <1>1, <1>3, <1>4, <1>5, <2>2, HalfFacts, SizeFacts
<1>7. h # b
  BY <1>1, <1>4, <1>5
<1>8. h + 1 \in Nat /\ h + 1 <= b
  BY <1>4, <1>5, <1>6, <1>7
<1>9. At(h + 1) <= At(b) /\ At(h + 1) = At(h) + BlockLen
  BY <1>4, <1>5, <1>8, AtFacts
<1>. QED
  BY <1>1, <1>4, <1>5, <1>9

\* Back pressure: what is written and on its way.
LEMMA StoreRoom ==
  ASSUME TInv, NEW k \in Nat, Ring(k), Store, Builder, ~slip'
  PROVE  Room(k)' /\ Made' = Made + InFlight /\ memwriteaddr' = RamAddr(Made')
<1>0. PICK d \in Nat, f \in {0, 1}, g \in {0, 1} : d = Made - At(k) /\ f = InFlight /\ g = InFlight'
  <2>1. InFlight' \in {0, 1}
    BY DEF InFlight
  <2>. QED
    BY <2>1, SpanFacts
<1>a. PICK L \in Nat, m \in Nat : L = memaddr_last_packet /\ m = memwriteaddr /\ L < RamLen /\ m < RamLen
  <2>1. memaddr_last_packet \in 0..RamLen-1 /\ memwriteaddr \in 0..RamLen-1 /\ RamLen \in Nat
    BY TypeFacts, SizeFacts
  <2>. QED
    BY <2>1
<1>1. /\ d = Made - At(k) /\ L = memaddr_last_packet /\ m = memwriteaddr
      /\ f = InFlight /\ g = InFlight'
  BY <1>0, <1>a
<1>2. /\ d < RamLen /\ RamLen \in Nat /\ L < RamLen /\ m < RamLen
      /\ m = IF L + d < RamLen THEN L + d ELSE L + d - RamLen
  <2>1. d < RamLen /\ RamLen \in Nat
    BY <1>1, SpanFacts
  <2>2. m = IF L + d < RamLen THEN L + d ELSE L + d - RamLen
    BY <1>1, SpanFacts, Zenon
  <2>. QED
    BY <1>a, <2>1, <2>2
<1>3. /\ d + f <= Half + 2 /\ (~memhalffull => d + f <= Half + 1)
      /\ m < L => L >= Half + BlockLen /\ IF memhalffull THEN m + f <= 2 ELSE m = 0
  BY <1>1 DEF Ring, Room
<1>4. g = 1 => ~memhalffull
  BY <1>1, BuilderPuts DEF InFlight
<1>5. memaddr_last_packet' = L /\ (memhalffull' <=> diff >= Half)
  BY <1>1 DEF Store, half, Half
<1>6. Made' = Made + f /\ Made \in Nat
  <2>1. CASE wren_reg
    <3>1. stream' = Append(stream, data_reg)
      BY <2>1 DEF Store
    <3>. QED
      BY <1>1, <2>1, <3>1, TypeFacts DEF Made, InFlight
  <2>2. CASE ~wren_reg
    <3>1. stream' = stream
      BY <2>2 DEF Store
    <3>. QED
      BY <1>1, <2>2, <3>1, TypeFacts DEF Made, InFlight
  <2>. QED
    BY <2>1, <2>2
<1>7. memwriteaddr' = (IF f = 1 THEN (m + 1) % RamLen ELSE m) /\ memwriteaddr' = RamAddr(Made')
  <2>1. m = RamAddr(Made)
    BY <1>1 DEF Ring, Span
  <2>2. (RamAddr(Made) + 1) % RamLen = RamAddr(Made + 1)
    BY <1>6, RamFacts
  <2>3. CASE wren_reg
    BY <1>1, <1>6, <2>1, <2>2, <2>3 DEF Store, InFlight
  <2>4. CASE ~wren_reg
    BY <1>1, <1>6, <2>1, <2>4 DEF Store, InFlight
  <2>. QED
    BY <2>3, <2>4
<1>8. f = 1 => memwriteaddr' = IF m + 1 = RamLen THEN 0 ELSE m + 1
  <2>. SUFFICES ASSUME f = 1 PROVE memwriteaddr' = IF m + 1 = RamLen THEN 0 ELSE m + 1
    OBVIOUS
  <2>1. CASE m + 1 = RamLen
    <3>1. RamAddr(Made + 1) = 0
      BY <1>1, <1>6, <2>1, RamFacts DEF Ring, Span
    <3>. QED
      BY <1>6, <1>7, <2>1, <3>1
  <2>2. CASE m + 1 # RamLen
    <3>1. RamAddr(Made) + 1 < RamLen /\ RamAddr(Made) = m
      BY <1>1, <1>2, <2>2 DEF Ring, Span
    <3>2. RamAddr(Made + 1) = m + 1
      BY <1>6, <3>1, RamFacts
    <3>. QED
      BY <1>6, <1>7, <2>2, <3>2
  <2>. QED
    BY <2>1, <2>2
<1>9. m < L => memhalffull'
  BY <1>1, <1>5, DiffIs
<1>10. ~memhalffull' => d < Half
  <2>1. m >= L => diff = d
    BY <1>1, DiffIs
  <2>. QED
    BY <1>1, <1>5, <1>9, <2>1, HalfFacts
<1>11. Made' - At(k) = d + f
  BY <1>1, <1>6, SpanFacts
<1>12. d + f + g <= Half + 2
  BY <1>3, <1>4, HalfFacts
<1>13. ~memhalffull' => d + f + g <= Half + 1
  BY <1>10, HalfFacts
<1>14. ASSUME memwriteaddr' < L
       PROVE  L >= Half + BlockLen /\ IF memhalffull' THEN memwriteaddr' + g <= 2 ELSE memwriteaddr' = 0
  <2>1. CASE m < L
    <3>1. L >= Half + BlockLen /\ memhalffull' /\ m <= 2
      BY <1>3, <1>9, <2>1
    <3>2. memwriteaddr' = m + f
      <4>1. m + 1 # RamLen
        BY <1>2, <3>1, HalfFacts, SizeFacts
      <4>. QED
        BY <1>7, <1>8, <4>1
    <3>3. m + f + g <= 2
      BY <1>3, <1>4, <2>1
    <3>. QED
      BY <3>1, <3>2, <3>3
  <2>2. CASE m >= L
    <3>1. f = 1 /\ m + 1 = RamLen /\ memwriteaddr' = 0
      BY <1>7, <1>8, <1>14, <2>2
    <3>2. wren_reg
      BY <1>1, <3>1 DEF InFlight
    <3>3. L # Half
      <4>1. (memwriteaddr + 1) % RamLen = 0
        BY <1>1, <1>7, <3>1
      <4>. QED
        BY <1>1, <3>2, <4>1 DEF Store, Half
    <3>4. L >= Half + BlockLen
      BY <1>1, <2>2, <3>1, <3>2, <3>3, GoesRound
    <3>. QED
      BY <3>1, <3>4
  <2>. QED
    BY <2>1, <2>2
<1>15. Room(k)'
  <2>1. Made' - At(k) + InFlight' = d + f + g
    BY <1>1, <1>11
  <2>. QED
    BY <1>1, <1>5, <1>12, <1>13, <1>14, <2>1 DEF Room
<1>. QED
  BY <1>1, <1>6, <1>7, <1>15

\* The number of blocks sent after a step.
After(k) == IF Reset THEN 0 ELSE IF SendBlock THEN k + 1 ELSE k

\* Complete blocks that are not sent have different numbers.
LEMMA BlocksApart ==
  ASSUME TInv, NEW k \in Nat, Ring(k), NEW i \in Nat, NEW j \in Nat, k <= i, i < j, At(j) <= Made
  PROVE  RamBlock(i) # RamBlock(j)
<1>1. At(k) <= At(i) /\ At(k) \in Nat /\ At(i) \in Nat /\ At(j) \in Nat
  BY AtFacts
<1>2. Made \in Nat /\ Made - At(k) < RamLen /\ RamLen \in Nat
  BY SpanFacts
<1>3. At(j) - At(i) < RamLen
  BY <1>1, <1>2
<1>. QED
  BY <1>3, HalfFacts, BlockFacts

\* A block that is complete is signalled, or about to be.
LEMMA SignalledFacts ==
  ASSUME TInv, NEW k \in Nat, Ring(k)
  PROVE  /\ enoughdata \cup start_dma = {RamBlock(i) : i \in Complete(k + Taken, Made)}
         /\ start_dma \cap enoughdata = {} /\ ~overflow
<1>0. PICK n \in Nat, m \in Nat : n = k + Taken /\ m = Made /\ k <= n
  <2>1. Taken \in {0, 1}
    BY DEF Taken
  <2>. QED
    BY <2>1, SpanFacts
<1>1. CASE start_dma = {}
  BY <1>0, <1>1 DEF Ring, Signalled, Fresh
<1>2. CASE start_dma # {}
  <2>1. PICK i \in Nat : n <= i /\ At(i + 1) = m /\ start_dma = {RamBlock(i)}
    BY <1>0, <1>2 DEF Ring, Signalled
  <2>2. enoughdata = {RamBlock(j) : j \in Complete(n, m - 1)} /\ ~overflow
    BY <1>0, <1>2 DEF Ring, Signalled, Fresh
  <2>3. ASSUME NEW j \in Nat PROVE At(j + 1) \in Nat /\ (At(j + 1) <= m <=> (At(j + 1) <= m - 1 \/ j = i))
    <3>1. At(j + 1) \in Nat /\ j + 1 \in Nat /\ i + 1 \in Nat
      BY AtFacts
    <3>2. At(j + 1) = m => j = i
      <4>. SUFFICES ASSUME At(j + 1) = m PROVE j = i
        OBVIOUS
      <4>1. At(j + 1) = At(j) + BlockLen /\ At(i + 1) = At(i) + BlockLen /\ At(i) \in Nat /\ At(j) \in Nat
            /\ BlockLen \in Nat \ {0}
        BY AtFacts, SizeFacts
      <4>2. At(j) < At(i + 1) /\ At(i) < At(j + 1)
        BY <2>1, <4>1
      <4>3. j < i + 1 /\ i < j + 1
        BY <3>1, <4>2, AtLess
      <4>. QED
        BY <4>3
    <3>. QED
      BY <1>0, <2>1, <3>1, <3>2
  <2>4. Complete(n, m) = Complete(n, m - 1) \cup {i}
    BY <1>0, <2>1, <2>3 DEF Complete
  <2>5. ASSUME NEW j \in Complete(n, m - 1) PROVE RamBlock(j) # RamBlock(i)
    <3>1. j \in Nat /\ n <= j /\ At(j + 1) <= m - 1
      BY DEF Complete
    <3>2. j + 1 \in Nat /\ i + 1 \in Nat /\ At(j + 1) < At(i + 1) /\ At(i) \in Nat /\ At(i) <= m
      <4>1. At(i + 1) = At(i) + BlockLen /\ At(i) \in Nat /\ At(j + 1) \in Nat /\ BlockLen \in Nat
        BY <2>3, <3>1, AtFacts, SizeFacts
      <4>. QED
        BY <1>0, <2>1, <3>1, <4>1
    <3>3. j < i
      <4>1. j + 1 < i + 1
        BY <3>2, AtLess
      <4>. QED
        BY <3>1, <4>1
    <3>. QED
      BY <1>0, <3>1, <3>2, <3>3, BlocksApart
  <2>. QED
    BY <1>0, <2>1, <2>2, <2>4, <2>5
<1>. QED
  BY <1>1, <1>2

LEMMA StoreSignalled ==
  ASSUME TInv, NEW k \in Nat, Ring(k), Store, Made' = Made + InFlight, memwriteaddr' = RamAddr(Made')
  PROVE  Signalled(k)'
<1>1. PICK n \in Nat, m \in Nat :
        n = k + Taken /\ m = Made /\ k <= n /\ At(n) <= m /\ memwriteaddr = RamAddr(m)
  BY SpanFacts, TypeFacts, SMTT(30) DEF Taken, Ring, Span
<1>2. Taken' = Taken /\ memoryblock_dma' = RamBlock(n)
  BY <1>1 DEF Store, Taken, Ring, Signalled
<1>3. enoughdata' = {RamBlock(i) : i \in Complete(n, m)} /\ ~overflow'
  BY <1>1, SignalledFacts DEF Store
<1>4. CASE ~wren_reg
  <2>1. Made' = m /\ Fresh' = 0 /\ start_dma' = {}
    BY <1>1, <1>4 DEF Store, InFlight, Fresh
  <2>2. Made' - Fresh' = m
    BY <1>1, <2>1
  <2>. QED
    BY <1>1, <1>2, <1>3, <2>1, <2>2 DEF Signalled
<1>5. CASE wren_reg
  <2>1. Made' = m + 1 /\ memwriteaddr' = RamAddr(m + 1)
    BY <1>1, <1>5 DEF InFlight
  <2>2. start_dma' = IF memwriteaddr' \div BlockLen = memwriteaddr \div BlockLen THEN {}
                     ELSE {memwriteaddr \div BlockLen}
    BY <1>5 DEF Store
  <2>3. PICK q \in Nat, r \in 0..BlockLen-1 : m = At(q) + r
    BY <1>1, WordInBlock
  <2>4. memwriteaddr \div BlockLen = RamBlock(q)
    BY <1>1, <2>3, WordAddress
  <2>5. n <= q /\ At(q) \in Nat /\ At(q + 1) = At(q) + BlockLen /\ q + 1 \in Nat /\ BlockLen \in Nat
    <3>1. At(q + 1) = At(q) + BlockLen /\ At(q) \in Nat /\ At(n) \in Nat /\ BlockLen \in Nat \ {0}
      BY <1>1, AtFacts, SizeFacts
    <3>2. At(n) < At(q + 1)
      BY <1>1, <2>3, <3>1
    <3>3. n < q + 1
      BY <3>2, AtLess
    <3>. QED
      BY <1>1, <3>1, <3>3
  <2>6. CASE r # BlockLen - 1
    <3>1. r + 1 \in 0..BlockLen-1 /\ m + 1 = At(q) + (r + 1)
      BY <2>3, <2>5, <2>6
    <3>2. memwriteaddr' \div BlockLen = RamBlock(q)
      BY <2>1, <3>1, WordAddress
    <3>3. start_dma' = {} /\ Fresh' = 0 /\ Made' - Fresh' = m + 1
      BY <1>1, <2>1, <2>2, <2>4, <3>2 DEF Fresh
    <3>4. ASSUME NEW i \in Nat PROVE At(i + 1) <= m + 1 <=> At(i + 1) <= m
      <4>1. At(i + 1) \in Nat
        BY AtFacts, SMTT(30)
      <4>2. ASSUME At(i + 1) = m + 1 PROVE FALSE
        <5>1. At(q) < At(i + 1) /\ At(i + 1) < At(q + 1)
          BY <2>5, <3>1, <4>2
        <5>2. q < i + 1 /\ i + 1 < q + 1
          BY <5>1, AtLess
        <5>. QED
          BY <5>2
      <4>. QED
        BY <1>1, <4>1, <4>2
    <3>5. Complete(n, m + 1) = Complete(n, m)
      BY <1>1, <3>4 DEF Complete
    <3>. QED
      BY <1>1, <1>2, <1>3, <3>3, <3>5 DEF Signalled
  <2>7. CASE r = BlockLen - 1
    <3>1. At(q + 1) = m + 1
      BY <2>3, <2>5, <2>7
    <3>2. memwriteaddr' \div BlockLen = RamBlock(q + 1)
      <4>1. 0 \in 0..BlockLen-1 /\ At(q + 1) + 0 = m + 1
        BY <1>1, <3>1, SizeFacts
      <4>. QED
        BY <2>1, <2>5, <4>1, WordAddress
    <3>3. RamBlock(q) # RamBlock(q + 1)
      <4>1. RamBlocks > 1
        <5>1. RamBlocks \in Nat \ {0} /\ RamBlocks % 2 = 0
          BY SizeFacts, SizeAssumption
        <5>. QED
          BY <5>1
      <4>2. q < q + 1 /\ (q + 1) - q < RamBlocks
        BY <4>1
      <4>. QED
        BY <2>5, <4>2, BlockFacts
    <3>4. start_dma' = {RamBlock(q)} /\ Fresh' = 1 /\ Made' - Fresh' = m
      BY <1>1, <2>1, <2>2, <2>4, <3>2, <3>3 DEF Fresh
    <3>5. \E i \in Nat : k + Taken' <= i /\ At(i + 1) = Made' /\ start_dma' = {RamBlock(i)}
      BY <1>1, <1>2, <2>1, <2>5, <3>1, <3>4
    <3>. QED
      BY <1>1, <1>2, <1>3, <3>4, <3>5 DEF Signalled
  <2>. QED
    BY <2>6, <2>7
<1>. QED
  BY <1>4, <1>5

LEMMA StoreRing ==
  ASSUME TInv, NEW k \in Nat, Ring(k), Store, Builder, ~slip'
  PROVE  Ring(k)' /\ After(k) = k
<1>1. Room(k)' /\ Made' = Made + InFlight /\ memwriteaddr' = RamAddr(Made')
  BY StoreRoom
<1>2. Signalled(k)'
  BY <1>1, StoreSignalled
<1>3. Taken' = Taken /\ Unnoted' = Unnoted /\ memaddr_last_packet' = memaddr_last_packet /\ remote' = remote
  BY DEF Store, Taken, Unnoted
<1>4. At(k + Taken') <= Made'
  <2>1. At(k + Taken) <= Made /\ At(k + Taken) \in Nat /\ Made \in Nat /\ InFlight \in {0, 1}
    BY SpanFacts, AtFacts DEF Ring, Span
  <2>. QED
    BY <1>1, <1>3, <2>1
<1>5. Span(k)' /\ Noted(k)'
  BY <1>1, <1>3, <1>4 DEF Ring, Span, Noted
<1>6. ~Reset /\ ~SendBlock
  BY DEF Store, Reset, SendBlock
<1>. QED
  BY <1>1, <1>2, <1>5, <1>6 DEF Ring, After

LEMMA ResetRing ==
  ASSUME Reset
  PROVE  Ring(0)' /\ After(0) = 0
<1>1. /\ stream' = <<>> /\ memwriteaddr' = 0 /\ memaddr_last_packet' = 0 /\ memoryblock_dma' = 0
      /\ enoughdata' = {} /\ start_dma' = {} /\ ~overflow' /\ remote' = 0 /\ ~memhalffull'
      /\ state' # "running" /\ state' # "controlinfoheader"
  BY DEF Reset
<1>2. Made' = 0 /\ Taken' = 0 /\ Unnoted' = 0 /\ Fresh' = 0 /\ InFlight' \in {0, 1}
  BY <1>1 DEF Made, Taken, Unnoted, Fresh, InFlight
<1>3. Half \in Nat /\ RamAddr(0) = 0 /\ RamBlock(0) = 0 /\ HostBlock(0) = 0 /\ At(0) = 0
  BY AtFacts, RamFacts, BlockFacts, HostFacts, HalfFacts
<1>4. Made' - At(0) + InFlight' <= Half + 1 /\ Made' - At(0) + InFlight' <= Half + 2
  BY <1>2, <1>3
<1>5. Room(0)'
  BY <1>1, <1>4 DEF Room
<1>6. Span(0)' /\ Signalled(0)' /\ Noted(0)'
  BY <1>1, <1>2, <1>3, NoneComplete DEF Span, Signalled, Noted
<1>. QED
  BY <1>5, <1>6 DEF Ring, After

LEMMA ClockRing ==
  ASSUME TInv, NEW k \in Nat, Ring(k), Clock, ~slip'
  PROVE  \E j \in Nat : j = After(k) /\ Ring(j)'
<1>1. CASE Store
  <2>1. Ring(k)' /\ After(k) = k
    BY <1>1, StoreRing DEF Clock
  <2>. QED
    BY <2>1
<1>2. CASE Reset
  <2>1. Ring(0)' /\ After(k) = 0
    BY <1>2, ResetRing DEF After
  <2>. QED
    BY <2>1
<1>. QED
  BY <1>1, <1>2 DEF Clock

LEMMA FrameRing ==
  ASSUME NEW k \in Nat, Ring(k), ~Reset, ~SendBlock,
         UNCHANGED <<state, memwriteaddr, memaddr_last_packet, memhalffull, wren_reg, start_dma,
                     memoryblock_dma, enoughdata, overflow, remote, stream>>
  PROVE  Ring(k)' /\ After(k) = k
<1>1. Taken' = Taken /\ Unnoted' = Unnoted /\ Made' = Made /\ Fresh' = Fresh /\ InFlight' = InFlight
  BY DEF Taken, Unnoted, Made, Fresh, InFlight
<1>. QED
  BY <1>1 DEF Ring, Span, Room, Signalled, Noted, After

LEMMA DisabledRing ==
  ASSUME NEW k \in Nat, Ring(k), Disabled
  PROVE  Ring(k)' /\ After(k) = k
<1>1. Taken' = Taken /\ Unnoted' = Unnoted /\ Made' = Made /\ Fresh' = Fresh /\ InFlight' = InFlight
  BY DEF Disabled, Taken, Unnoted, Made, Fresh, InFlight, memory, pipe
<1>2. UNCHANGED <<memwriteaddr, memaddr_last_packet, memhalffull, start_dma, memoryblock_dma, enoughdata,
                  overflow, remote>>
  BY DEF Disabled, memory
<1>3. ~Reset /\ ~SendBlock
  BY DEF Disabled, Reset, SendBlock
<1>. QED
  BY <1>1, <1>2, <1>3 DEF Ring, Span, Room, Signalled, Noted, After

LEMMA TakeBlockRing ==
  ASSUME TInv, NEW k \in Nat, Ring(k), TakeBlock
  PROVE  Ring(k)' /\ After(k) = k
<1>1. /\ Made' = Made /\ Taken = 0 /\ Taken' = 1 /\ Fresh' = Fresh /\ InFlight' = InFlight
      /\ Unnoted = 0 /\ Unnoted' = 0 /\ After(k) = k
      /\ UNCHANGED <<memwriteaddr, memhalffull, start_dma, overflow, remote>> /\ enoughdata # {}
      /\ enoughdata' = enoughdata \ {memoryblock_dma}
      /\ memoryblock_dma' = (memoryblock_dma + 1) % RamBlocks
      /\ memaddr_last_packet' = At(memoryblock_dma)
  BY DEF TakeBlock, Made, Taken, Unnoted, Fresh, InFlight, After, Reset, SendBlock, memory, pipe, At
<1>0. PICK m \in Nat, m2 \in Nat : m = Made /\ m2 = Made - Fresh
  <2>1. CASE start_dma = {}
    BY <2>1, TypeFacts DEF Fresh
  <2>2. CASE start_dma # {}
    <3>1. PICK i \in Nat : At(i + 1) = Made
      BY <2>2 DEF Ring, Signalled
    <3>2. At(i + 1) = At(i) + BlockLen /\ At(i) \in Nat /\ BlockLen \in Nat \ {0}
      BY AtFacts, SizeFacts
    <3>3. Fresh = 1
      BY <2>2 DEF Fresh
    <3>. QED
      BY <3>1, <3>2, <3>3, TypeFacts, SMTT(30)
  <2>. QED
    BY <2>1, <2>2
<1>a. m2 <= m
  BY <1>0 DEF Fresh
<1>2. /\ memoryblock_dma = RamBlock(k) /\ enoughdata = {RamBlock(i) : i \in Complete(k, m2)}
      /\ memaddr_last_packet = RamAddr(At(k))
  BY <1>0, <1>1 DEF Ring, Span, Signalled
<1>3. memaddr_last_packet' = memaddr_last_packet /\ memoryblock_dma' = RamBlock(k + 1)
  BY <1>1, <1>2, BlockFacts
<1>4. At(k + 1) <= m2
  <2>1. PICK i \in Nat : k <= i /\ At(i + 1) <= m2
    BY <1>1, <1>2 DEF Complete
  <2>2. At(k + 1) <= At(i + 1) /\ At(k + 1) \in Nat /\ At(i + 1) \in Nat
    BY <2>1, AtFacts
  <2>. QED
    BY <2>1, <2>2
<1>5. ASSUME NEW i \in Nat, k < i, At(i + 1) <= m2
      PROVE  RamBlock(i) # RamBlock(k)
  <2>1. At(i) <= At(i + 1) /\ At(i) \in Nat /\ At(i + 1) \in Nat
    BY AtFacts, SMTT(30)
  <2>2. At(i) <= Made
    BY <1>0, <1>a, <1>5, <2>1
  <2>. QED
    BY <1>5, <2>2, BlocksApart
<1>6. enoughdata' = {RamBlock(i) : i \in Complete(k + 1, m2)}
  BY <1>1, <1>2, <1>5 DEF Complete
<1>7. ASSUME start_dma # {}
      PROVE  \E i \in Nat : k + 1 <= i /\ At(i + 1) = Made /\ start_dma = {RamBlock(i)}
  <2>1. PICK i \in Nat : k <= i /\ At(i + 1) = Made /\ start_dma = {RamBlock(i)}
    BY <1>1, <1>7 DEF Ring, Signalled
  <2>2. m2 < m
    BY <1>0, <1>7 DEF Fresh
  <2>3. At(k + 1) < At(i + 1) /\ k + 1 \in Nat /\ i + 1 \in Nat
    BY <1>0, <1>4, <2>1, <2>2, AtFacts
  <2>4. k + 1 < i + 1
    BY <2>3, AtLess
  <2>. QED
    BY <2>1, <2>4
<1>8. At(k + 1) <= Made
  <2>1. At(k + 1) \in Nat
    BY AtFacts
  <2>. QED
    BY <1>0, <1>a, <1>4, <2>1
<1>9. Span(k)'
  BY <1>1, <1>2, <1>3, <1>8 DEF Ring, Span
<1>10. Room(k)'
  BY <1>1, <1>3 DEF Ring, Room
<1>11. Signalled(k)'
  BY <1>0, <1>1, <1>3, <1>6, <1>7 DEF Ring, Signalled
<1>12. Noted(k)'
  BY <1>1 DEF Ring, Noted
<1>. QED
  BY <1>1, <1>9, <1>10, <1>11, <1>12 DEF Ring

LEMMA SendBlockRing ==
  ASSUME TInv, NEW k \in Nat, Ring(k), SendBlock
  PROVE  Ring(k + 1)' /\ After(k) = k + 1
<1>1. /\ Made' = Made /\ Taken = 1 /\ Taken' = 0 /\ Fresh' = Fresh /\ InFlight' = InFlight
      /\ Unnoted = 0 /\ Unnoted' = 1 /\ After(k) = k + 1
      /\ UNCHANGED <<memwriteaddr, memhalffull, start_dma, overflow, remote, enoughdata, memoryblock_dma>>
      /\ memaddr_last_packet' = (memaddr_last_packet + BlockLen) % RamLen
  BY DEF SendBlock, Made, Taken, Unnoted, Fresh, InFlight, After, Reset, memory, pipe
<1>2. At(k + 1) <= Made /\ memaddr_last_packet = RamAddr(At(k))
  BY <1>1 DEF Ring, Span
<1>3. At(k + 1) = At(k) + BlockLen /\ At(k) \in Nat /\ BlockLen \in Nat \ {0} /\ RamLen \in Nat \ {0}
  BY AtFacts, SizeFacts
<1>4. memaddr_last_packet' = RamAddr(At(k + 1))
  <2>1. At(k) \in Int /\ BlockLen \in Int
    BY <1>3
  <2>2. ((At(k) % RamLen) + BlockLen) % RamLen = (At(k) + BlockLen) % RamLen
    BY <1>3, <2>1, ModAdd
  <2>. QED
    BY <1>1, <1>2, <1>3, <2>2, Zenon DEF RamAddr
<1>5. Span(k + 1)'
  BY <1>1, <1>2, <1>4 DEF Ring, Span
<1>6. Room(k + 1)'
  <2>a. BlockLen < RamLen /\ Half \in Nat /\ RamLen = Half + Half
    BY <1>3, HalfFacts
  <2>b. memaddr_last_packet + BlockLen <= RamLen
    <3>1. PICK b \in 0..RamBlocks-1 : memaddr_last_packet = b * BlockLen
      BY DEF TInv, Aligned
    <3>2. memaddr_last_packet = At(b) /\ b \in Nat /\ b + 1 \in Nat /\ b + 1 <= RamBlocks /\ RamBlocks \in Nat
      BY <3>1, SizeFacts DEF At
    <3>3. At(b + 1) = At(b) + BlockLen /\ At(b + 1) <= At(RamBlocks) /\ At(RamBlocks) = RamLen
      BY <3>2, AtFacts DEF At, RamLen
    <3>. QED
      BY <3>2, <3>3
  <2>1. PICK d \in Nat, L \in Nat : d = Made - At(k) /\ L = memaddr_last_packet /\ L < RamLen
    <3>1. memaddr_last_packet \in 0..RamLen-1 /\ RamLen \in Nat
      BY SpanFacts
    <3>. QED
      BY <3>1, SpanFacts
  <2>2. PICK m \in Nat, f \in {0, 1} : m = memwriteaddr /\ f = InFlight
    BY SpanFacts, TypeFacts, SMTT(30)
  <2>3. Made - At(k + 1) = d - BlockLen /\ d >= BlockLen
    BY <1>2, <1>3, <2>1, SpanFacts
  <2>4. memaddr_last_packet' = IF L + BlockLen < RamLen THEN L + BlockLen ELSE L + BlockLen - RamLen
    <3>1. RamAddr(At(k) + BlockLen) = IF RamAddr(At(k)) + BlockLen < RamLen THEN RamAddr(At(k)) + BlockLen
                                      ELSE RamAddr(At(k)) + BlockLen - RamLen
      BY <1>3, <2>a, Around
    <3>. QED
      BY <1>2, <1>3, <1>4, <2>1, <3>1
  <2>5. /\ d + f <= Half + 2 /\ (~memhalffull => d + f <= Half + 1)
        /\ m < L => L >= Half + BlockLen /\ IF memhalffull THEN m + f <= 2 ELSE m = 0
    BY <2>1, <2>2 DEF Ring, Room
  <2>6. m = IF L + d < RamLen THEN L + d ELSE L + d - RamLen
    BY <2>1, <2>2, SpanFacts
  <2>7. ASSUME memwriteaddr < memaddr_last_packet'
        PROVE  memaddr_last_packet' >= Half + BlockLen
               /\ IF memhalffull THEN memwriteaddr + InFlight <= 2 ELSE memwriteaddr = 0
    <3>0. PICK M \in Int : /\ M = memaddr_last_packet'
                         /\ M = IF L + BlockLen < RamLen THEN L + BlockLen ELSE L + BlockLen - RamLen
      BY <1>3, <2>4
    <3>1. CASE m < L
      <4>1. L >= Half + BlockLen /\ IF memhalffull THEN m + f <= 2 ELSE m = 0
        BY <2>5, <3>1
      <4>2. CASE L + BlockLen < RamLen
        <5>1. M >= Half + BlockLen
          BY <1>3, <2>a, <3>0, <4>1, <4>2
        <5>. QED
          BY <2>2, <3>0, <4>1, <5>1
      <4>3. CASE ~(L + BlockLen < RamLen)
        <5>1. L + BlockLen = RamLen
          BY <1>3, <2>1, <2>b, <4>3
        <5>. QED
          BY <1>3, <2>2, <2>7, <3>0, <4>3, <5>1
      <4>. QED
        BY <4>2, <4>3
    <3>2. CASE m >= L
      <4>0. d < RamLen
        BY <2>1, SpanFacts
      <4>1. m = L + d
        BY <1>3, <2>6, <3>2, <4>0
      <4>2. m < RamLen
        BY <2>2, <2>1, SpanFacts, TypeFacts, SMTT(30)
      <4>3. M <= m
        BY <1>3, <2>1, <2>3, <3>0, <4>1
      <4>. QED
        BY <1>3, <2>2, <2>7, <3>0, <4>3
    <3>. QED
      BY <3>1, <3>2
  <2>8. /\ Made - At(k + 1) + InFlight <= Half + 2
        /\ ~memhalffull => Made - At(k + 1) + InFlight <= Half + 1
    BY <1>3, <2>2, <2>3, <2>5, HalfFacts
  <2>. QED
    BY <1>1, <2>7, <2>8 DEF Room
<1>7. Signalled(k + 1)' /\ Noted(k + 1)'
  BY <1>1 DEF Ring, Signalled, Noted
<1>. QED
  BY <1>1, <1>5, <1>6, <1>7 DEF Ring

LEMMA SendControlRing ==
  ASSUME TInv, NEW k \in Nat, Ring(k), SendControl
  PROVE  Ring(k)' /\ After(k) = k
<1>1. /\ Made' = Made /\ Taken = 0 /\ Taken' = 0 /\ Fresh' = Fresh /\ InFlight' = InFlight
      /\ Unnoted = 1 /\ Unnoted' = 0 /\ After(k) = k
      /\ UNCHANGED <<memwriteaddr, memaddr_last_packet, memhalffull, start_dma, overflow, enoughdata,
                     memoryblock_dma>>
      /\ remote' = (remote + 1) % HostBlocks
  BY DEF SendControl, Made, Taken, Unnoted, Fresh, InFlight, After, Reset, SendBlock, memory, pipe
<1>2. remote' = HostBlock(k)
  <2>1. k - 1 \in Nat /\ remote = HostBlock(k - 1) /\ (k - 1) + 1 = k
    BY <1>1 DEF Ring, Noted
  <2>. QED
    BY <1>1, <2>1, HostFacts
<1>3. Span(k)' /\ Room(k)' /\ Signalled(k)'
  BY <1>1 DEF Ring, Span, Room, Signalled
<1>4. Noted(k)'
  BY <1>1, <1>2 DEF Noted
<1>. QED
  BY <1>1, <1>3, <1>4 DEF Ring

LEMMA RingNext ==
  ASSUME TInv, NEW k \in Nat, Ring(k), [Next]_vars, ~slip'
  PROVE  \E j \in Nat : j = After(k) /\ Ring(j)'
<1>1. CASE Engine
  <2>1. CASE Disabled \/ TakeBlock \/ SendControl
    <3>1. Ring(k)' /\ After(k) = k
      BY <2>1, DisabledRing, TakeBlockRing, SendControlRing
    <3>. QED
      BY <3>1
  <2>2. CASE SendBlock
    <3>1. Ring(k + 1)' /\ After(k) = k + 1 /\ k + 1 \in Nat
      BY <2>2, SendBlockRing
    <3>. QED
      BY <3>1
  <2>. QED
    BY <1>1, <2>1, <2>2 DEF Engine
<1>2. CASE Clock
  BY <1>2, ClockRing
<1>3. CASE Receive \/ DropHit \/ Thread \/ EndRun \/ BeginRun \/ UNCHANGED vars
  <2>1. UNCHANGED <<state, memwriteaddr, memaddr_last_packet, memhalffull, wren_reg, start_dma,
                    memoryblock_dma, enoughdata, overflow, remote, stream>>
    BY <1>3 DEF Receive, DropHit, Thread, Fill, EnableReadout, Disable, Copy, EndRun, BeginRun, vars,
                Firmware, memory, engine, pipe
  <2>2. CASE ~Reset /\ ~SendBlock
    <3>1. Ring(k)' /\ After(k) = k
      BY <2>1, <2>2, FrameRing
    <3>. QED
      BY <3>1
  <2>3. CASE Reset
    <3>1. Ring(0)' /\ After(k) = 0
      BY <2>3, ResetRing DEF After
    <3>. QED
      BY <3>1
  <2>4. ~SendBlock
    BY <2>1 DEF SendBlock
  <2>. QED
    BY <2>2, <2>3, <2>4
<1>. QED
  BY <1>1, <1>2, <1>3 DEF Next

\* What the run checks follows.
LEMMA RingIsInOrder ==
  ASSUME TInv, NEW k \in Nat, Ring(k)
  PROVE  RingInOrder
<1>1. PICK q \in Nat, r \in 0..BlockLen-1 : Made = At(q) + r
  BY TypeFacts, WordInBlock
<1>2. memwriteaddr \div BlockLen = RamBlock(q)
  BY <1>1, WordAddress DEF Ring, Span
<1>3. PICK n \in Nat : n = k + Taken
  BY SpanFacts
<1>4. At(q) \in Nat /\ At(q + 1) = At(q) + BlockLen /\ At(n) \in Nat /\ At(n) <= Made /\ BlockLen \in Nat \ {0}
  BY <1>3, AtFacts, SizeFacts DEF Ring, Span
<1>5. n <= q
  <2>1. At(n) < At(q + 1)
    BY <1>1, <1>4
  <2>2. n < q + 1
    BY <2>1, AtLess
  <2>. QED
    BY <2>2
<1>6. q - n < RamBlocks
  <2>1. CASE n = q
    BY <2>1, SizeFacts
  <2>2. CASE n < q
    <3>1. At(k) <= At(n) /\ At(k) \in Nat
      BY <1>3, AtFacts, SMTT(30) DEF Taken
    <3>2. At(q) - At(n) < RamLen
      <4>1. Made \in Nat /\ Made - At(k) < RamLen /\ RamLen \in Nat
        BY SpanFacts
      <4>. QED
        BY <1>1, <1>4, <3>1, <4>1
    <3>. QED
      BY <2>2, <3>2, HalfFacts
  <2>. QED
    BY <1>5, <2>1, <2>2
<1>7. Pending = q - n
  BY <1>2, <1>3, <1>5, <1>6, BlockFacts DEF Pending, Ring, Signalled
<1>8. \A i \in Nat : At(i + 1) <= Made <=> i < q
  <2>. SUFFICES ASSUME NEW i \in Nat PROVE At(i + 1) <= Made <=> i < q
    OBVIOUS
  <2>1. CASE i < q
    <3>1. At(i + 1) <= At(q) /\ At(i + 1) \in Nat
      BY <2>1, AtFacts, SMTT(30)
    <3>. QED
      BY <1>1, <1>4, <2>1, <3>1
  <2>2. CASE ~(i < q)
    <3>1. At(q + 1) <= At(i + 1) /\ At(i + 1) \in Nat
      BY <2>2, AtFacts, SMTT(30)
    <3>. QED
      BY <1>1, <1>4, <2>2, <3>1
  <2>. QED
    BY <2>1, <2>2
<1>9. Complete(n, Made) = {i \in Nat : n <= i /\ i < q}
  BY <1>8 DEF Complete
<1>. DEFINE signalled == enoughdata \cup start_dma
<1>10. signalled = {(memoryblock_dma + i) % RamBlocks : i \in 0..Pending-1}
  <2>1. signalled = {RamBlock(i) : i \in Complete(n, Made)} /\ memoryblock_dma = RamBlock(n)
    BY <1>3, SignalledFacts DEF Ring, Signalled
  <2>2. \A i \in Nat : (memoryblock_dma + i) % RamBlocks = RamBlock(n + i)
    BY <2>1, BlockFacts
  <2>. HIDE DEF signalled
  <2>3. ASSUME NEW x \in signalled
        PROVE  \E i \in 0..Pending-1 : x = (memoryblock_dma + i) % RamBlocks
    <3>1. PICK i \in Nat : n <= i /\ i < q /\ x = RamBlock(i)
      BY <1>9, <2>1
    <3>2. i - n \in 0..(q - n)-1 /\ i - n \in Nat /\ n + (i - n) = i
      BY <3>1
    <3>. QED
      BY <1>7, <2>2, <3>1, <3>2
  <2>4. ASSUME NEW i \in 0..Pending-1
        PROVE  (memoryblock_dma + i) % RamBlocks \in signalled
    <3>1. i \in Nat /\ n + i \in Nat /\ n <= n + i /\ n + i < q
      BY <1>5, <1>7
    <3>. QED
      BY <1>9, <2>1, <2>2, <3>1
  <2>. QED
    BY <2>3, <2>4
<1>. QED
  BY <1>10, SignalledFacts DEF RingInOrder

-----------------------------------------------------------------------------
(* What was written and not sent is in the memory. As long as the thread   *)
(* is not early, it and the engine agree on when the engine is enabled,    *)
(* and the buffer of the host is clean when the first word is written.     *)

InRam(k) == \A j \in (At(k) + 1)..Made : ram[RamAddr(j - 1)] = stream[j]
Sync == /\ wen <=> pc = "poll"
        /\ pc \in {"top", "enable"} => state = "disabled" /\ ~dma_enabled
        /\ state # "disabled" /\ wen => dma_enabled
Starting ==
  \/ pc = "enable"
  \/ state = "disabled" /\ (wen \/ dma_enabled)
  \/ state # "disabled" /\ stream = <<>>
Clean == Starting => \A a \in 0..maxwords-1 : dma_buf[a] = Ones

LEMMA BusyIsEarly ==
  ASSUME TInv, NEW busy \in BOOLEAN, Early(busy), early' = 0
  PROVE  ~busy /\ early = 0
<1>1. early \in Nat
  BY TallyFacts
<1>. QED
  BY <1>1 DEF Early

LEMMA EarlyStays ==
  ASSUME TInv, [Next]_vars, early' = 0
  PROVE  early = 0
<1>1. CASE Thread
  <2>1. \E n \in {0, 1} : early' = early + n
    BY <1>1 DEF Thread, Fill, EnableReadout, Disable, Copy, Early
  <2>. QED
    BY <2>1, TallyFacts
<1>2. CASE ~Thread
  <2>1. early' = early
    BY <1>2 DEF Next, Receive, DropHit, Clock, Engine, Disabled, TakeBlock, SendBlock, SendControl, EndRun,
                BeginRun, vars, thread
  <2>. QED
    BY <2>1
<1>. QED
  BY <1>1, <1>2

LEMMA SlipStays ==
  ASSUME TInv, [Next]_vars, ~slip'
  PROVE  ~slip
<1>1. CASE Clock
  BY <1>1, TypeFacts DEF Clock, Store, Reset
<1>2. CASE ~Clock
  <2>1. slip' = slip
    BY <1>2 DEF Next, Receive, DropHit, Engine, Disabled, TakeBlock, SendBlock, SendControl, Thread, Fill,
                EnableReadout, Disable, Copy, EndRun, BeginRun, vars, Firmware, memory
  <2>. QED
    BY <2>1
<1>. QED
  BY <1>1, <1>2

\* The thread acts on an engine at rest.
LEMMA AtRest ==
  ASSUME TInv, Fill \/ EnableReadout \/ Copy, early' = 0
  PROVE  state = "disabled" /\ ~dma_enabled
<1>1. Early(EngineBusy) /\ EngineBusy \in BOOLEAN
  BY DEF Fill, EnableReadout, Copy, EngineBusy
<1>2. ~EngineBusy
  BY <1>1, BusyIsEarly
<1>. QED
  BY <1>2 DEF EngineBusy

LEMMA SyncNext ==
  ASSUME TInv, Sync, [Next]_vars, early' = 0
  PROVE  Sync'
<1>0. {wen, dma_enabled} \subseteq BOOLEAN
  BY DEF TInv, TypeOK
<1>1. CASE Receive \/ DropHit \/ EndRun \/ BeginRun \/ UNCHANGED vars
  <2>1. UNCHANGED <<wen, pc, state, dma_enabled>>
    BY <1>1 DEF Receive, DropHit, EndRun, BeginRun, vars, engine, thread, pipe
  <2>. QED
    BY <2>1 DEF Sync
<1>2. CASE Clock
  <2>1. UNCHANGED <<wen, pc>> /\ dma_enabled' = wen
    BY <1>2 DEF Clock, thread
  <2>2. state' = state \/ (state = "disabled" /\ (state' = "disabled" \/ dma_enabled))
    BY <1>2 DEF Clock, Store, Reset
  <2>. QED
    BY <1>0, <2>1, <2>2 DEF Sync
<1>3. CASE Engine
  <2>1. UNCHANGED <<wen, pc, dma_enabled>> /\ (state' = "disabled" \/ state # "disabled")
    BY <1>3 DEF Engine, Disabled, TakeBlock, SendBlock, SendControl, thread, pipe
  <2>. QED
    BY <2>1 DEF Sync
<1>4. CASE Fill
  BY <1>4, AtRest DEF Fill, Firmware, engine, pipe, Sync
<1>5. CASE EnableReadout
  BY <1>5, AtRest DEF EnableReadout, Firmware, engine, pipe, Sync
<1>6. CASE Disable
  BY <1>6 DEF Disable, Firmware, engine, pipe, Sync
<1>7. CASE Copy
  BY <1>7, AtRest DEF Copy, Firmware, engine, pipe, Sync
<1>. QED
  BY <1>1, <1>2, <1>3, <1>4, <1>5, <1>6, <1>7 DEF Next, Thread

LEMMA InRamInit == Init => InRam(0)
<1>. SUFFICES ASSUME Init PROVE InRam(0)
  OBVIOUS
<1>1. Made = 0 /\ At(0) = 0
  BY AtFacts DEF Init, Made
<1>. QED
  BY <1>1 DEF InRam

LEMMA InRamNext ==
  ASSUME TInv, NEW k \in Nat, Ring(k), InRam(k), [Next]_vars, NEW n \in Nat, n = After(k), Ring(n)'
  PROVE  InRam(n)'
<1>1. CASE ram' = ram /\ stream' = stream /\ n \in {k, k + 1}
  <2>1. At(n) >= At(k) /\ At(n) \in Nat /\ At(k) \in Nat
    BY <1>1, AtFacts, SMTT(30)
  <2>2. Made' = Made /\ Made \in Nat
    BY <1>1, TypeFacts DEF Made
  <2>3. \A j \in (At(n) + 1)..Made : j \in (At(k) + 1)..Made
    BY <2>1, <2>2
  <2>. QED
    BY <1>1, <2>2, <2>3 DEF InRam
<1>2. CASE Clock /\ Store
  <2>1. n = k
    <3>1. ~Reset /\ ~SendBlock
      BY <1>2 DEF Store, Reset, SendBlock
    <3>. QED
      BY <3>1 DEF After
  <2>2. CASE ~wren_reg
    BY <1>1, <1>2, <2>1, <2>2 DEF Clock, Store
  <2>3. CASE wren_reg
    <3>1. /\ memwriteaddr = RamAddr(Made) /\ ram' = [ram EXCEPT ![memwriteaddr] = data_reg]
          /\ stream' = Append(stream, data_reg) /\ Made' = Made + 1 /\ Made \in Nat
      BY <1>2, <2>3, TypeFacts, SMTT(30) DEF Clock, Store, Ring, Span, Made
    <3>2. ASSUME NEW j \in (At(k) + 1)..(Made + 1)
          PROVE  ram'[RamAddr(j - 1)] = stream'[j]
      <4>1. j \in Nat /\ j - 1 \in Nat /\ j >= 1 /\ j <= Made + 1 /\ At(k) \in Nat /\ At(k) <= j - 1
        <5>1. At(k) \in Nat
          BY AtFacts
        <5>. QED
          BY <3>1, <5>1
      <4>2. RamAddr(j - 1) \in 0..RamLen-1
        BY <4>1, RamFacts
      <4>3. CASE j = Made + 1
        <5>1. stream'[j] = data_reg /\ j - 1 = Made
          BY <3>1, <4>3, TypeFacts DEF Made
        <5>. QED
          BY <3>1, <4>2, <5>1, TypeFacts
      <4>4. CASE j # Made + 1
        <5>1. j \in 1..Made /\ j \in (At(k) + 1)..Made
          BY <3>1, <4>1, <4>4
        <5>2. stream'[j] = stream[j]
          BY <3>1, <5>1, TypeFacts DEF Made
        <5>3. j - 1 < Made /\ Made - (j - 1) < RamLen
          <6>1. Made - At(k) < RamLen /\ RamLen \in Nat
            BY SpanFacts
          <6>. QED
            BY <3>1, <4>1, <5>1, <6>1
        <5>4. RamAddr(j - 1) # memwriteaddr
          BY <3>1, <4>1, <5>3, RamFacts
        <5>. QED
          BY <3>1, <4>2, <5>1, <5>2, <5>4, TypeFacts DEF InRam
      <4>. QED
        BY <4>3, <4>4
    <3>. QED
      BY <2>1, <3>1, <3>2 DEF InRam
  <2>. QED
    BY <2>2, <2>3
<1>3. CASE Reset
  <2>1. Made' = 0 /\ At(n) \in Nat
    BY <1>3, AtFacts DEF Reset, Made
  <2>. QED
    BY <2>1 DEF InRam
<1>4. ASSUME ~Clock, ~Reset
      PROVE  ram' = ram /\ stream' = stream /\ n \in {k, k + 1}
  <2>1. n \in {k, k + 1}
    BY <1>4 DEF After
  <2>2. ram' = ram /\ stream' = stream
    BY <1>4 DEF Next, Receive, DropHit, Engine, Disabled, TakeBlock, SendBlock, SendControl, Thread, Fill,
                EnableReadout, Disable, Copy, EndRun, BeginRun, vars, Firmware, memory
  <2>. QED
    BY <2>1, <2>2
<1>. QED
  BY <1>1, <1>2, <1>3, <1>4 DEF Clock

\* The place of a word of a block in the buffer of the host.
LEMMA HostAddress ==
  ASSUME NEW i \in Nat, NEW a \in 0..HostLen-1, a \div BlockLen = HostBlock(i)
  PROVE  a % BlockLen \in 0..BlockLen-1 /\ (At(i) + (a % BlockLen)) % HostLen = a
<1>1. HostBlocks \in Nat \ {0} /\ BlockLen \in Nat \ {0} /\ i \in Int
  BY SizeFacts
<1>2. a \in 0..HostBlocks*BlockLen-1
  BY DEF HostLen
<1>3. a % BlockLen \in 0..BlockLen-1 /\ a = (a \div BlockLen) * BlockLen + (a % BlockLen)
  BY <1>1, <1>2, BlockNumber
<1>4. PICK r \in 0..BlockLen-1 : r = a % BlockLen
  BY <1>3
<1>5. (i * BlockLen + r) % (HostBlocks * BlockLen) = (i % HostBlocks) * BlockLen + r
  BY <1>1, BlockAddress
<1>6. a = (i % HostBlocks) * BlockLen + r
  BY <1>3, <1>4 DEF HostBlock
<1>. QED
  BY <1>4, <1>5, <1>6 DEF At, HostLen

\* Refilling the buffer.
LEMMA FilledClean ==
  ASSUME TInv, NEW a \in 0..maxwords-1
  PROVE  Filled[a] = Ones
<1>1. a \in 0..HostLen-1 /\ a < maxwords
  BY SizeFacts
<1>. QED
  BY <1>1 DEF Filled

\* HostInOrder without its condition.
OnTheHost ==
  \A a \in 0..maxwords-1 :
    dma_buf[a] # Ones /\ stream # <<>> =>
      \E n \in 1..Len(stream) : stream[n] = dma_buf[a] /\ (n - 1) % HostLen = a

LEMMA HostInit == Init => Sync /\ Clean /\ OnTheHost
<1>. SUFFICES ASSUME Init PROVE Sync /\ Clean /\ OnTheHost
  OBVIOUS
<1>1. \A a \in 0..maxwords-1 : a \in 0..HostLen-1
  BY SizeFacts
<1>. QED
  BY <1>1 DEF Init, Sync, Clean, OnTheHost

LEMMA HostClock ==
  ASSUME TInv, Sync, Clean, OnTheHost, Clock
  PROVE  Clean' /\ OnTheHost'
<1>0. UNCHANGED <<dma_buf, wen, pc>> /\ dma_enabled' = wen /\ {wen, dma_enabled, wren_reg} \subseteq BOOLEAN
  BY TypeFacts DEF Clock, host, thread
<1>1. CASE Store
  <2>1. state # "disabled" /\ state' = state
    BY <1>1 DEF Store
  <2>2. CASE ~wren_reg
    <3>1. stream' = stream
      BY <1>1, <2>2 DEF Store
    <3>. QED
      BY <1>0, <2>1, <3>1 DEF Clean, Starting, OnTheHost
  <2>3. CASE wren_reg
    <3>1. stream' = Append(stream, data_reg) /\ stream \in Seq(Word)
      BY <1>1, <2>3, TypeFacts DEF Store
    <3>2. stream' # <<>> /\ Len(stream') = Len(stream) + 1 /\ Len(stream) \in Nat
          /\ \A n \in 1..Len(stream) : stream'[n] = stream[n]
      BY <3>1
    <3>3. Clean'
      BY <1>0, <2>1, <3>2 DEF Clean, Starting
    <3>4. ASSUME NEW a \in 0..maxwords-1, dma_buf[a] # Ones
          PROVE  \E n \in 1..Len(stream') : stream'[n] = dma_buf[a] /\ (n - 1) % HostLen = a
      <4>1. stream # <<>>
        BY <2>1, <3>4 DEF Clean, Starting
      <4>2. PICK n \in 1..Len(stream) : stream[n] = dma_buf[a] /\ (n - 1) % HostLen = a
        BY <3>4, <4>1 DEF OnTheHost
      <4>3. n \in 1..Len(stream') /\ stream'[n] = stream[n]
        BY <3>2
      <4>. QED
        BY <4>2, <4>3
    <3>5. OnTheHost'
      BY <1>0, <3>4 DEF OnTheHost
    <3>. QED
      BY <3>3, <3>5
  <2>. QED
    BY <1>0, <2>2, <2>3
<1>2. CASE Reset
  <2>1. stream' = <<>> /\ state = "disabled" /\ (state' # "disabled" => dma_enabled)
    BY <1>2 DEF Reset
  <2>2. OnTheHost'
    BY <2>1 DEF OnTheHost
  <2>3. Starting' => Starting
    BY <1>0, <2>1 DEF Starting
  <2>. QED
    BY <1>0, <2>2, <2>3 DEF Clean
<1>. QED
  BY <1>1, <1>2 DEF Clock

LEMMA HostSend ==
  ASSUME TInv, NEW k \in Nat, Ring(k), InRam(k), Sync, OnTheHost, SendBlock
  PROVE  Clean' /\ OnTheHost'
<1>1. /\ stream' = stream /\ At(k + 1) <= Made /\ remote = HostBlock(k) /\ memaddr_last_packet = RamAddr(At(k))
      /\ dma_buf' = [a \in 0..HostLen-1 |->
                       IF a \div BlockLen = remote THEN ram[memaddr_last_packet + (a % BlockLen)]
                       ELSE dma_buf[a]]
      /\ state = "running" /\ state' # "disabled" /\ UNCHANGED <<pc, wen, dma_enabled>>
  BY DEF SendBlock, Ring, Span, Noted, Taken, Unnoted, memory, thread, pipe
<1>2. At(k + 1) = At(k) + BlockLen /\ At(k) \in Nat /\ BlockLen \in Nat \ {0} /\ Made \in Nat
  BY AtFacts, SizeFacts, TypeFacts
<1>3. stream # <<>>
  BY <1>1, <1>2 DEF Made
<1>4. ASSUME NEW a \in 0..maxwords-1, dma_buf'[a] # Ones
      PROVE  \E n \in 1..Len(stream) : stream[n] = dma_buf'[a] /\ (n - 1) % HostLen = a
  <2>1. a \in 0..HostLen-1
    BY SizeFacts
  <2>2. CASE a \div BlockLen = remote
    <3>1. a % BlockLen \in 0..BlockLen-1 /\ (At(k) + (a % BlockLen)) % HostLen = a
      BY <1>1, <2>1, <2>2, HostAddress
    <3>2. PICK r \in 0..BlockLen-1 : r = a % BlockLen
      BY <3>1
    <3>3. PICK n \in Nat : n = At(k) + r + 1 /\ n - 1 = At(k) + r
      <4>1. At(k) + r + 1 \in Nat /\ (At(k) + r + 1) - 1 = At(k) + r
        BY <1>2
      <4>. QED
        BY <4>1
    <3>4. n \in 1..Made /\ n \in (At(k) + 1)..Made
      <4>1. \A u, b, m \in Nat : \A v \in 0..b-1 :
              u + b <= m => u + v + 1 \in 1..m /\ u + v + 1 \in (u + 1)..m
        OBVIOUS
      <4>2. At(k) + BlockLen <= Made
        BY <1>1, <1>2
      <4>. QED
        BY <1>2, <3>3, <4>1, <4>2, Zenon
    <3>5. stream[n] = ram[RamAddr(n - 1)]
      BY <3>4 DEF InRam
    <3>6. RamAddr(n - 1) = memaddr_last_packet + r
      BY <1>1, <3>3, WordAddress
    <3>7. dma_buf'[a] = ram[memaddr_last_packet + r]
      BY <1>1, <2>1, <2>2, <3>2
    <3>8. (n - 1) % HostLen = a
      BY <3>1, <3>2, <3>3
    <3>. QED
      BY <3>4, <3>5, <3>6, <3>7, <3>8 DEF Made
  <2>3. CASE a \div BlockLen # remote
    <3>1. dma_buf'[a] = dma_buf[a]
      BY <1>1, <2>1, <2>3
    <3>. QED
      BY <1>3, <1>4, <3>1 DEF OnTheHost
  <2>. QED
    BY <2>2, <2>3
<1>5. OnTheHost'
  BY <1>1, <1>4 DEF OnTheHost
<1>6. Clean'
  BY <1>1, <1>3 DEF Clean, Starting, Sync
<1>. QED
  BY <1>5, <1>6

LEMMA HostNext ==
  ASSUME TInv, NEW k \in Nat, Ring(k), InRam(k), Sync, Clean, OnTheHost, [Next]_vars, early' = 0
  PROVE  Clean' /\ OnTheHost'
<1>0. {wen, dma_enabled} \subseteq BOOLEAN
  BY TypeFacts
<1>1. CASE UNCHANGED <<stream, dma_buf>> /\ (Starting' => Starting)
  BY <1>1 DEF Clean, OnTheHost
<1>2. CASE Receive \/ DropHit \/ EndRun \/ UNCHANGED vars \/ TakeBlock \/ SendControl
  <2>1. UNCHANGED <<stream, dma_buf, wen, dma_enabled, pc>>
    BY <1>2 DEF Receive, DropHit, EndRun, vars, TakeBlock, SendControl, memory, host, thread, pipe
  <2>2. state' = "disabled" <=> state = "disabled"
    BY <1>2 DEF Receive, DropHit, EndRun, vars, TakeBlock, SendControl, engine
  <2>. QED
    BY <1>1, <2>1, <2>2 DEF Starting
<1>3. CASE Disabled
  <2>1. UNCHANGED <<stream, dma_buf, wen, dma_enabled, pc>> /\ ~dma_enabled /\ state = "waiting"
    BY <1>3 DEF Disabled, memory, host, thread, pipe
  <2>2. state' = "disabled" /\ ~wen /\ pc # "enable"
    BY <1>3, <2>1 DEF Disabled, Sync
  <2>. QED
    BY <1>1, <2>1, <2>2 DEF Starting
<1>4. CASE EnableReadout \/ Disable \/ Copy
  <2>1. UNCHANGED <<stream, dma_buf, dma_enabled, state>>
    BY <1>4 DEF EnableReadout, Disable, Copy, Firmware, memory, host, pipe, engine
  <2>2. (wen' => wen \/ pc = "enable") /\ pc' # "enable"
    BY <1>4 DEF EnableReadout, Disable, Copy
  <2>. QED
    BY <1>1, <2>1, <2>2 DEF Starting
<1>5. CASE Fill \/ BeginRun
  <2>1. dma_buf' = Filled
    BY <1>5 DEF Fill, BeginRun
  <2>2. \A a \in 0..maxwords-1 : dma_buf'[a] = Ones
    BY <2>1, FilledClean
  <2>. QED
    BY <2>2 DEF Clean, OnTheHost
<1>. QED
  BY <1>2, <1>3, <1>4, <1>5, HostClock, HostSend DEF Next, Engine, Thread

-----------------------------------------------------------------------------
(* A run without timeouts and stops in which the thread waits and the ring *)
(* does not slip. Written: the words put out since the engine was          *)
(* disabled, the one on its way included.                                  *)

Written == IF wren_reg THEN Append(stream, data_reg) ELSE stream
Emitted == Len(Written)

\* Where the builder is in the event, and the engine and the thread with it. Unasked: the
\* engine is at rest. Full: all of the event is put out.
Unasked == event_builder_state = "waiting" /\ ~done /\ ~wren_reg /\ state = "disabled" /\ ~dma_enabled
Full == /\ event_builder_state = "waiting" /\ Emitted = maxwords + BlockLen /\ state # "disabled"
        /\ \/ pc = "poll" /\ done
           \/ pc = "copy" /\ ~wren_reg /\ start_dma = {} /\ (done => dma_enabled)
Place ==
  \/ event_builder_state = "write_hits" /\ word_counter >= 2 /\ Emitted = maxwords - word_counter
  \/ event_builder_state = "write_last_hit" /\ word_counter = 1 /\ Emitted = maxwords - 1
  \/ event_builder_state = "write_4kb_padding" /\ Emitted = maxwords + cnt_4kb
Building ==
  /\ event_builder_state # "waiting" /\ ~done /\ pc = "poll" /\ dma_enabled /\ Place
  /\ state = "disabled" => Written = <<>>
Phase == running /\ (Unasked \/ Full \/ Building)

LEMMA UndisturbedStays ==
  ASSUME TInv, [Next]_vars, Undisturbed'
  PROVE  Undisturbed /\ early' = 0 /\ ~slip'
<1>1. early' = 0 /\ ~slip' /\ timeouts' = 0 /\ stops' = 0
  BY DEF Undisturbed
<1>2. early = 0 /\ ~slip
  BY <1>1, EarlyStays, SlipStays
<1>3. timeouts \in Nat /\ stops \in Nat
  BY TallyFacts
<1>4. CASE Disable
  <2>1. stops' = stops /\ timeouts' \in {timeouts, timeouts + 1}
    BY <1>4 DEF Disable
  <2>. QED
    BY <1>1, <1>2, <1>3, <2>1 DEF Undisturbed
<1>5. CASE EndRun
  <2>1. stops' = stops + 1 /\ timeouts' = timeouts
    BY <1>5 DEF EndRun, thread
  <2>. QED
    BY <1>1, <1>2, <1>3, <2>1 DEF Undisturbed
<1>6. ASSUME ~(Disable \/ EndRun)
      PROVE  UNCHANGED <<stops, timeouts>>
  BY <1>6 DEF Next, Clock, Receive, DropHit, Engine, Disabled, TakeBlock, SendBlock, SendControl, Thread, Fill,
              EnableReadout, Copy, BeginRun, vars, thread
<1>. QED
  BY <1>1, <1>2, <1>4, <1>5, <1>6 DEF Undisturbed

LEMMA PhaseFacts ==
  ASSUME TInv
  PROVE  /\ word_counter \in 0..2^Width-1 /\ cnt_4kb \in 0..BlockLen-1
         /\ {done, wen, wren_reg, dma_enabled} \subseteq BOOLEAN
BY DEF TInv, TypeOK

LEMMA WrittenFacts ==
  ASSUME TInv
  PROVE  /\ Written \in Seq(Word) /\ Emitted \in Nat /\ Made \in Nat /\ Made <= Emitted
         /\ IF wren_reg THEN Emitted = Made + 1 /\ Written[Emitted] = data_reg ELSE Emitted = Made
         /\ \A j \in 1..Made : Written[j] = stream[j]
         /\ Emitted = 0 => Written = <<>>
<1>1. stream \in Seq(Word) /\ data_reg \in Word /\ wren_reg \in BOOLEAN
  BY TypeFacts
<1>2. Written \in Seq(Word)
  BY <1>1 DEF Written
<1>3. CASE wren_reg
  <2>1. Written = Append(stream, data_reg)
    BY <1>3 DEF Written
  <2>. QED
    BY <1>1, <1>2, <1>3, <2>1 DEF Emitted, Made
<1>4. CASE ~wren_reg
  <2>1. Written = stream
    BY <1>4 DEF Written
  <2>. QED
    BY <1>1, <1>2, <1>4, <2>1 DEF Emitted, Made
<1>. QED
  BY <1>2, <1>3, <1>4

\* A word more.
LEMMA AppendFacts ==
  ASSUME TInv, NEW w, Written' = Append(Written, w)
  PROVE  /\ Emitted' = Emitted + 1 /\ Emitted \in Nat /\ Written'[Emitted + 1] = w
         /\ \A j \in 1..Emitted : Written'[j] = Written[j]
<1>1. Written \in Seq(Word)
  BY WrittenFacts
<1>. QED
  BY <1>1 DEF Emitted

LEMMA PhaseBound ==
  ASSUME TInv, Phase, state # "disabled"
  PROVE  Emitted <= maxwords + BlockLen
<1>1. word_counter \in Nat /\ cnt_4kb \in Nat /\ cnt_4kb < BlockLen
  BY PhaseFacts, SizeFacts
<1>2. maxwords \in Nat /\ BlockLen \in Nat
  BY SizeFacts
<1>. QED
  BY <1>1, <1>2 DEF Phase, Unasked, Full, Building, Place

\* The thread stops polling because it has seen done.
LEMMA DisableDone ==
  ASSUME TInv, Undisturbed, Undisturbed', Phase, Disable
  PROVE  done /\ outcome' = "done" /\ Full /\ pc = "poll" /\ ~wren_reg /\ start_dma = {}
<1>1. timeouts = 0 /\ timeouts' = 0 /\ running /\ early' = 0
  BY DEF Undisturbed, Phase
<1>2. outcome' # "timeout"
  BY <1>1 DEF Disable
<1>3. done /\ outcome' = "done" /\ pc = "poll"
  BY <1>1, <1>2 DEF Disable
<1>4. ~(done /\ (wren_reg \/ start_dma # {}))
  <2>1. Early(done /\ (wren_reg \/ start_dma # {})) /\ (done /\ (wren_reg \/ start_dma # {})) \in BOOLEAN
    BY DEF Disable
  <2>. QED
    BY <1>1, <2>1, BusyIsEarly
<1>. QED
  BY <1>3, <1>4 DEF Phase, Unasked, Full, Building

LEMMA PhaseInit == Init => Phase
  BY DEF Init, Phase, Unasked

\* A clock: what is put out.
LEMMA ClockMemory ==
  ASSUME TInv, Clock
  PROVE  /\ UNCHANGED <<nhits, hit_drop_cnt, lost, wen, host, running, stops, thread>> /\ dma_enabled' = wen
         /\ Written' = IF wren_reg' THEN Append(stream', data_reg') ELSE stream'
         /\ state # "disabled" => stream' = Written /\ state' = state /\ (~wren_reg => start_dma' = {})
         /\ state = "disabled" => /\ stream' = <<>> /\ state' = IF dma_enabled THEN "waiting" ELSE "disabled"
                                  /\ Reset
<1>1. UNCHANGED <<nhits, hit_drop_cnt, lost, wen, host, running, stops, thread>> /\ dma_enabled' = wen
  BY DEF Clock
<1>2. state # "disabled" => stream' = Written /\ state' = state /\ (~wren_reg => start_dma' = {})
  BY DEF Clock, Store, Reset, Written
<1>3. state = "disabled" => /\ stream' = <<>> /\ state' = IF dma_enabled THEN "waiting" ELSE "disabled"
                            /\ Reset
  BY DEF Clock, Store, Reset
<1>. QED
  BY <1>1, <1>2, <1>3 DEF Written

Puts(w) == wren_reg' = TRUE /\ data_reg' = w
LEMMA ClockBuilder ==
  ASSUME TInv, Sync, Phase, Clock
  PROVE  \/ /\ Unasked /\ ~wen /\ ~wren_reg' /\ fifo' = fifo
            /\ event_builder_state' = "waiting" /\ ~done'
         \/ /\ Unasked /\ wen /\ ~wren_reg' /\ fifo' = fifo
            /\ event_builder_state' = "write_hits" /\ word_counter' = maxwords /\ ~done'
         \/ /\ ~Unasked /\ ~wren_reg' /\ fifo' = fifo /\ done' = (done /\ wen)
            /\ UNCHANGED <<event_builder_state, cnt_4kb>> /\ (wen => word_counter' = word_counter)
         \/ /\ Building /\ WriteHit /\ fifo # <<>> /\ fifo' = Tail(fifo) /\ Puts(Head(fifo))
            /\ Emitted + 1 <= maxwords
         \/ Building /\ WritePadding /\ fifo' = fifo /\ Puts(Ones) /\ Emitted + 1 > maxwords
<1>0. Emitted \in Nat /\ maxwords \in Nat /\ word_counter \in Nat /\ cnt_4kb \in Nat
      /\ {done, wen, wren_reg, dma_enabled} \subseteq BOOLEAN
  BY WrittenFacts, PhaseFacts, SizeFacts
<1>1. CASE Request
  <2>1. pc = "poll" /\ wen /\ ~done /\ event_builder_state = "waiting"
    BY <1>1 DEF Request, Sync
  <2>2. Unasked
    BY <2>1 DEF Phase, Full, Building
  <2>. QED
    BY <1>1, <2>1, <2>2 DEF Request, PutNothing
<1>2. CASE WriteHit
  <2>1. fifo # <<>> /\ event_builder_state \in {"write_hits", "write_last_hit"} /\ fifo' = Tail(fifo)
        /\ Puts(Head(fifo))
    BY <1>2 DEF WriteHit, fifo_en, Put, Puts
  <2>2. Building
    BY <2>1 DEF Phase, Unasked, Full
  <2>3. Emitted + 1 <= maxwords
    <3>1. Emitted = maxwords - 1 \/ (Emitted = maxwords - word_counter /\ word_counter >= 2)
      BY <2>1, <2>2 DEF Building, Place
    <3>. QED
      BY <1>0, <3>1
  <2>. QED
    BY <1>2, <2>1, <2>2, <2>3
<1>3. CASE WritePadding
  <2>1. event_builder_state = "write_4kb_padding" /\ fifo' = fifo /\ Puts(Ones)
    BY <1>3 DEF WritePadding, Put, Puts
  <2>2. Building
    BY <2>1 DEF Phase, Unasked, Full
  <2>3. Emitted + 1 > maxwords
    BY <1>0, <2>1, <2>2 DEF Building, Place
  <2>. QED
    BY <1>3, <2>1, <2>2, <2>3
<1>4. CASE Idle
  <2>1. /\ ~wren_reg' /\ fifo' = fifo /\ done' = (done /\ wen)
        /\ UNCHANGED <<event_builder_state, cnt_4kb>> /\ (wen => word_counter' = word_counter)
    BY <1>4 DEF Idle, PutNothing
  <2>2. Unasked => ~wen
    BY <1>4 DEF Idle, Unasked
  <2>. QED
    BY <2>1, <2>2 DEF Unasked
<1>. QED
  BY <1>1, <1>2, <1>3, <1>4 DEF Clock, Builder

\* The words put out so far, after a clock.
LEMMA ClockWords ==
  ASSUME TInv, Sync, Phase, Clock
  PROVE  \/ Unasked /\ Written' = <<>> /\ fifo' = fifo
         \/ ~Unasked /\ Written' = Written /\ fifo' = fifo
         \/ /\ Building /\ fifo # <<>> /\ fifo' = Tail(fifo) /\ Written' = Append(Written, Head(fifo))
            /\ Emitted + 1 <= maxwords
         \/ Building /\ fifo' = fifo /\ Written' = Append(Written, Ones) /\ Emitted + 1 > maxwords
<1>1. Unasked => stream' = <<>>
  BY ClockMemory DEF Unasked
<1>2. ~Unasked => stream' = Written
  BY ClockMemory DEF Phase, Full, Building
<1>3. Building => ~Unasked
  BY DEF Building, Unasked
<1>4. Written' = IF wren_reg' THEN Append(stream', data_reg') ELSE stream'
  BY ClockMemory
<1>. QED
  BY <1>1, <1>2, <1>3, <1>4, ClockBuilder DEF Puts

LEMMA PhaseClock ==
  ASSUME TInv, Sync, Phase, Clock
  PROVE  Phase'
<1>0. /\ UNCHANGED <<running, pc, wen>> /\ dma_enabled' = wen /\ (state # "disabled" => state' = state)
      /\ (state = "disabled" => state' = IF dma_enabled THEN "waiting" ELSE "disabled")
  BY ClockMemory DEF thread
<1>a. /\ Emitted \in Nat /\ maxwords \in Nat /\ word_counter \in Nat /\ cnt_4kb \in Nat
      /\ BlockLen \in Nat \ {0} /\ maxwords > 2
      /\ {done, wen, wren_reg, dma_enabled} \subseteq BOOLEAN /\ running
  BY WrittenFacts, PhaseFacts, SizeFacts DEF Phase
<1>1. CASE /\ Unasked /\ ~wen /\ ~wren_reg' /\ fifo' = fifo
           /\ event_builder_state' = "waiting" /\ ~done'
  BY <1>0, <1>a, <1>1 DEF Phase, Unasked
<1>2. CASE /\ Unasked /\ wen /\ ~wren_reg' /\ fifo' = fifo
           /\ event_builder_state' = "write_hits" /\ word_counter' = maxwords /\ ~done'
  <2>1. Written' = <<>> /\ Emitted' = 0
    BY <1>2, ClockWords DEF Building, Unasked, Emitted
  <2>2. pc' = "poll" /\ dma_enabled'
    BY <1>0, <1>2 DEF Sync
  <2>. QED
    BY <1>0, <1>a, <1>2, <2>1, <2>2 DEF Phase, Building, Place
<1>3. CASE /\ ~Unasked /\ ~wren_reg' /\ fifo' = fifo /\ done' = (done /\ wen)
           /\ UNCHANGED <<event_builder_state, cnt_4kb>> /\ (wen => word_counter' = word_counter)
  <2>1. Written' = Written /\ Emitted' = Emitted
    <3>1. stream' = Written
      BY <1>3, ClockMemory DEF Phase, Full, Building
    <3>2. Written' = stream'
      BY <1>3, ClockMemory
    <3>. QED
      BY <3>1, <3>2 DEF Emitted
  <2>2. CASE Full
    <3>1. state' # "disabled" /\ (pc = "poll" => wen) /\ (pc = "copy" => start_dma' = {} /\ ~wen)
      <4>1. pc = "copy" => ~wren_reg
        BY <2>2 DEF Full
      <4>. QED
        BY <1>0, <2>2, <4>1, ClockMemory DEF Full, Sync
    <3>. QED
      BY <1>0, <1>a, <1>3, <2>1, <2>2, <3>1 DEF Full, Phase
  <2>3. CASE Building
    <3>1. wen /\ word_counter' = word_counter
      BY <1>3, <2>3 DEF Building, Sync
    <3>2. state' # "disabled"
      BY <1>0, <2>3 DEF Building
    <3>3. Place'
      BY <1>3, <2>1, <2>3, <3>1 DEF Building, Place
    <3>. QED
      BY <1>0, <1>a, <1>3, <2>3, <3>1, <3>2, <3>3 DEF Building, Phase
  <2>. QED
    BY <1>3, <2>2, <2>3 DEF Phase
<1>4. CASE Building /\ (WriteHit \/ WritePadding)
  <2>0. wen /\ pc' = "poll" /\ dma_enabled' /\ state' # "disabled" /\ ~done /\ running'
    BY <1>0, <1>a, <1>4 DEF Building, Sync
  <2>1. Emitted' = Emitted + 1
    <3>1. wren_reg' = TRUE
      BY <1>4 DEF WriteHit, WritePadding, Put
    <3>2. stream' = Written
      BY <1>4, ClockMemory DEF Building
    <3>3. Written' = Append(Written, data_reg')
      BY <3>1, <3>2, ClockMemory
    <3>. QED
      BY <3>3, AppendFacts
  <2>5. CASE WriteHit /\ event_builder_state = "write_last_hit"
    <3>1. cnt_4kb' = 0 /\ event_builder_state' = "write_4kb_padding" /\ ~done' /\ Emitted = maxwords - 1
      BY <1>4, <2>0, <2>5 DEF WriteHit, Building, Place
    <3>2. Emitted' = maxwords + 0
      BY <1>a, <2>1, <3>1
    <3>. QED
      BY <2>0, <3>1, <3>2 DEF Phase, Building, Place
  <2>6. CASE WriteHit /\ event_builder_state = "write_hits"
    <3>1. /\ word_counter' = (word_counter - 1) % 2^Width /\ ~done'
          /\ event_builder_state' = IF word_counter = 2 THEN "write_last_hit" ELSE "write_hits"
          /\ word_counter >= 2 /\ Emitted = maxwords - word_counter
      BY <1>4, <2>0, <2>6 DEF WriteHit, Building, Place
    <3>2. word_counter - 1 \in 0..2^Width-1 /\ word_counter \in Nat
      BY <3>1, PhaseFacts, SizeFacts
    <3>3. word_counter' = word_counter - 1
      BY <3>1, <3>2, ModSmall, SizeFacts
    <3>4. Emitted' = maxwords - (word_counter - 1)
      BY <1>a, <2>1, <3>1, <3>2
    <3>5. word_counter # 2 => word_counter - 1 >= 2
      BY <3>1, <3>2
    <3>. QED
      BY <2>0, <3>1, <3>2, <3>3, <3>4, <3>5 DEF Phase, Building, Place
  <2>7. CASE WritePadding
    <3>1. Emitted = maxwords + cnt_4kb /\ event_builder_state = "write_4kb_padding"
      BY <1>4, <2>7 DEF WritePadding, Building, Place
    <3>3. CASE cnt_4kb = BlockLen - 1
      <4>1. done' = TRUE /\ event_builder_state' = "waiting"
        BY <2>7, <3>3 DEF WritePadding
      <4>2. Emitted' = maxwords + BlockLen
        BY <1>a, <2>1, <3>1, <3>3
      <4>. QED
        BY <2>0, <4>1, <4>2 DEF Phase, Full
    <3>4. CASE cnt_4kb # BlockLen - 1
      <4>1. ~done' /\ event_builder_state' = event_builder_state /\ cnt_4kb' = cnt_4kb + 1
        BY <2>0, <2>7, <3>4 DEF WritePadding
      <4>2. Emitted' = maxwords + (cnt_4kb + 1)
        BY <1>a, <2>1, <3>1
      <4>. QED
        BY <2>0, <3>1, <4>1, <4>2 DEF Phase, Building, Place
    <3>. QED
      BY <3>3, <3>4
  <2>. QED
    BY <1>4, <2>5, <2>6, <2>7 DEF WriteHit, fifo_en
<1>. QED
  BY <1>1, <1>2, <1>3, <1>4, ClockBuilder

LEMMA PhaseNext ==
  ASSUME Undisturbed, Undisturbed', TInv, Sync, Phase, [Next]_vars
  PROVE  Phase'
<1>0. {done, wen, wren_reg, dma_enabled} \subseteq BOOLEAN
  BY PhaseFacts
<1>1. CASE /\ UNCHANGED <<running, event_builder_state, done, stream, word_counter, cnt_4kb, pc,
                          wren_reg, data_reg, dma_enabled, start_dma>>
           /\ state' = "disabled" <=> state = "disabled"
  <2>1. Written' = Written /\ Emitted' = Emitted
    BY <1>1 DEF Written, Emitted
  <2>. QED
    BY <1>1, <2>1 DEF Phase, Unasked, Full, Building, Place
<1>2. CASE Receive \/ DropHit \/ TakeBlock \/ SendBlock \/ SendControl \/ UNCHANGED vars
  <2>1. UNCHANGED <<running, event_builder_state, done, stream, word_counter, cnt_4kb, pc, wren_reg, data_reg,
                    dma_enabled, start_dma>>
    BY <1>2 DEF Receive, DropHit, TakeBlock, SendBlock, SendControl, vars, builder, memory, thread, pipe
  <2>2. state' = "disabled" <=> state = "disabled"
    BY <1>2 DEF Receive, DropHit, TakeBlock, SendBlock, SendControl, vars, engine
  <2>. QED
    BY <1>1, <2>1, <2>2
<1>3. CASE Clock
  BY <1>3, PhaseClock
<1>4. CASE Disabled
  <2>1. /\ state = "waiting" /\ ~dma_enabled /\ state' = "disabled"
        /\ UNCHANGED <<running, event_builder_state, done, wren_reg, dma_enabled>>
    BY <1>4 DEF Disabled, builder, pipe
  <2>2. ~wen /\ pc # "poll"
    BY <2>1 DEF Sync
  <2>3. Full /\ pc = "copy"
    BY <2>1, <2>2 DEF Phase, Unasked, Full, Building
  <2>. QED
    BY <2>1, <2>2, <2>3 DEF Phase, Full, Unasked
<1>5. CASE Fill \/ EnableReadout \/ Copy
  <2>1. state = "disabled" /\ ~dma_enabled
    BY <1>5, AtRest DEF Undisturbed
  <2>2. UNCHANGED <<running, event_builder_state, done, wren_reg, dma_enabled, state>>
    BY <1>5 DEF Fill, EnableReadout, Copy, Firmware, builder, pipe, engine
  <2>3. Unasked
    BY <2>1 DEF Phase, Full, Building
  <2>. QED
    BY <2>2, <2>3 DEF Phase, Unasked
<1>6. CASE Disable
  <2>1. Full /\ pc = "poll" /\ ~wren_reg /\ start_dma = {}
    BY <1>6, DisableDone
  <2>2. dma_enabled
    BY <2>1 DEF Full, Sync
  <2>3. /\ pc' = "copy"
        /\ UNCHANGED <<running, event_builder_state, done, stream, wren_reg, data_reg, dma_enabled, state,
                        start_dma>>
    BY <1>6 DEF Disable, Firmware, builder, pipe, engine, memory
  <2>4. Emitted' = Emitted
    BY <2>3 DEF Written, Emitted
  <2>. QED
    BY <2>1, <2>2, <2>3, <2>4 DEF Phase, Full
<1>7. ~EndRun /\ ~BeginRun
  BY DEF EndRun, BeginRun, Phase, Undisturbed
<1>. QED
  BY <1>2, <1>3, <1>4, <1>5, <1>6, <1>7 DEF Next, Engine, Thread

\* The address counter counts the words, and what it is compared with lies within the event.
Ends ==
  /\ memwriteaddr_long = Made
  /\ {memwriteaddreoe_long, memwriteaddreoedma_long, ctrl} \subseteq 0..maxwords
  /\ endofevent_reg => Made \in 0..maxwords
  /\ ~wren_reg => data_reg = Ones

LEMMA EndsInit == Init => Ends
<1>1. 0 \in 0..maxwords
  BY SizeFacts
<1>. QED
  BY <1>1 DEF Init, Ends, Made

LEMMA EndsNext ==
  ASSUME TInv, Sync, Phase, Ends, [Next]_vars
  PROVE  Ends'
<1>0. Made \in Nat /\ maxwords \in Nat /\ {wren_reg, endofevent_reg} \subseteq BOOLEAN
  BY TypeFacts, SizeFacts
<1>1. CASE UNCHANGED <<stream, memwriteaddr_long, memwriteaddreoe_long, endofevent_reg, wren_reg, data_reg>>
           /\ memwriteaddreoedma_long' \in {memwriteaddreoe_long, memwriteaddreoedma_long}
           /\ ctrl' \in {ctrl, memwriteaddreoedma_long}
  BY <1>1 DEF Ends, Made
<1>2. CASE Clock
  <2>1. endofevent_reg' => Building /\ Emitted = maxwords - 1
    <3>1. CASE WriteHit
      <4>1. Building
        BY <3>1 DEF WriteHit, fifo_en, Phase, Unasked, Full
      <4>2. endofevent_reg' = (event_builder_state = "write_last_hit")
        BY <3>1 DEF WriteHit, Put
      <4>. QED
        BY <4>1, <4>2 DEF Building, Place
    <3>2. CASE Request \/ WritePadding \/ Idle
      BY <3>2 DEF Request, WritePadding, Idle, Put, PutNothing
    <3>. QED
      BY <1>2, <3>1, <3>2 DEF Clock, Builder
  <2>2. ~wren_reg' => data_reg' = Ones
    BY <1>2 DEF Clock, Builder, Request, WriteHit, WritePadding, Idle, Put, PutNothing
  <2>3. endofevent_reg' => Made' \in 0..maxwords
    <3>. SUFFICES ASSUME endofevent_reg' PROVE Made' \in 0..maxwords
      OBVIOUS
    <3>1. stream' = Written /\ Emitted = maxwords - 1
      BY <1>2, <2>1, ClockMemory DEF Building
    <3>. QED
      BY <1>0, <3>1, WrittenFacts DEF Made, Emitted
  <2>4. UNCHANGED ctrl
    BY <1>2 DEF Clock, host
  <2>5. CASE Store
    <3>1. memwriteaddr_long' = Made'
      <4>1. CASE wren_reg
        BY <1>0, <2>5, <4>1, TypeFacts DEF Store, Made, Ends
      <4>2. CASE ~wren_reg
        BY <2>5, <4>2 DEF Store, Made, Ends
      <4>. QED
        BY <4>1, <4>2
    <3>2. memwriteaddreoe_long' \in 0..maxwords /\ memwriteaddreoedma_long' = memwriteaddreoedma_long
      BY <2>5 DEF Store, Ends
    <3>. QED
      BY <2>2, <2>3, <2>4, <3>1, <3>2 DEF Ends
  <2>6. CASE Reset
    <3>1. memwriteaddr_long' = 0 /\ Made' = 0 /\ memwriteaddreoedma_long' = 0
          /\ UNCHANGED memwriteaddreoe_long
      BY <2>6 DEF Reset, Made
    <3>2. 0 \in 0..maxwords
      BY SizeFacts
    <3>. QED
      BY <2>2, <2>3, <2>4, <3>1, <3>2 DEF Ends
  <2>. QED
    BY <1>2, <2>5, <2>6 DEF Clock
<1>3. ASSUME ~Clock
      PROVE  UNCHANGED <<stream, memwriteaddr_long, memwriteaddreoe_long, endofevent_reg, wren_reg, data_reg>>
             /\ memwriteaddreoedma_long' \in {memwriteaddreoe_long, memwriteaddreoedma_long}
             /\ ctrl' \in {ctrl, memwriteaddreoedma_long}
  BY <1>3 DEF Next, Receive, DropHit, Engine, Disabled, TakeBlock, SendBlock, SendControl, Thread, Fill,
              EnableReadout, Disable, Copy, EndRun, BeginRun, vars, Firmware, memory, engine, host, pipe
<1>. QED
  BY <1>1, <1>2, <1>3

\* Hits are numbered in the order they come: what waits in the FIFO is later than all that
\* left it, and the event is hits in their order with padding behind.
FifoOrder ==
  /\ lost \subseteq 1..nhits
  /\ \A i \in 1..Len(fifo) : fifo[i] \in 1..nhits /\ \A x \in lost : x < fifo[i]
  /\ \A i, j \in 1..Len(fifo) : i < j => fifo[i] < fifo[j]
StreamOrder ==
  /\ \A j \in 1..Emitted : IF j <= maxwords THEN Written[j] \in 1..nhits ELSE Written[j] = Ones
  /\ \A j \in 1..Emitted, i \in 1..Len(fifo) : Written[j] < fifo[i]
  /\ \A i, j \in 1..Emitted : i < j /\ j <= maxwords => Written[i] < Written[j]

LEMMA TailFacts ==
  ASSUME TInv, fifo # <<>>
  PROVE  /\ Len(Tail(fifo)) = Len(fifo) - 1 /\ Len(fifo) \in Nat /\ Len(fifo) >= 1 /\ Head(fifo) = fifo[1]
         /\ \A i \in 1..Len(Tail(fifo)) : Tail(fifo)[i] = fifo[i + 1] /\ i + 1 \in 1..Len(fifo)
<1>1. fifo \in Seq(1..MaxHits)
  BY CountFacts
<1>. QED
  BY <1>1

LEMMA OrderInit == Init => FifoOrder /\ StreamOrder
  BY DEF Init, FifoOrder, StreamOrder, Emitted, Written

LEMMA FifoOrderNext ==
  ASSUME TInv, Sync, Phase, FifoOrder, [Next]_vars
  PROVE  FifoOrder'
<1>1. CASE UNCHANGED <<nhits, fifo, lost>>
  BY <1>1 DEF FifoOrder
<1>2. CASE Receive
  <2>1. nhits' = nhits + 1 /\ fifo' = Append(fifo, nhits + 1) /\ lost' = lost
    BY <1>2 DEF Receive
  <2>2. nhits \in Nat /\ fifo \in Seq(1..MaxHits)
    BY CountFacts
  <2>3. Len(fifo') = Len(fifo) + 1 /\ Len(fifo) \in Nat /\ fifo'[Len(fifo) + 1] = nhits + 1
        /\ \A i \in 1..Len(fifo) : fifo'[i] = fifo[i]
    BY <2>1, <2>2
  <2>4. \A i \in 1..Len(fifo') : i \in 1..Len(fifo) \/ i = Len(fifo) + 1
    BY <2>3
  <2>5. nhits + 1 \in 1..nhits' /\ \A x \in 1..nhits : x \in 1..nhits' /\ x < nhits + 1
    BY <2>1, <2>2
  <2>6. lost' \subseteq 1..nhits'
    BY <2>1, <2>5 DEF FifoOrder
  <2>7. ASSUME NEW i \in 1..Len(fifo')
        PROVE  fifo'[i] \in 1..nhits' /\ \A x \in lost' : x < fifo'[i]
    BY <2>1, <2>3, <2>4, <2>5, Zenon DEF FifoOrder
  <2>8. ASSUME NEW i \in 1..Len(fifo'), NEW j \in 1..Len(fifo'), i < j
        PROVE  fifo'[i] < fifo'[j]
    <3>1. i \in 1..Len(fifo)
      BY <2>3, <2>8
    <3>2. CASE j \in 1..Len(fifo)
      BY <2>3, <2>8, <3>1, <3>2 DEF FifoOrder
    <3>3. CASE j = Len(fifo) + 1
      BY <2>3, <2>5, <3>1, <3>3 DEF FifoOrder
    <3>. QED
      BY <2>4, <3>2, <3>3
  <2>. QED
    BY <2>6, <2>7, <2>8 DEF FifoOrder
<1>3. CASE nhits' = nhits /\ fifo # <<>> /\ fifo' = Tail(fifo) /\ lost' \in {lost, lost \cup {Head(fifo)}}
  <2>1. /\ Len(fifo') = Len(fifo) - 1 /\ Len(fifo) \in Nat /\ Len(fifo) >= 1 /\ Head(fifo) = fifo[1]
        /\ \A i \in 1..Len(fifo') : fifo'[i] = fifo[i + 1] /\ i + 1 \in 1..Len(fifo)
    BY <1>3, TailFacts
  <2>2. 1 \in 1..Len(fifo) /\ \A i \in 1..Len(fifo') : 1 < i + 1
    BY <2>1
  <2>3. lost' \subseteq 1..nhits'
    BY <1>3, <2>1, <2>2 DEF FifoOrder
  <2>4. ASSUME NEW i \in 1..Len(fifo')
        PROVE  fifo'[i] \in 1..nhits' /\ \A x \in lost' : x < fifo'[i]
    <3>1. i + 1 \in 1..Len(fifo) /\ fifo'[i] = fifo[i + 1] /\ fifo[1] < fifo[i + 1]
      BY <2>1, <2>2 DEF FifoOrder
    <3>. QED
      BY <1>3, <2>1, <3>1 DEF FifoOrder
  <2>5. ASSUME NEW i \in 1..Len(fifo'), NEW j \in 1..Len(fifo'), i < j
        PROVE  fifo'[i] < fifo'[j]
    <3>1. i + 1 < j + 1
      BY <2>5
    <3>. QED
      BY <2>1, <3>1 DEF FifoOrder
  <2>. QED
    BY <2>3, <2>4, <2>5 DEF FifoOrder
<1>4. CASE DropHit
  <2>1. fifo # <<>>
    BY <1>4, SizeFacts DEF DropHit
  <2>. QED
    BY <1>3, <1>4, <2>1 DEF DropHit
<1>5. CASE Clock
  <2>1. \/ nhits' = nhits /\ fifo # <<>> /\ fifo' = Tail(fifo) /\ lost' = lost
        \/ UNCHANGED <<nhits, fifo, lost>>
    BY <1>5, ClockWords, ClockMemory
  <2>. QED
    BY <1>1, <1>3, <2>1
<1>6. CASE BeginRun
  BY <1>6 DEF BeginRun, Phase
<1>7. ASSUME ~(Receive \/ DropHit \/ Clock \/ BeginRun)
      PROVE  UNCHANGED <<nhits, fifo, lost>>
  BY <1>7 DEF Next, Engine, Disabled, TakeBlock, SendBlock, SendControl, Thread, Fill, EnableReadout, Disable,
              Copy, EndRun, vars, hits, Firmware
<1>. QED
  BY <1>1, <1>2, <1>4, <1>5, <1>6, <1>7

LEMMA StreamOrderNext ==
  ASSUME TInv, Sync, Phase, FifoOrder, StreamOrder, [Next]_vars
  PROVE  StreamOrder'
<1>1. CASE UNCHANGED <<nhits, fifo, stream, wren_reg, data_reg>>
  <2>1. Written' = Written /\ Emitted' = Emitted
    BY <1>1 DEF Written, Emitted
  <2>. QED
    BY <1>1, <2>1 DEF StreamOrder
<1>0. Emitted \in Nat /\ maxwords \in Nat /\ nhits \in Nat /\ Ones = 0
  BY WrittenFacts, TypeFacts, SizeFacts DEF Ones
<1>2. \A j \in 1..Emitted : Written[j] \in 0..nhits
  BY <1>0 DEF StreamOrder
<1>3. CASE Receive
  <2>0. UNCHANGED <<stream, wren_reg, data_reg>>
    BY <1>3 DEF Receive, memory, pipe
  <2>1. nhits' = nhits + 1 /\ fifo' = Append(fifo, nhits + 1) /\ Written' = Written /\ Emitted' = Emitted
    BY <1>3, <2>0 DEF Receive, Written, Emitted
  <2>2. fifo \in Seq(1..MaxHits)
    BY CountFacts
  <2>3. Len(fifo') = Len(fifo) + 1 /\ Len(fifo) \in Nat /\ fifo'[Len(fifo) + 1] = nhits + 1
        /\ \A i \in 1..Len(fifo) : fifo'[i] = fifo[i]
    BY <2>1, <2>2
  <2>4. \A i \in 1..Len(fifo') : i \in 1..Len(fifo) \/ i = Len(fifo) + 1
    BY <2>3
  <2>5. \A x \in 1..nhits : x \in 1..nhits'
    BY <1>0, <2>1
  <2>6. \A x \in 0..nhits : x < nhits + 1
    BY <1>0
  <2>7. \A j \in 1..Emitted', i \in 1..Len(fifo') : Written'[j] < fifo'[i]
    BY <1>2, <2>1, <2>3, <2>4, <2>6, Zenon DEF StreamOrder
  <2>. QED
    BY <2>1, <2>5, <2>7 DEF StreamOrder
<1>4. CASE DropHit
  <2>0. UNCHANGED <<stream, wren_reg, data_reg>>
    BY <1>4 DEF DropHit, memory, pipe
  <2>1. fifo # <<>>
    BY <1>4, SizeFacts DEF DropHit
  <2>2. fifo' = Tail(fifo) /\ nhits' = nhits /\ Written' = Written /\ Emitted' = Emitted
    BY <1>4, <2>0 DEF DropHit, Written, Emitted
  <2>3. \A i \in 1..Len(fifo') : fifo'[i] = fifo[i + 1] /\ i + 1 \in 1..Len(fifo)
    BY <2>1, <2>2, TailFacts
  <2>. QED
    BY <2>2, <2>3 DEF StreamOrder
<1>5. ASSUME NEW w, Written' = Append(Written, w), nhits' = nhits,
             \/ fifo # <<>> /\ fifo' = Tail(fifo) /\ w = Head(fifo) /\ Emitted + 1 <= maxwords
             \/ fifo' = fifo /\ w = Ones /\ Emitted + 1 > maxwords
      PROVE  StreamOrder'
  <2>2. /\ Emitted' = Emitted + 1 /\ Written'[Emitted + 1] = w
        /\ \A j \in 1..Emitted : Written'[j] = Written[j]
    BY <1>5, AppendFacts
  <2>3. \A j \in 1..Emitted' : j \in 1..Emitted \/ j = Emitted + 1
    BY <1>0, <2>2
  <2>4. IF Emitted + 1 <= maxwords THEN w \in 1..nhits ELSE w = Ones
    <3>1. CASE fifo # <<>> /\ w = Head(fifo) /\ Emitted + 1 <= maxwords
      <4>1. 1 \in 1..Len(fifo) /\ Head(fifo) = fifo[1]
        BY <3>1, TailFacts
      <4>. QED
        BY <3>1, <4>1 DEF FifoOrder
    <3>2. CASE w = Ones /\ Emitted + 1 > maxwords
      BY <1>0, <3>2
    <3>. QED
      BY <1>5, <3>1, <3>2
  <2>5. \A i \in 1..Len(fifo') : w < fifo'[i]
    <3>1. CASE fifo # <<>> /\ fifo' = Tail(fifo) /\ w = Head(fifo)
      <4>1. /\ Len(fifo) \in Nat /\ Len(fifo) >= 1 /\ w = fifo[1]
            /\ \A i \in 1..Len(fifo') : fifo'[i] = fifo[i + 1] /\ i + 1 \in 1..Len(fifo)
        BY <3>1, TailFacts
      <4>2. 1 \in 1..Len(fifo) /\ \A i \in 1..Len(fifo') : 1 < i + 1
        BY <4>1
      <4>. QED
        BY <4>1, <4>2 DEF FifoOrder
    <3>2. CASE fifo' = fifo /\ w = Ones
      <4>1. \A x \in 1..nhits : 0 < x
        BY <1>0
      <4>. QED
        BY <1>0, <3>2, <4>1 DEF FifoOrder
    <3>. QED
      BY <1>5, <3>1, <3>2
  <2>6. \A i \in 1..Len(fifo') : \E j \in 1..Len(fifo) : fifo'[i] = fifo[j]
    <3>1. CASE fifo # <<>> /\ fifo' = Tail(fifo)
      BY <3>1, TailFacts
    <3>. QED
      BY <1>5, <3>1
  <2>7. \A j \in 1..Emitted', i \in 1..Len(fifo') : Written'[j] < fifo'[i]
    <3>. SUFFICES ASSUME NEW j \in 1..Emitted', NEW i \in 1..Len(fifo') PROVE Written'[j] < fifo'[i]
      OBVIOUS
    <3>1. CASE j \in 1..Emitted
      <4>1. PICK n \in 1..Len(fifo) : fifo'[i] = fifo[n]
        BY <2>6
      <4>. QED
        BY <2>2, <3>1, <4>1 DEF StreamOrder
    <3>2. CASE j = Emitted + 1
      BY <2>2, <2>5, <3>2
    <3>. QED
      BY <2>3, <3>1, <3>2
  <2>8. \A j \in 1..Emitted' : IF j <= maxwords THEN Written'[j] \in 1..nhits' ELSE Written'[j] = Ones
    BY <1>5, <2>2, <2>3, <2>4 DEF StreamOrder
  <2>9. ASSUME NEW i \in 1..Emitted', NEW j \in 1..Emitted', i < j, j <= maxwords
        PROVE  Written'[i] < Written'[j]
    <3>1. i \in 1..Emitted
      BY <1>0, <2>2, <2>9
    <3>2. CASE j \in 1..Emitted
      BY <2>2, <2>9, <3>1, <3>2 DEF StreamOrder
    <3>3. CASE j = Emitted + 1
      <4>1. fifo # <<>> /\ w = Head(fifo)
        BY <1>0, <1>5, <2>9, <3>3
      <4>2. 1 \in 1..Len(fifo) /\ w = fifo[1]
        BY <4>1, TailFacts
      <4>. QED
        BY <2>2, <3>1, <3>3, <4>2 DEF StreamOrder
    <3>. QED
      BY <2>3, <3>2, <3>3
  <2>. QED
    BY <2>7, <2>8, <2>9 DEF StreamOrder
<1>6. CASE Clock
  <2>1. nhits' = nhits
    BY <1>6, ClockMemory
  <2>2. CASE Written' = <<>>
    <3>1. Emitted' = 0
      BY <2>2 DEF Emitted
    <3>. QED
      BY <3>1 DEF StreamOrder
  <2>3. CASE Written' = Written /\ fifo' = fifo
    BY <2>1, <2>3 DEF StreamOrder, Emitted
  <2>. QED
    BY <1>5, <1>6, <2>1, <2>2, <2>3, ClockWords
<1>7. CASE BeginRun
  BY <1>7 DEF BeginRun, Phase
<1>8. ASSUME ~(Receive \/ DropHit \/ Clock \/ BeginRun)
      PROVE  UNCHANGED <<nhits, fifo, stream, wren_reg, data_reg>>
  BY <1>8 DEF Next, Engine, Disabled, TakeBlock, SendBlock, SendControl, Thread, Fill, EnableReadout, Disable,
              Copy, EndRun, vars, hits, Firmware, memory, pipe
<1>. QED
  BY <1>1, <1>3, <1>4, <1>6, <1>7, <1>8

-----------------------------------------------------------------------------
(* The buffer of the host in such a run. While the engine is not disabled  *)
(* it has the k blocks that were sent and is clean behind them; no block   *)
(* goes round its end. What is found in it afterwards is the whole event.  *)

Mirror(k) == \A a \in 0..HostLen-1 : dma_buf[a] = IF a < At(k) THEN stream[a + 1] ELSE Ones
Whole == \A a \in 0..maxwords-1 : dma_buf[a] # Ones /\ (a > 0 => dma_buf[a] > dma_buf[a-1])
OnHost(k) ==
  /\ state # "disabled" => Mirror(k)
  /\ \A a \in 0..HostLen-1 : a >= maxwords => dma_buf[a] = Ones
  /\ pc = "top" => \A a \in 0..maxwords-1 : dma_buf[a] \in copied \cup {Ones}
  /\ pc = "copy" => outcome = "done" /\ (state = "disabled" => Whole)

\* The number of blocks sent, but for a clock of a disabled engine.
LEMMA AfterIs ==
  ASSUME TInv, NEW k \in Nat, Ring(k), [Next]_vars
  PROVE  After(k) = IF Clock /\ state = "disabled" THEN 0 ELSE IF SendBlock THEN k + 1 ELSE k
<1>1. CASE Clock
  <2>1. CASE state = "disabled"
    BY <1>1, <2>1, ClockMemory DEF After
  <2>2. CASE state # "disabled"
    <3>1. ~Reset /\ ~SendBlock
      BY <1>1, <2>2 DEF Clock, Store, Reset, SendBlock
    <3>. QED
      BY <2>2, <3>1 DEF After
  <2>. QED
    BY <2>1, <2>2
<1>2. CASE ~Clock /\ Reset
  <2>1. stream' = stream /\ ~SendBlock
    BY <1>2 DEF Next, Receive, DropHit, Engine, Disabled, TakeBlock, SendBlock, SendControl, Thread, Fill,
                EnableReadout, Disable, Copy, EndRun, BeginRun, vars, Firmware, memory, Reset
  <2>2. Made = 0 /\ state # "running"
    BY <1>2, <2>1 DEF Reset, Made
  <2>3. At(k) <= 0 /\ At(k) \in Nat /\ At(1) = At(0) + BlockLen /\ At(0) = 0 /\ BlockLen \in Nat \ {0}
    BY <2>2, AtFacts, SizeFacts DEF Ring, Span, Taken
  <2>4. k < 1
    BY <2>3, AtLess
  <2>. QED
    BY <1>2, <2>1, <2>4 DEF After
<1>3. CASE ~Clock /\ ~Reset
  BY <1>3 DEF After
<1>. QED
  BY <1>1, <1>2, <1>3

\* A block that is sent is put behind those before it.
LEMMA BlockSent ==
  ASSUME TInv, NEW k \in Nat, Ring(k), InRam(k), Phase, SendBlock
  PROVE  /\ At(k + 1) = At(k) + BlockLen /\ At(k) \in Nat /\ At(k + 1) <= Made /\ Made <= HostLen
         /\ \A a \in 0..HostLen-1 :
              dma_buf'[a] = IF At(k) <= a /\ a < At(k + 1) THEN stream[a + 1] ELSE dma_buf[a]
<1>1. /\ At(k + 1) <= Made /\ remote = HostBlock(k) /\ memaddr_last_packet = RamAddr(At(k))
      /\ dma_buf' = [a \in 0..HostLen-1 |->
                       IF a \div BlockLen = remote THEN ram[memaddr_last_packet + (a % BlockLen)]
                       ELSE dma_buf[a]]
  BY DEF SendBlock, Ring, Span, Noted, Taken, Unnoted
<1>2. At(k + 1) = At(k) + BlockLen /\ At(k) \in Nat /\ BlockLen \in Nat \ {0} /\ Made \in Nat
      /\ HostBlocks \in Nat \ {0} /\ HostLen \in Nat
  BY AtFacts, SizeFacts, TypeFacts
<1>3. Made <= HostLen
  <2>1. Emitted <= maxwords + BlockLen /\ Made <= Emitted /\ Emitted \in Nat
    BY PhaseBound, WrittenFacts DEF SendBlock
  <2>. QED
    BY <1>2, <2>1, SizeFacts
<1>4. HostBlock(k) = k
  <2>0. At(HostBlocks) = HostLen
    BY DEF At, HostLen
  <2>1. At(k) < At(HostBlocks)
    <3>1. \A u, b, m, h \in Nat : b # 0 /\ u + b <= m /\ m <= h => u < h
      OBVIOUS
    <3>2. At(k) + BlockLen <= Made
      BY <1>1, <1>2
    <3>. QED
      BY <1>2, <1>3, <2>0, <3>1, <3>2
  <2>2. k \in 0..HostBlocks-1
    BY <1>2, <2>1, AtLess
  <2>. QED
    BY <1>2, <2>2, ModSmall DEF HostBlock
<1>5. ASSUME NEW a \in 0..HostLen-1
      PROVE  dma_buf'[a] = IF At(k) <= a /\ a < At(k + 1) THEN stream[a + 1] ELSE dma_buf[a]
  <2>1. a \in 0..HostBlocks*BlockLen-1 /\ a \in Nat
    BY <1>5 DEF HostLen
  <2>2. /\ a % BlockLen \in 0..BlockLen-1 /\ a \div BlockLen \in 0..HostBlocks-1
        /\ a = (a \div BlockLen) * BlockLen + (a % BlockLen)
    BY <1>2, <2>1, BlockNumber
  <2>3. PICK q \in Nat, r \in 0..BlockLen-1 : q = a \div BlockLen /\ r = a % BlockLen
    BY <1>2, <2>2
  <2>4. a = At(q) + r
    BY <2>2, <2>3 DEF At
  <2>5. CASE q = k
    <3>1. At(k) <= a /\ a < At(k + 1)
      BY <1>2, <2>4, <2>5
    <3>2. a + 1 \in (At(k) + 1)..Made /\ (a + 1) - 1 = a
      <4>1. \A u, v, w, m \in Nat : u <= v /\ v < w /\ w <= m => v + 1 \in (u + 1)..m /\ (v + 1) - 1 = v
        OBVIOUS
      <4>2. At(k + 1) \in Nat
        BY <1>2
      <4>. QED
        BY <1>1, <1>2, <2>1, <3>1, <4>1, <4>2, Zenon
    <3>3. stream[a + 1] = ram[RamAddr(a)]
      BY <3>2 DEF InRam
    <3>4. RamAddr(a) = memaddr_last_packet + r
      BY <1>1, <2>4, <2>5, WordAddress
    <3>5. dma_buf'[a] = ram[memaddr_last_packet + r]
      BY <1>1, <1>4, <2>3, <2>5
    <3>. QED
      BY <3>1, <3>3, <3>4, <3>5
  <2>6. CASE q # k
    <3>1. dma_buf'[a] = dma_buf[a]
      BY <1>1, <1>4, <2>3, <2>6
    <3>2. ~(At(k) <= a /\ a < At(k + 1))
      <4>1. At(q + 1) = At(q) + BlockLen /\ At(q) \in Nat
        BY AtFacts
      <4>2. CASE q < k
        <5>1. At(q + 1) <= At(k)
          BY <4>2, AtFacts, SMTT(30)
        <5>. QED
          BY <1>2, <2>4, <4>1, <5>1
      <4>3. CASE k < q
        <5>1. At(k + 1) <= At(q)
          BY <4>3, AtFacts, SMTT(30)
        <5>. QED
          BY <1>2, <2>4, <4>1, <5>1
      <4>. QED
        BY <2>6, <4>2, <4>3
    <3>. QED
      BY <3>1, <3>2
  <2>. QED
    BY <2>5, <2>6
<1>. QED
  BY <1>1, <1>2, <1>3, <1>5

LEMMA OnHostInit == Init => OnHost(0)
<1>. SUFFICES ASSUME Init PROVE OnHost(0)
  OBVIOUS
<1>1. \A a \in 0..HostLen-1 : dma_buf[a] = Ones
  BY DEF Init
<1>2. \A a \in 0..maxwords-1 : a \in 0..HostLen-1
  BY SizeFacts
<1>3. state = "disabled" /\ pc = "top"
  BY DEF Init
<1>. QED
  BY <1>1, <1>2, <1>3 DEF OnHost

\* The engine is disabled when all of the event is on the host.
LEMMA DisabledWhole ==
  ASSUME TInv, NEW k \in Nat, Ring(k), Sync, Phase, StreamOrder, OnHost(k), Disabled
  PROVE  /\ Whole /\ pc = "copy" /\ maxwords <= At(k)
         /\ Made = maxwords + BlockLen /\ Emitted = Made /\ ~wren_reg /\ Written = stream
<1>0. {wen, dma_enabled, wren_reg} \subseteq BOOLEAN
  BY TypeFacts
<1>1. pc = "copy" /\ Full
  <2>1. state = "waiting" /\ ~dma_enabled
    BY DEF Disabled
  <2>2. pc # "poll"
    BY <1>0, <2>1 DEF Sync
  <2>. QED
    BY <2>1, <2>2 DEF Phase, Unasked, Full, Building
<1>2. enoughdata = {} /\ start_dma = {} /\ state = "waiting" /\ ~wren_reg
  BY <1>1 DEF Disabled, Full
<1>a. Written = stream /\ Emitted = Made
  BY <1>2 DEF Written, Emitted, Made
<1>3. At(k) \in Nat /\ At(k + 1) = At(k) + BlockLen /\ Made \in Nat /\ maxwords \in Nat /\ BlockLen \in Nat
  BY AtFacts, TypeFacts, SizeFacts
<1>4. Complete(k, Made) = {}
  <2>1. Taken = 0 /\ k + 0 = k
    BY <1>2 DEF Taken
  <2>2. enoughdata \cup start_dma = {RamBlock(i) : i \in Complete(k + Taken, Made)}
    BY SignalledFacts
  <2>. QED
    BY <1>2, <2>1, <2>2
<1>5. ~(At(k + 1) <= Made)
  <2>1. k <= k
    OBVIOUS
  <2>. QED
    BY <1>4, <2>1 DEF Complete
<1>6. maxwords <= At(k) /\ Made = maxwords + BlockLen
  BY <1>1, <1>a, <1>3, <1>5 DEF Full
<1>7. \A a \in 0..maxwords-1 : dma_buf[a] = stream[a + 1]
  <2>1. \A a \in 0..maxwords-1 : a \in 0..HostLen-1 /\ a < At(k)
    BY <1>3, <1>6, SizeFacts
  <2>. QED
    BY <1>2, <2>1 DEF OnHost, Mirror
<1>8. ASSUME NEW a \in 0..maxwords-1
      PROVE  dma_buf[a] # Ones /\ (a > 0 => dma_buf[a] > dma_buf[a-1])
  <2>1. a + 1 \in 1..Emitted /\ a + 1 <= maxwords
    BY <1>a, <1>3, <1>6
  <2>2. stream[a + 1] \in 1..nhits
    BY <1>a, <2>1 DEF StreamOrder
  <2>3. dma_buf[a] # Ones
    BY <1>7, <2>2, TypeFacts, SMTT(30) DEF Ones
  <2>4. CASE a > 0
    <3>1. a \in 1..Emitted /\ a < a + 1 /\ a - 1 \in 0..maxwords-1 /\ (a - 1) + 1 = a
      BY <1>a, <1>3, <1>6, <2>4
    <3>2. stream[a] < stream[a + 1] /\ a <= maxwords
      BY <1>a, <1>3, <2>1, <3>1 DEF StreamOrder
    <3>3. stream[a] \in 1..nhits
      BY <1>a, <3>1, <3>2 DEF StreamOrder
    <3>4. dma_buf[a] = stream[a + 1] /\ dma_buf[a-1] = stream[a]
      BY <1>7, <3>1
    <3>. QED
      BY <2>2, <2>3, <3>2, <3>3, <3>4, TypeFacts
  <2>. QED
    BY <2>3, <2>4
<1>. QED
  BY <1>1, <1>2, <1>a, <1>6, <1>8 DEF Whole

\* What is copied is what is in the buffer.
LEMMA CopyFacts ==
  ASSUME TInv, Ends, Copy, early' = 0
  PROVE  /\ state = "disabled" /\ dma_buf_local' = [i \in 1..maxwords |-> dma_buf[i-1]]
         /\ copied' = copied \cup ({dma_buf[a] : a \in 0..maxwords-1} \ {Ones})
<1>1. state = "disabled"
  BY AtRest
<1>2. ~(ctrl > HostLen)
  <2>1. /\ ctrl \in 0..maxwords /\ maxwords \in Nat /\ BlockLen \in Nat /\ HostLen \in Nat
        /\ maxwords + BlockLen <= HostLen
    BY SizeFacts DEF Ends
  <2>. QED
    BY <2>1
<1>3. /\ dma_buf_local' = [i \in 1..maxwords |-> dma_buf[i-1]]
      /\ copied' = copied \cup (ToSet(dma_buf_local') \ {Ones})
  BY <1>2 DEF Copy
<1>4. ToSet(dma_buf_local') = {dma_buf[i-1] : i \in 1..maxwords}
  BY <1>3 DEF ToSet
<1>5. {dma_buf[i-1] : i \in 1..maxwords} = {dma_buf[a] : a \in 0..maxwords-1}
  <2>1. \A i \in 1..maxwords : i - 1 \in 0..maxwords-1
    BY SizeFacts
  <2>2. \A a \in 0..maxwords-1 : a + 1 \in 1..maxwords /\ (a + 1) - 1 = a
    BY SizeFacts
  <2>. QED
    BY <2>1, <2>2
<1>. QED
  BY <1>1, <1>3, <1>4, <1>5

LEMMA OnHostClock ==
  ASSUME TInv, NEW k \in Nat, Ring(k), Sync, Clean, OnHost(k), Clock, [Next]_vars, NEW n \in Nat, n = After(k)
  PROVE  OnHost(n)'
<1>0. /\ UNCHANGED <<dma_buf, pc, outcome, copied>>
      /\ {wen, dma_enabled} \subseteq BOOLEAN
  BY ClockMemory, TypeFacts DEF host, thread
<1>1. CASE state # "disabled"
  <2>1. n = k /\ state' = state /\ stream' = Written
    BY <1>1, ClockMemory, AfterIs DEF Clock, Store, Reset, SendBlock
  <2>2. At(k) <= Made /\ At(k) \in Nat /\ Made \in Nat /\ \A j \in 1..Made : stream'[j] = stream[j]
    BY <2>1, SpanFacts, WrittenFacts
  <2>3. \A a \in 0..HostLen-1 : a < At(k) => stream'[a + 1] = stream[a + 1]
    BY <2>2, SizeFacts
  <2>4. Mirror(k)
    BY <1>1 DEF OnHost
  <2>5. Mirror(k)'
    BY <1>0, <2>3, <2>4 DEF Mirror
  <2>. QED
    BY <1>0, <1>1, <2>1, <2>5 DEF OnHost
<1>2. CASE state = "disabled"
  <2>1. n = 0 /\ state' = IF dma_enabled THEN "waiting" ELSE "disabled"
    BY <1>2, ClockMemory, AfterIs
  <2>2. ASSUME dma_enabled
        PROVE  Mirror(0)'
    <3>1. \A a \in 0..maxwords-1 : dma_buf[a] = Ones
      BY <1>2, <2>2 DEF Clean, Starting
    <3>2. \A a \in 0..HostLen-1 : a \in 0..maxwords-1 \/ a >= maxwords
      BY SizeFacts
    <3>3. \A a \in 0..HostLen-1 : dma_buf[a] = Ones
      BY <3>1, <3>2 DEF OnHost
    <3>4. \A a \in 0..HostLen-1 : ~(a < At(0))
      BY AtFacts, SizeFacts
    <3>. QED
      BY <1>0, <3>3, <3>4 DEF Mirror
  <2>3. state' # "disabled" => Mirror(n)'
    BY <2>1, <2>2
  <2>4. Whole' <=> Whole
    BY <1>0 DEF Whole
  <2>. QED
    BY <1>0, <1>2, <2>3, <2>4 DEF OnHost
<1>. QED
  BY <1>1, <1>2

LEMMA OnHostNext ==
  ASSUME Undisturbed, Undisturbed', TInv, NEW k \in Nat, Ring(k), InRam(k), Sync, Clean, Phase, Ends,
         StreamOrder, OnHost(k), [Next]_vars, NEW n \in Nat, n = After(k)
  PROVE  OnHost(n)'
<1>0. early' = 0
  BY DEF Undisturbed
<1>3. CASE Receive \/ DropHit \/ TakeBlock \/ SendControl \/ UNCHANGED vars
  <2>1. UNCHANGED <<dma_buf, pc, outcome, copied, stream>>
    BY <1>3 DEF Receive, DropHit, TakeBlock, SendControl, vars, host, memory, thread
  <2>2. /\ state' = "disabled" <=> state = "disabled"
        /\ ~Clock \/ state # "disabled" \/ n = 0
        /\ ~SendBlock
    BY <1>3, AfterIs DEF Receive, DropHit, TakeBlock, SendControl, vars, engine, SendBlock
  <2>3. state # "disabled" => n = k
    BY <2>2, AfterIs
  <2>. QED
    BY <2>1, <2>2, <2>3 DEF OnHost, Mirror, Whole
<1>4. CASE Clock
  BY <1>4, OnHostClock
<1>6. CASE SendBlock
  <2>1. /\ At(k + 1) = At(k) + BlockLen /\ At(k) \in Nat /\ At(k + 1) <= Made /\ Made <= HostLen
        /\ \A a \in 0..HostLen-1 :
             dma_buf'[a] = IF At(k) <= a /\ a < At(k + 1) THEN stream[a + 1] ELSE dma_buf[a]
    BY <1>6, BlockSent
  <2>2. /\ state = "running" /\ state' = "controlinfoheader" /\ n = k + 1
        /\ UNCHANGED <<pc, stream, outcome>>
    BY <1>6, AfterIs DEF SendBlock, memory, thread
  <2>3. Mirror(k)
    BY <2>2 DEF OnHost
  <2>4. ASSUME NEW a \in 0..HostLen-1
        PROVE  dma_buf'[a] = IF a < At(k + 1) THEN stream[a + 1] ELSE Ones
    <3>1. a \in Nat /\ BlockLen \in Nat /\ dma_buf[a] = IF a < At(k) THEN stream[a + 1] ELSE Ones
      BY <2>3, SizeFacts DEF Mirror
    <3>. QED
      BY <2>1, <3>1
  <2>5. ASSUME NEW a \in 0..HostLen-1, a >= maxwords
        PROVE  dma_buf'[a] = Ones
    <3>1. CASE a < At(k + 1)
      <4>1. a + 1 \in 1..Made /\ ~(a + 1 <= maxwords)
        <5>1. \A u, v, w, m \in Nat : v < w /\ w <= m /\ v >= u => v + 1 \in 1..m /\ ~(v + 1 <= u)
          OBVIOUS
        <5>2. maxwords \in Nat /\ a \in Nat /\ Made \in Nat /\ At(k + 1) \in Nat
          BY AtFacts, SizeFacts, TypeFacts
        <5>. QED
          BY <2>1, <2>5, <3>1, <5>1, <5>2, Zenon
      <4>2. a + 1 \in 1..Emitted /\ Written[a + 1] = stream[a + 1]
        BY <4>1, WrittenFacts
      <4>. QED
        BY <2>4, <3>1, <4>1, <4>2 DEF StreamOrder
    <3>. QED
      BY <2>4, <3>1
  <2>6. pc # "top"
    BY <2>2 DEF Sync
  <2>. QED
    BY <2>2, <2>4, <2>5, <2>6 DEF OnHost, Mirror
<1>7. CASE Disabled
  <2>1. Whole /\ pc = "copy"
    BY <1>7, DisabledWhole
  <2>2. state' = "disabled" /\ state # "disabled" /\ UNCHANGED <<pc, dma_buf, outcome>>
    BY <1>7 DEF Disabled, host, thread
  <2>3. Whole'
    BY <2>1, <2>2 DEF Whole
  <2>. QED
    BY <2>1, <2>2, <2>3 DEF OnHost
<1>8. CASE Fill
  <2>1. dma_buf' = Filled /\ pc' = "enable" /\ state' = "disabled"
    BY <1>0, <1>8, AtRest DEF Fill, Firmware, engine
  <2>2. ASSUME NEW a \in 0..HostLen-1, a >= maxwords PROVE dma_buf'[a] = Ones
    <3>1. ~(a < maxwords)
      BY <2>2, SizeFacts
    <3>. QED
      BY <2>1, <2>2, <3>1 DEF Filled, OnHost
  <2>. QED
    BY <2>1, <2>2 DEF OnHost
<1>9. CASE EnableReadout
  <2>1. pc' = "poll" /\ state' = "disabled" /\ dma_buf' = dma_buf
    BY <1>0, <1>9, AtRest DEF EnableReadout, Firmware, engine, host
  <2>. QED
    BY <2>1 DEF OnHost
<1>10. CASE Disable
  <2>1. state # "disabled" /\ pc' = "copy" /\ outcome' = "done" /\ UNCHANGED <<dma_buf, stream, state>>
    BY <1>10, DisableDone DEF Disable, Firmware, engine, memory, host, Full
  <2>2. n = k
    BY <2>1, AfterIs DEF SendBlock
  <2>. QED
    BY <2>1, <2>2 DEF OnHost, Mirror
<1>11. CASE Copy
  <2>1. /\ state = "disabled" /\ copied' = copied \cup ({dma_buf[a] : a \in 0..maxwords-1} \ {Ones})
    BY <1>0, <1>11, CopyFacts
  <2>2. pc' = "top" /\ UNCHANGED <<dma_buf, state>>
    BY <1>11 DEF Copy, Firmware, host, engine
  <2>. QED
    BY <2>1, <2>2 DEF OnHost
<1>12. ~EndRun /\ ~BeginRun
  BY DEF EndRun, BeginRun, Phase, Undisturbed
<1>. QED
  BY <1>3, <1>4, <1>6, <1>7, <1>8, <1>9, <1>10, <1>11, <1>12 DEF Next, Engine, Thread

LEMMA CopiedNext ==
  ASSUME Undisturbed, Undisturbed', TInv, NEW k \in Nat, Ends, OnHost(k), CopiedIsEvent, [Next]_vars
  PROVE  CopiedIsEvent'
<1>1. CASE Copy
  <2>1. state = "disabled" /\ dma_buf_local' = [i \in 1..maxwords |-> dma_buf[i-1]] /\ pc = "copy"
    BY <1>1, CopyFacts DEF Copy, Undisturbed
  <2>2. Whole
    BY <2>1 DEF OnHost
  <2>3. ASSUME NEW i \in 1..maxwords
        PROVE  dma_buf_local'[i] # Ones /\ (i > 1 => dma_buf_local'[i] > dma_buf_local'[i-1])
    <3>1. i - 1 \in 0..maxwords-1 /\ (i > 1 => i - 1 > 0 /\ i - 1 \in 1..maxwords)
      BY SizeFacts
    <3>. QED
      BY <2>1, <2>2, <3>1 DEF Whole
  <2>. QED
    BY <2>3 DEF CopiedIsEvent
<1>2. ASSUME ~Copy
      PROVE  pc' # "top" \/ UNCHANGED <<pc, outcome, dma_buf_local>>
  BY <1>2 DEF Next, Clock, Receive, DropHit, Engine, Disabled, TakeBlock, SendBlock, SendControl, Thread, Fill,
              EnableReadout, Disable, EndRun, BeginRun, vars, thread
<1>. QED
  BY <1>1, <1>2 DEF CopiedIsEvent

-----------------------------------------------------------------------------
(* Where the hits are in such a run.                                       *)

Unsent(k) == {Written[j] : j \in (At(k) + 1)..Emitted}
Buffer == {dma_buf[a] : a \in 0..HostLen-1}
Account(k) ==
  /\ 1..nhits = (ToSet(fifo) \cup Unsent(k) \cup Buffer \cup copied \cup lost) \ {Ones}
  /\ Cardinality(lost) = hit_drop_cnt
  /\ state = "disabled" => Unsent(k) \subseteq {Ones}

LEMMA AppendSet ==
  ASSUME NEW S, NEW s \in Seq(S), NEW x
  PROVE  ToSet(Append(s, x)) = ToSet(s) \cup {x}
<1>1. DOMAIN Append(s, x) = 1..Len(s) + 1 /\ DOMAIN s = 1..Len(s) /\ Len(s) \in Nat
  OBVIOUS
<1>2. \A i \in 1..Len(s) + 1 : i \in 1..Len(s) \/ i = Len(s) + 1
  BY <1>1
<1>3. /\ Append(s, x)[Len(s) + 1] = x /\ Len(s) + 1 \in 1..Len(s) + 1
      /\ \A i \in 1..Len(s) : Append(s, x)[i] = s[i] /\ i \in 1..Len(s) + 1
  BY <1>1
<1>. QED
  BY <1>1, <1>2, <1>3, Zenon DEF ToSet

LEMMA TailSet ==
  ASSUME TInv, fifo # <<>>
  PROVE  ToSet(fifo) = ToSet(Tail(fifo)) \cup {Head(fifo)}
<1>1. /\ Len(Tail(fifo)) = Len(fifo) - 1 /\ Len(fifo) \in Nat /\ Len(fifo) >= 1 /\ Head(fifo) = fifo[1]
      /\ \A i \in 1..Len(Tail(fifo)) : Tail(fifo)[i] = fifo[i + 1] /\ i + 1 \in 1..Len(fifo)
  BY TailFacts
<1>2. DOMAIN fifo = 1..Len(fifo) /\ DOMAIN Tail(fifo) = 1..Len(Tail(fifo)) /\ 1 \in 1..Len(fifo)
  <2>1. fifo \in Seq(1..MaxHits)
    BY CountFacts
  <2>. QED
    BY <1>1, <2>1
<1>3. \A i \in 1..Len(fifo) : i = 1 \/ (i - 1 \in 1..Len(Tail(fifo)) /\ (i - 1) + 1 = i)
  BY <1>1
<1>4. \A i \in 1..Len(fifo) : fifo[i] = Head(fifo) \/ fifo[i] \in ToSet(Tail(fifo))
  <2>. SUFFICES ASSUME NEW i \in 1..Len(fifo), i # 1 PROVE fifo[i] \in ToSet(Tail(fifo))
    BY <1>1
  <2>1. i - 1 \in 1..Len(Tail(fifo)) /\ Tail(fifo)[i - 1] = fifo[i]
    BY <1>1, <1>3
  <2>. QED
    BY <1>2, <2>1, Zenon DEF ToSet
<1>5. ToSet(Tail(fifo)) \subseteq ToSet(fifo) /\ Head(fifo) \in ToSet(fifo)
  <2>1. \A i \in 1..Len(Tail(fifo)) : Tail(fifo)[i] \in ToSet(fifo)
    BY <1>1, <1>2, Zenon DEF ToSet
  <2>2. ToSet(Tail(fifo)) \subseteq ToSet(fifo)
    BY <1>2, <2>1, Zenon DEF ToSet
  <2>3. Head(fifo) \in ToSet(fifo)
    BY <1>1, <1>2, Zenon DEF ToSet
  <2>. QED
    BY <2>2, <2>3
<1>6. ToSet(fifo) \subseteq ToSet(Tail(fifo)) \cup {Head(fifo)}
  BY <1>2, <1>4, Zenon DEF ToSet
<1>. QED
  BY <1>5, <1>6

LEMMA AccountInit == Init => Account(0)
<1>. SUFFICES ASSUME Init PROVE Account(0)
  OBVIOUS
<1>1. nhits = 0 /\ fifo = <<>> /\ copied = {} /\ lost = {} /\ hit_drop_cnt = 0
      /\ \A a \in 0..HostLen-1 : dma_buf[a] = Ones
  BY DEF Init
<1>2. ToSet(fifo) = {}
  BY <1>1 DEF ToSet
<1>3. Unsent(0) = {}
  BY AtFacts DEF Init, Unsent, Emitted, Written
<1>4. Buffer \subseteq {Ones}
  BY <1>1 DEF Buffer
<1>5. Cardinality(lost) = 0
  BY <1>1, FS_EmptySet
<1>6. 1..nhits = {}
  BY <1>1
<1>. QED
  BY <1>1, <1>2, <1>3, <1>4, <1>5, <1>6 DEF Account

\* Writing adds a word to what was not sent, and sending moves a block of that to the
\* buffer, where there was nothing.
LEMMA UnsentWrite ==
  ASSUME TInv, NEW k \in Nat, At(k) <= Emitted, NEW w, Written' = Append(Written, w)
  PROVE  Unsent(k)' = Unsent(k) \cup {w}
<1>1. At(k) \in Nat /\ Emitted \in Nat
  BY AtFacts, WrittenFacts
<1>2. Emitted' = Emitted + 1 /\ Written'[Emitted + 1] = w /\ \A j \in 1..Emitted : Written'[j] = Written[j]
  BY AppendFacts
<1>3. \A u, m \in Nat : u <= m => /\ m + 1 \in (u + 1)..(m + 1)
                                  /\ \A j \in (u + 1)..(m + 1) : j \in (u + 1)..m \/ j = m + 1
                                  /\ \A j \in (u + 1)..m : j \in 1..m /\ j \in (u + 1)..(m + 1)
  OBVIOUS
<1>4. /\ Emitted + 1 \in (At(k) + 1)..(Emitted + 1)
      /\ \A j \in (At(k) + 1)..(Emitted + 1) : j \in (At(k) + 1)..Emitted \/ j = Emitted + 1
      /\ \A j \in (At(k) + 1)..Emitted : j \in 1..Emitted /\ j \in (At(k) + 1)..(Emitted + 1)
  BY <1>1, <1>3
<1>5. Unsent(k)' = {Written'[j] : j \in (At(k) + 1)..(Emitted + 1)}
  BY <1>2 DEF Unsent
<1>. QED
  BY <1>2, <1>4, <1>5, Zenon DEF Unsent

LEMMA UnsentSend ==
  ASSUME TInv, NEW k \in Nat, Ring(k), InRam(k), Phase, OnHost(k), SendBlock
  PROVE  (Unsent(k + 1)' \cup Buffer') \ {Ones} = (Unsent(k) \cup Buffer) \ {Ones}
<1>1. /\ At(k + 1) = At(k) + BlockLen /\ At(k) \in Nat /\ At(k + 1) <= Made /\ Made <= HostLen
      /\ \A a \in 0..HostLen-1 :
           dma_buf'[a] = IF At(k) <= a /\ a < At(k + 1) THEN stream[a + 1] ELSE dma_buf[a]
  BY BlockSent
<1>2. /\ Made \in Nat /\ HostLen \in Nat /\ BlockLen \in Nat /\ At(k + 1) \in Nat
      /\ Emitted \in Nat /\ Made <= Emitted /\ \A j \in 1..Made : Written[j] = stream[j]
  BY AtFacts, TypeFacts, SizeFacts, WrittenFacts
<1>3. \A a \in 0..HostLen-1 : dma_buf[a] = IF a < At(k) THEN stream[a + 1] ELSE Ones
  BY DEF SendBlock, OnHost, Mirror
<1>4. Unsent(k + 1)' = {Written[j] : j \in (At(k + 1) + 1)..Emitted}
  <2>1. Written' = Written /\ Emitted' = Emitted
    BY DEF SendBlock, memory, pipe, Written, Emitted
  <2>. QED
    BY <2>1 DEF Unsent
<1>5. ASSUME NEW x \in Unsent(k + 1)' PROVE x \in Unsent(k)
  <2>1. PICK j \in (At(k + 1) + 1)..Emitted : x = Written[j]
    BY <1>4
  <2>2. j \in (At(k) + 1)..Emitted
    BY <1>1, <1>2
  <2>. QED
    BY <2>1, <2>2 DEF Unsent
<1>6. ASSUME NEW x \in Buffer' PROVE x \in Unsent(k) \cup Buffer
  <2>1. PICK a \in 0..HostLen-1 : x = dma_buf'[a]
    BY DEF Buffer
  <2>2. CASE At(k) <= a /\ a < At(k + 1)
    <3>1. a + 1 \in (At(k) + 1)..Emitted /\ a + 1 \in 1..Made /\ x = stream[a + 1]
      BY <1>1, <1>2, <2>1, <2>2
    <3>2. x = Written[a + 1]
      BY <1>2, <3>1
    <3>. QED
      BY <3>1, <3>2 DEF Unsent
  <2>3. CASE ~(At(k) <= a /\ a < At(k + 1))
    BY <1>1, <2>1, <2>3 DEF Buffer
  <2>. QED
    BY <2>2, <2>3
<1>7. ASSUME NEW x \in Unsent(k) PROVE x \in Unsent(k + 1)' \cup Buffer'
  <2>1. PICK j \in (At(k) + 1)..Emitted : x = Written[j]
    BY DEF Unsent
  <2>2. CASE j > At(k + 1)
    <3>1. j \in (At(k + 1) + 1)..Emitted
      BY <1>2, <2>1, <2>2
    <3>. QED
      BY <1>4, <2>1, <3>1
  <2>3. CASE j <= At(k + 1)
    <3>1. \A u, v, m, h, e \in Nat : \A i \in (u + 1)..e : i <= v /\ v <= m /\ m <= h
            => i - 1 \in 0..h-1 /\ u <= i - 1 /\ i - 1 < v /\ (i - 1) + 1 = i /\ i \in 1..m
      OBVIOUS
    <3>2. /\ j - 1 \in 0..HostLen-1 /\ At(k) <= j - 1 /\ j - 1 < At(k + 1) /\ (j - 1) + 1 = j
          /\ j \in 1..Made
      BY <1>1, <1>2, <2>3, <3>1
    <3>3. dma_buf'[j - 1] = x
      BY <1>1, <1>2, <2>1, <3>2
    <3>. QED
      BY <3>2, <3>3 DEF Buffer
  <2>. QED
    BY <1>2, <2>2, <2>3
<1>8. ASSUME NEW x \in Buffer, x # Ones PROVE x \in Buffer'
  <2>1. PICK a \in 0..HostLen-1 : x = dma_buf[a]
    BY DEF Buffer
  <2>2. a < At(k)
    BY <1>3, <1>8, <2>1
  <2>3. dma_buf'[a] = dma_buf[a]
    BY <1>1, <2>2
  <2>. QED
    BY <2>1, <2>3 DEF Buffer
<1>. QED
  BY <1>5, <1>6, <1>7, <1>8

\* A disabled engine has no words but padding, and none while an event is built.
LEMMA AccountClock ==
  ASSUME TInv, NEW k \in Nat, Ring(k), Sync, Phase, StreamOrder, Account(k), Clock, [Next]_vars,
         NEW n \in Nat, n = After(k)
  PROVE  Account(n)'
<1>0. /\ UNCHANGED <<nhits, lost, hit_drop_cnt, copied, dma_buf>> /\ Buffer' = Buffer
      /\ At(k) <= Emitted /\ At(k) \in Nat /\ Emitted \in Nat /\ At(0) = 0 /\ maxwords \in Nat
  <2>1. UNCHANGED <<nhits, lost, hit_drop_cnt, copied, dma_buf>>
    BY ClockMemory DEF host, thread
  <2>2. At(k) <= Made /\ Made <= Emitted /\ At(k) \in Nat /\ Emitted \in Nat /\ Made \in Nat
    BY SpanFacts, WrittenFacts
  <2>. QED
    BY <2>1, <2>2, AtFacts, SizeFacts DEF Buffer
<1>1. CASE state # "disabled"
  <2>1. n = k /\ state' # "disabled"
    BY <1>1, ClockMemory, AfterIs DEF Clock, Store, Reset, SendBlock
  <2>2. CASE Written' = Written /\ fifo' = fifo
    <3>1. Unsent(n)' = Unsent(k)
      BY <2>1, <2>2 DEF Unsent, Emitted
    <3>. QED
      BY <1>0, <2>1, <2>2, <3>1 DEF Account
  <2>3. CASE fifo # <<>> /\ fifo' = Tail(fifo) /\ Written' = Append(Written, Head(fifo))
    <3>1. Unsent(n)' = Unsent(k) \cup {Head(fifo)}
      BY <1>0, <2>1, <2>3, UnsentWrite
    <3>2. ToSet(fifo) = ToSet(fifo') \cup {Head(fifo)}
      BY <2>3, TailSet
    <3>. QED
      BY <1>0, <2>1, <3>1, <3>2 DEF Account
  <2>4. CASE fifo' = fifo /\ Written' = Append(Written, Ones)
    <3>1. Unsent(n)' = Unsent(k) \cup {Ones}
      BY <1>0, <2>1, <2>4, UnsentWrite
    <3>. QED
      BY <1>0, <2>1, <2>4, <3>1 DEF Account
  <2>5. ~Unasked
    BY <1>1 DEF Unasked
  <2>. QED
    BY <2>2, <2>3, <2>4, <2>5, ClockWords
<1>2. CASE state = "disabled"
  <2>1. n = 0 /\ Unsent(k) \subseteq {Ones}
    BY <1>2, AfterIs DEF Account
  <2>2. ~Unasked => Building /\ Written = <<>>
    BY <1>2 DEF Phase, Full, Building
  <2>3. CASE Written' = <<>> /\ fifo' = fifo
    <3>1. Emitted' = 0
      BY <2>3 DEF Emitted
    <3>2. Unsent(n)' = {}
      BY <1>0, <2>1, <3>1 DEF Unsent
    <3>. QED
      BY <1>0, <2>1, <2>3, <3>2 DEF Account
  <2>4. CASE fifo # <<>> /\ fifo' = Tail(fifo) /\ Written' = Append(Written, Head(fifo)) /\ Written = <<>>
    <3>1. Emitted = 0
      BY <2>4 DEF Emitted
    <3>2. Unsent(0) = {}
      BY <1>0, <3>1 DEF Unsent
    <3>3. Unsent(n)' = {Head(fifo)}
      BY <1>0, <2>1, <2>4, <3>1, <3>2, UnsentWrite
    <3>4. ToSet(fifo) = ToSet(fifo') \cup {Head(fifo)}
      BY <2>4, TailSet
    <3>5. state' # "disabled"
      BY <1>2, <2>2, <2>4, ClockMemory, ClockWords DEF Building, Unasked
    <3>. QED
      BY <1>0, <2>1, <3>3, <3>4, <3>5 DEF Account
  <2>5. ~(Building /\ Emitted + 1 > maxwords)
    <3>. SUFFICES ASSUME Building, Emitted + 1 > maxwords PROVE FALSE
      OBVIOUS
    <3>1. Emitted = 0 /\ maxwords > 2
      BY <1>2, SizeFacts DEF Building, Emitted
    <3>. QED
      BY <1>0, <3>1
  <2>6. Building => ~Unasked
    BY DEF Building, Unasked
  <2>. QED
    BY <2>2, <2>3, <2>4, <2>5, <2>6, ClockWords
<1>. QED
  BY <1>1, <1>2

LEMMA AccountNext ==
  ASSUME Undisturbed, Undisturbed', TInv, NEW k \in Nat, Ring(k), InRam(k), Sync, Phase, Ends,
         FifoOrder, StreamOrder, OnHost(k), Account(k), [Next]_vars, NEW n \in Nat, n = After(k)
  PROVE  Account(n)'
<1>0. early' = 0 /\ n = IF Clock /\ state = "disabled" THEN 0 ELSE IF SendBlock THEN k + 1 ELSE k
  BY AfterIs DEF Undisturbed
<1>2. CASE /\ UNCHANGED <<nhits, fifo, stream, wren_reg, data_reg, dma_buf, copied, lost, hit_drop_cnt>>
           /\ state' = "disabled" => state = "disabled"
           /\ n = k
  <2>1. Written' = Written /\ Emitted' = Emitted
    BY <1>2 DEF Written, Emitted
  <2>. QED
    BY <1>2, <2>1 DEF Account, Unsent, Buffer
<1>3. CASE TakeBlock \/ SendControl \/ EnableReadout \/ Disable \/ UNCHANGED vars
  <2>1. UNCHANGED <<nhits, fifo, stream, wren_reg, data_reg, dma_buf, copied, lost, hit_drop_cnt>>
    BY <1>3 DEF TakeBlock, SendControl, EnableReadout, Disable, Firmware, vars, hits,
                builder, host, memory, thread, pipe
  <2>2. state' = "disabled" => state = "disabled"
    BY <1>3 DEF TakeBlock, SendControl, EnableReadout, Disable, Firmware, vars, engine
  <2>3. CASE Clock /\ state = "disabled"
    BY <2>3, AccountClock
  <2>4. CASE ~(Clock /\ state = "disabled")
    <3>1. n = k
      BY <1>0, <1>3, <2>4 DEF SendBlock, TakeBlock, SendControl, EnableReadout, Disable, Firmware, vars, engine
    <3>. QED
      BY <1>2, <2>1, <2>2, <3>1
  <2>. QED
    BY <2>3, <2>4
<1>4. CASE Receive
  <2>1. /\ nhits' = nhits + 1 /\ fifo' = Append(fifo, nhits + 1)
        /\ UNCHANGED <<stream, wren_reg, data_reg, dma_buf, copied, lost, hit_drop_cnt, state>>
    BY <1>4 DEF Receive, memory, engine, host, thread, pipe
  <2>a. n = k
    <3>1. nhits' # nhits
      BY <2>1, CountFacts
    <3>. QED
      BY <1>0, <2>1, <3>1 DEF Clock, SendBlock
  <2>2. ToSet(fifo') = ToSet(fifo) \cup {nhits + 1}
    BY <2>1, AppendSet, CountFacts
  <2>3. 1..nhits' = 1..nhits \cup {nhits + 1} /\ nhits + 1 # Ones
    BY <2>1, CountFacts, SMTT(30) DEF Ones
  <2>4. Unsent(n)' = Unsent(k) /\ Buffer' = Buffer
    BY <2>1, <2>a DEF Unsent, Buffer, Emitted, Written
  <2>. QED
    BY <2>1, <2>2, <2>3, <2>4 DEF Account
<1>5. CASE DropHit
  <2>1. /\ fifo' = Tail(fifo) /\ hit_drop_cnt' = hit_drop_cnt + 1 /\ lost' = lost \cup {Head(fifo)}
        /\ UNCHANGED <<nhits, stream, wren_reg, data_reg, dma_buf, copied, state>>
    BY <1>5 DEF DropHit, memory, engine, host, thread, pipe
  <2>a. n = k
    <3>1. hit_drop_cnt' # hit_drop_cnt
      BY <2>1, CountFacts
    <3>. QED
      BY <1>0, <2>1, <3>1 DEF Clock, SendBlock
  <2>2. fifo # <<>>
    BY <1>5, SizeFacts DEF DropHit
  <2>3. ToSet(fifo) = ToSet(fifo') \cup {Head(fifo)}
    BY <2>1, <2>2, TailSet
  <2>4. Unsent(n)' = Unsent(k) /\ Buffer' = Buffer
    BY <2>1, <2>a DEF Unsent, Buffer, Emitted, Written
  <2>5. Head(fifo) \notin lost
    <3>1. 1 \in 1..Len(fifo) /\ Head(fifo) = fifo[1]
      BY <2>2, TailFacts
    <3>2. ASSUME Head(fifo) \in lost PROVE FALSE
      <4>1. Head(fifo) < Head(fifo) /\ Head(fifo) \in 1..nhits
        BY <3>1, <3>2 DEF FifoOrder
      <4>. QED
        BY <4>1, CountFacts
    <3>. QED
      BY <3>2
  <2>6. IsFiniteSet(lost)
    <3>1. IsFiniteSet(1..nhits)
      BY FS_Interval, CountFacts
    <3>. QED
      BY <3>1, FS_Subset DEF FifoOrder
  <2>7. Cardinality(lost') = Cardinality(lost) + 1
    BY <2>1, <2>5, <2>6, FS_AddElement
  <2>. QED
    BY <2>1, <2>3, <2>4, <2>7 DEF Account
<1>6. CASE Clock
  BY <1>6, AccountClock
<1>7. CASE SendBlock
  <2>1. n = k + 1 /\ state' # "disabled" /\ UNCHANGED <<nhits, fifo, copied, lost, hit_drop_cnt>>
    BY <1>0, <1>7 DEF SendBlock, hits, builder, thread, Clock, Store, Reset
  <2>2. (Unsent(n)' \cup Buffer') \ {Ones} = (Unsent(k) \cup Buffer) \ {Ones}
    BY <1>7, <2>1, UnsentSend
  <2>. QED
    BY <2>1, <2>2 DEF Account
<1>8. CASE Disabled
  <2>1. UNCHANGED <<nhits, fifo, stream, wren_reg, data_reg, dma_buf, copied, lost, hit_drop_cnt>>
    BY <1>8 DEF Disabled, hits, host, thread, memory, pipe
  <2>2. n = k
    BY <1>0, <1>8 DEF Disabled, SendBlock
  <2>3. Unsent(n)' = Unsent(k) /\ Buffer' = Buffer
    BY <2>1, <2>2 DEF Unsent, Buffer, Emitted, Written
  <2>4. Unsent(k) \subseteq {Ones}
    <3>1. maxwords <= At(k) /\ At(k) \in Nat /\ Emitted \in Nat /\ maxwords \in Nat
      BY <1>8, DisabledWhole, SpanFacts, SizeFacts, WrittenFacts
    <3>2. \A j \in (At(k) + 1)..Emitted : j \in 1..Emitted /\ ~(j <= maxwords)
      BY <3>1
    <3>. QED
      BY <3>2 DEF Unsent, StreamOrder
  <2>. QED
    BY <2>1, <2>3, <2>4 DEF Account
<1>9. CASE Fill
  <2>1. /\ dma_buf' = Filled /\ pc = "top" /\ pc' # pc
        /\ UNCHANGED <<nhits, fifo, stream, wren_reg, data_reg, copied, lost, hit_drop_cnt, state>>
    BY <1>9 DEF Fill, Firmware, hits, memory, engine, pipe
  <2>a. n = k
    BY <1>0, <2>1 DEF Clock, SendBlock, thread
  <2>2. Unsent(n)' = Unsent(k)
    BY <2>1, <2>a DEF Unsent, Emitted, Written
  <2>3. \A a \in 0..HostLen-1 : a \in 0..maxwords-1 \/ a >= maxwords
    BY SizeFacts
  <2>4. Buffer \subseteq copied \cup {Ones}
    BY <2>1, <2>3 DEF Buffer, OnHost
  <2>5. Buffer' \subseteq {Ones} \cup Buffer
    BY <2>1 DEF Buffer, Filled
  <2>. QED
    BY <2>1, <2>2, <2>4, <2>5 DEF Account
<1>10. CASE Copy
  <2>1. copied' = copied \cup ({dma_buf[a] : a \in 0..maxwords-1} \ {Ones})
    BY <1>0, <1>10, CopyFacts
  <2>2. UNCHANGED <<nhits, fifo, stream, wren_reg, data_reg, dma_buf, lost, hit_drop_cnt, state>> /\ pc' # pc
    BY <1>10 DEF Copy, Firmware, hits, memory, engine, host, pipe
  <2>a. n = k
    BY <1>0, <2>2 DEF Clock, SendBlock, thread
  <2>3. {dma_buf[a] : a \in 0..maxwords-1} \subseteq Buffer
    <3>1. \A a \in 0..maxwords-1 : a \in 0..HostLen-1
      BY SizeFacts
    <3>. QED
      BY <3>1 DEF Buffer
  <2>4. Unsent(n)' = Unsent(k) /\ Buffer' = Buffer
    BY <2>2, <2>a DEF Unsent, Buffer, Emitted, Written
  <2>. QED
    BY <2>1, <2>2, <2>3, <2>4 DEF Account
<1>11. ~EndRun /\ ~BeginRun
  BY DEF EndRun, BeginRun, Phase, Undisturbed
<1>. QED
  BY <1>3, <1>4, <1>5, <1>6, <1>7, <1>8, <1>9, <1>10, <1>11 DEF Next, Engine, Thread

\* What the run checks follows.
LEMMA AccountIsNothingLost ==
  ASSUME TInv, NEW k \in Nat, Ring(k), Ends, Account(k)
  PROVE  NothingLost
<1>1. /\ At(k) \in Nat /\ Made \in Nat /\ At(k) <= Made /\ Made - At(k) < RamLen
      /\ RamLen \in Nat \ {0} /\ Emitted \in Nat
  BY SpanFacts, SizeFacts, WrittenFacts
<1>2. PICK d \in Nat : d = Made - At(k) /\ At(k) + d = Made
  BY <1>1
<1>4. d \in 0..RamLen-1
  BY <1>1, <1>2
<1>5. (memwriteaddr - memaddr_last_packet) % RamLen = d
  <2>1. (((At(k) + d) % RamLen) - (At(k) % RamLen)) % RamLen = d
    BY <1>1, <1>4, ModDiff
  <2>. QED
    BY <1>2, <2>1 DEF Ring, Span, RamAddr
<1>6. InRing = {stream[j] : j \in (At(k) + 1)..Made}
  <2>1. (Made - d) + 1 = At(k) + 1
    BY <1>1, <1>2
  <2>. QED
    BY <1>5, <2>1 DEF InRing, Made
<1>a. \A j \in (At(k) + 1)..Made : j \in 1..Made /\ j \in (At(k) + 1)..Emitted /\ Written[j] = stream[j]
  <2>1. Made <= Emitted /\ \A j \in 1..Made : Written[j] = stream[j]
    BY WrittenFacts
  <2>. QED
    BY <1>1, <2>1
<1>b. InRing \subseteq Unsent(k)
  BY <1>6, <1>a DEF Unsent
<1>c. Unsent(k) \subseteq InRing \cup {data_reg}
  <2>. SUFFICES ASSUME NEW j \in (At(k) + 1)..Emitted
                PROVE  Written[j] \in InRing \cup {data_reg}
    BY DEF Unsent
  <2>1. j \in (At(k) + 1)..Made \/ (j = Emitted /\ Emitted = Made + 1 /\ Written[Emitted] = data_reg)
    BY <1>1, WrittenFacts
  <2>. QED
    BY <1>6, <1>a, <2>1
<1>d. data_reg \in Unsent(k) \cup {Ones}
  <2>1. CASE wren_reg
    <3>1. Emitted \in (At(k) + 1)..Emitted /\ Written[Emitted] = data_reg
      BY <1>1, <2>1, WrittenFacts
    <3>. QED
      BY <3>1 DEF Unsent
  <2>2. CASE ~wren_reg
    BY <2>2 DEF Ends
  <2>. QED
    BY <2>1, <2>2
<1>7. Range(dma_buf) = Buffer
  <2>1. DOMAIN dma_buf = 0..HostLen-1
    BY TypeFacts
  <2>. QED
    BY <2>1 DEF Range, Buffer
<1>. QED
  BY <1>b, <1>c, <1>d, <1>7 DEF NothingLost, Account

-----------------------------------------------------------------------------
(* Theorems of the specification. *)

\* Every variable has its type.
THEOREM TypeCorrect == Spec => []TypeOK
<1>1. Init => TInv
  BY TypesInit
<1>2. TInv /\ [Next]_vars => TInv'
  BY TypesNext
<1>3. TInv => TypeOK
  BY DEF TInv
<1>. QED
  BY <1>1, <1>2, <1>3, PTL DEF Spec

RingInv == TInv /\ (slip \/ \E k \in Nat : Ring(k))

LEMMA RingInvHolds == Spec => []RingInv
<1>1. Init => RingInv
  BY TypesInit, RingInit DEF RingInv
<1>2. RingInv /\ [Next]_vars => RingInv'
  <2>. SUFFICES ASSUME RingInv, [Next]_vars PROVE RingInv'
    OBVIOUS
  <2>1. TInv'
    BY TypesNext DEF RingInv
  <2>2. CASE slip'
    BY <2>1, <2>2 DEF RingInv
  <2>3. CASE ~slip'
    <3>1. PICK k \in Nat : Ring(k)
      BY <2>3, SlipStays DEF RingInv
    <3>2. \E j \in Nat : Ring(j)'
      BY <2>3, <3>1, RingNext DEF RingInv
    <3>. QED
      BY <2>1, <3>2 DEF RingInv
  <2>. QED
    BY <2>2, <2>3
<1>. QED
  BY <1>1, <1>2, PTL DEF Spec

\* For every length of event, block and memory: as long as the write address has not gone
\* round with the last packet exactly at the half, the memory ring is not overrun, and its
\* complete blocks are signalled in order, although back pressure comes two words late.
THEOREM RingInOrderHolds == Spec => []RingInOrder
<1>1. RingInv => RingInOrder
  BY RingIsInOrder DEF RingInv, RingInOrder
<1>. QED
  BY <1>1, RingInvHolds, PTL

\* Along every behaviour in which the thread waits and the ring does not slip.
Waits == early = 0 /\ ~slip
HostInv == TInv /\ (Waits => Sync /\ Clean /\ OnTheHost /\ \E k \in Nat : Ring(k) /\ InRam(k))

LEMMA HostInvHolds == Spec => []HostInv
<1>1. Init => HostInv
  BY TypesInit, RingInit, HostInit, InRamInit DEF HostInv
<1>2. HostInv /\ [Next]_vars => HostInv'
  <2>. SUFFICES ASSUME HostInv, [Next]_vars PROVE HostInv'
    OBVIOUS
  <2>1. TInv /\ TInv'
    BY TypesNext DEF HostInv
  <2>2. ASSUME Waits'
        PROVE  Sync' /\ Clean' /\ OnTheHost' /\ \E n \in Nat : Ring(n)' /\ InRam(n)'
    <3>1. Waits /\ early' = 0 /\ ~slip'
      BY <2>1, <2>2, SlipStays, EarlyStays DEF Waits
    <3>2. PICK k \in Nat : Ring(k) /\ InRam(k)
      BY <3>1 DEF HostInv
    <3>3. PICK n \in Nat : n = After(k) /\ Ring(n)'
      BY <2>1, <3>1, <3>2, RingNext
    <3>4. InRam(n)'
      BY <2>1, <3>2, <3>3, InRamNext
    <3>. QED
      BY <2>1, <3>1, <3>2, <3>3, <3>4, SyncNext, HostNext DEF HostInv
  <2>. QED
    BY <2>1, <2>2 DEF HostInv
<1>. QED
  BY <1>1, <1>2, PTL DEF Spec

\* For every length of event, block and buffers: as long as the thread acts on an engine at
\* rest and the ring does not slip, the part of dma_buf that is copied holds the words that
\* were written since the engine was enabled, each at its place.
THEOREM HostInOrderHolds == Spec => []HostInOrder
<1>1. HostInv => HostInOrder
  BY DEF HostInv, Waits, OnTheHost, HostInOrder
<1>. QED
  BY <1>1, HostInvHolds, PTL

\* Along every behaviour, as long as nothing disturbs it.
Quiet(k) == /\ Ring(k) /\ InRam(k) /\ OnHost(k) /\ Account(k)
            /\ Sync /\ Clean /\ OnTheHost /\ Phase /\ Ends /\ FifoOrder /\ StreamOrder /\ CopiedIsEvent
QuietInv == TInv /\ (Undisturbed => \E k \in Nat : Quiet(k))

LEMMA QuietNext ==
  ASSUME TInv, Undisturbed, Undisturbed', NEW k \in Nat, Quiet(k), [Next]_vars
  PROVE  \E n \in Nat : Quiet(n)'
<1>1. early' = 0 /\ ~slip'
  BY DEF Undisturbed
<1>2. /\ Ring(k) /\ InRam(k) /\ OnHost(k) /\ Account(k) /\ Sync /\ Clean /\ OnTheHost /\ Phase /\ Ends
      /\ FifoOrder /\ StreamOrder /\ CopiedIsEvent
  BY DEF Quiet
<1>3. PICK n \in Nat : n = After(k) /\ Ring(n)'
  BY <1>1, <1>2, RingNext
<1>4. InRam(n)' /\ OnHost(n)' /\ Account(n)'
  BY <1>2, <1>3, InRamNext, OnHostNext, AccountNext
<1>5. Sync' /\ Clean' /\ OnTheHost'
  BY <1>1, <1>2, SyncNext, HostNext
<1>6. Phase' /\ Ends' /\ FifoOrder' /\ StreamOrder' /\ CopiedIsEvent'
  BY <1>2, PhaseNext, EndsNext, FifoOrderNext, StreamOrderNext, CopiedNext
<1>. QED
  BY <1>3, <1>4, <1>5, <1>6 DEF Quiet

LEMMA QuietInvHolds == Spec => []QuietInv
<1>1. Init => QuietInv
  <2>. SUFFICES ASSUME Init PROVE TInv /\ Quiet(0)
    BY DEF QuietInv
  <2>1. CopiedIsEvent
    BY DEF Init, CopiedIsEvent
  <2>. QED
    BY <2>1, TypesInit, RingInit, InRamInit, HostInit, PhaseInit, EndsInit, OrderInit, OnHostInit, AccountInit
       DEF Quiet
<1>2. QuietInv /\ [Next]_vars => QuietInv'
  <2>. SUFFICES ASSUME QuietInv, [Next]_vars PROVE QuietInv'
    OBVIOUS
  <2>1. TInv /\ TInv'
    BY TypesNext DEF QuietInv
  <2>2. ASSUME Undisturbed'
        PROVE  \E n \in Nat : Quiet(n)'
    <3>1. Undisturbed
      BY <2>1, <2>2, UndisturbedStays
    <3>2. PICK k \in Nat : Quiet(k)
      BY <3>1 DEF QuietInv
    <3>. QED
      BY <2>1, <2>2, <3>1, <3>2, QuietNext
  <2>. QED
    BY <2>1, <2>2 DEF QuietInv
<1>. QED
  BY <1>1, <1>2, PTL DEF Spec

\* For every length of event, block and buffers: as long as no poll times out, no run stops,
\* the thread acts on an engine at rest and the ring does not slip, each hit received is in
\* the FIFO, on its way to the memory, in the memory, in dma_buf, copied, or dropped and
\* counted.
THEOREM NothingLostHolds == Spec => []NothingLost
<1>1. QuietInv => NothingLost
  <2>. SUFFICES ASSUME QuietInv PROVE NothingLost
    OBVIOUS
  <2>1. CASE Undisturbed
    BY <2>1, AccountIsNothingLost DEF QuietInv, Quiet
  <2>2. CASE ~Undisturbed
    BY <2>2 DEF NothingLost
  <2>. QED
    BY <2>1, <2>2
<1>. QED
  BY <1>1, QuietInvHolds, PTL

\* Under the same condition: what the thread copies after it has seen done is a whole event,
\* in the order of the hits.
THEOREM CopiedIsEventHolds == Spec => []CopiedIsEvent
<1>1. QuietInv => CopiedIsEvent
  BY DEF QuietInv, Quiet, CopiedIsEvent
<1>. QED
  BY <1>1, QuietInvHolds, PTL
=============================================================================
