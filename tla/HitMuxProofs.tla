---------------------------- MODULE HitMuxProofs ----------------------------
(***************************************************************************)
(* Proofs about HitMux, for every number of links, every length of a word  *)
(* and any number of packages and runs.                                    *)
(***************************************************************************)
EXTENDS HitMux, FiniteSetTheorems, WellFoundedInduction, TLAPS

-----------------------------------------------------------------------------
(* The parser: how far it is in a package says where its link is. *)

ParserType ==
  /\ feb \in [Links -> [pos : 0..6, package : Nat, sub : {0, 1}]]
  /\ rmask_n \subseteq Links
  /\ package_stage \in [Links -> 0..4 \cup {7}]
  /\ s_hit_cnt \in [Links -> Hits]
  /\ next_64bit_word_valid \subseteq Links

InStep ==
  \A l \in Links :
    /\ l \notin rmask_n => package_stage[l] = 7
    /\ package_stage[l] < 4 => feb[l].pos = package_stage[l] + 1
    /\ package_stage[l] = 4 => feb[l].pos \in {5, 6}

\* What the parser has of the header and of the subheader is of this package.
HasTimes ==
  \A l \in Links :
    /\ package_stage[l] \in 1..4 => times[l][1] = feb[l].package
    /\ package_stage[l] \in 2..4 => times[l][2] = feb[l].package
    /\ package_stage[l] = 4 => times[l][3] = feb[l].package
    /\ package_stage[l] = 4 /\ feb[l].pos = 6 => last_subheader_time[l] = feb[l].sub

-----------------------------------------------------------------------------
(* The hits: each is numbered, and where it is follows from its number. *)

MuxType ==
  /\ index_256 \in [Links -> Slots]
  /\ rx_256 \in [Links -> [Slots -> Hits]] /\ data_in_buffer \in [Links -> [Slots -> Hits]]
  /\ data_out \in [link : Links, word : [Slots -> Hits]]
  /\ rx_valid \subseteq Links /\ data_valid_buffer \subseteq Links /\ data_taken \subseteq Links
  /\ data_taken = {} \/ \E l \in Links : data_taken = {l}
  /\ s_valid \in BOOLEAN /\ fast \in BOOLEAN
  /\ got \in [Links -> Hits]
  /\ gap \in [Links -> 0..N+1]

Count(b, n) == IF b THEN n ELSE 0

\* Numbers of the last hit of link l put into a group, and into a word of the mux.
Grouped(l) == s_hit_cnt[l] - Count(l \in next_64bit_word_valid, 1)
Reached(l) == Grouped(l) - index_256[l] - Count(l \in rx_valid, GroupLen)

Numbered ==
  \A l \in Links :
    /\ l \in next_64bit_word_valid => next_64bit_word[l].hit = s_hit_cnt[l]
    /\ \A s \in Slots : s < index_256[l] => rx_256[l][s] = Grouped(l) - index_256[l] + s + 1
    /\ l \in rx_valid => /\ index_256[l] = 0
                         /\ \A s \in Slots : rx_256[l][s] = Reached(l) + s + 1
    /\ l \in valid_not_taken =>
         \A s \in Slots : data_in_buffer[l][s] = Reached(l) - GroupLen + s + 1
    /\ got[l] <= Reached(l) - Count(l \in valid_not_taken, GroupLen)

Lossless == ~fast => \A l \in Links : got[l] = Reached(l) - Count(l \in valid_not_taken, GroupLen)

-----------------------------------------------------------------------------
(* The mux sends one word per cycle, of the lowest link: k cycles after the  *)
(* last one in which nothing waited of the links up to l, the words that     *)
(* came of those links since have been sent or wait. So no word waits longer *)
(* than there are links.                                                     *)
UpTo(l) == valid_not_taken \cap (0..l)
Since(l, k) == {j \in 0..l : gap[j] <= k}
Backlog(l, k) ==
  /\ \A j \in UpTo(l) : gap[j] <= k
  /\ Cardinality(Since(l, k)) = k - 1 + Cardinality(UpTo(l))

Served ==
  ~fast => /\ \A l \in Links : gap[l] >= 1
           /\ \A l \in Links : UpTo(l) # {} => \E k \in 1..N : Backlog(l, k)

HInv == ParserType /\ InStep /\ HasTimes /\ OwnTimes /\ MuxType /\ Numbered /\ Lossless /\ Served

-----------------------------------------------------------------------------
(* Steps of the parser. *)

LEMMA SizeFacts == N \in Nat \ {0} /\ GroupLen \in Nat \ {0} /\ MaxHits \in Nat /\ 0 \in Links /\ 0 \in Slots
  BY SizeAssumption, BoundAssumption DEF Links, Slots

LEMMA SentIs ==
  ASSUME NEW f \in [pos : 0..6, package : Nat, sub : {0, 1}], NEW k \in Kinds, k = "header" => f.pos <= 4
  PROVE  /\ Sent(f, k) \in [pos : 0..6, package : Nat, sub : {0, 1}]
         /\ k = "sop" => Sent(f, k).pos = 1
         /\ k = "header" => Sent(f, k).pos = f.pos + 1
         /\ k = "sbhdr" => Sent(f, k).pos = 6
         /\ k \in {"idle", "hit"} => Sent(f, k).pos = f.pos
         /\ k # "sop" => Sent(f, k).package = f.package
         /\ k # "sbhdr" => Sent(f, k).sub = f.sub
  BY DEF Sent, Kinds

LEMMA NextStageIs ==
  ASSUME ParserType, NEW l \in Links, NEW k \in Kinds
  PROVE  /\ l \notin rmask_n \/ k = "idle" => NextStage(l, k) = package_stage[l]
         /\ l \in rmask_n /\ k = "sop" => NextStage(l, k) = 0
         /\ l \in rmask_n /\ k \notin {"sop", "idle"} /\ package_stage[l] < 4
              => NextStage(l, k) = package_stage[l] + 1
         /\ l \in rmask_n /\ k \in {"sbhdr", "hit"} /\ package_stage[l] = 4 => NextStage(l, k) = 4
         /\ l \in rmask_n /\ k = "eop" /\ package_stage[l] = 4 => NextStage(l, k) = 7
         /\ k # "sop" /\ package_stage[l] = 7 => NextStage(l, k) = 7
  BY DEF NextStage, Takes, ParserType

\* What a link may send at the stage the parser is in.
LEMMA SendsIs ==
  ASSUME ParserType, InStep, NEW l \in Links, NEW k \in Kinds, Sends(l, k)
  PROVE  /\ k = "header" => feb[l].pos <= 4
         /\ l \in rmask_n /\ package_stage[l] < 4 => k \in {"idle", "sop", "header"}
         /\ package_stage[l] = 4 => k \in {"idle", "sop", "sbhdr", "hit", "eop"}
         /\ k = "hit" => s_hit_cnt[l] < MaxHits /\ feb[l].pos = 6
  BY DEF Sends, Kinds, InStep, ParserType

\* What a clock cycle does to the parser of one link.
ParsedAs(l, k) ==
  /\ Sends(l, k) /\ feb'[l] = Sent(feb[l], k) /\ package_stage'[l] = NextStage(l, k)
  /\ l \in next_64bit_word_valid' <=> IsHit(l, k)
  /\ s_hit_cnt'[l] = s_hit_cnt[l] + IF IsHit(l, k) THEN 1 ELSE 0
  /\ IsHit(l, k) => next_64bit_word'[l] = [hit |-> s_hit_cnt[l] + 1, times |-> times[l],
                                           sub |-> last_subheader_time[l]]
  /\ times'[l][1] = (IF Takes(l, k) /\ k # "sop" /\ package_stage[l] = 0
                     THEN feb'[l].package ELSE times[l][1])
  /\ times'[l][2] = (IF Takes(l, k) /\ k # "sop" /\ package_stage[l] = 1
                     THEN feb'[l].package ELSE times[l][2])
  /\ times'[l][3] = (IF Takes(l, k) /\ k # "sop" /\ package_stage[l] = 3
                     THEN feb'[l].package ELSE times[l][3])
  /\ last_subheader_time'[l] = (IF Takes(l, k) /\ package_stage[l] = 4 /\ k = "sbhdr"
                                THEN feb'[l].sub ELSE last_subheader_time[l])

LEMMA ClockParses ==
  ASSUME Clock
  PROVE  /\ UNCHANGED rmask_n /\ next_64bit_word_valid' \subseteq Links
         /\ feb' = [l \in Links |-> feb'[l]] /\ package_stage' = [l \in Links |-> package_stage'[l]]
         /\ s_hit_cnt' = [l \in Links |-> s_hit_cnt'[l]]
         /\ \A l \in Links : \E k \in Kinds : ParsedAs(l, k)
<1>1. PICK kind \in [Links -> Kinds] :
        /\ \A l \in Links : Sends(l, kind[l])
        /\ feb' = [l \in Links |-> Sent(feb[l], kind[l])]
        /\ Parse(kind)
  BY DEF Clock
<1>2. /\ package_stage' = [l \in Links |-> NextStage(l, kind[l])]
      /\ next_64bit_word_valid' = {l \in Links : IsHit(l, kind[l])}
      /\ s_hit_cnt' = [l \in Links |-> s_hit_cnt[l] + IF IsHit(l, kind[l]) THEN 1 ELSE 0]
      /\ next_64bit_word' = [l \in Links |->
           IF IsHit(l, kind[l])
           THEN [hit |-> s_hit_cnt[l] + 1, times |-> times[l], sub |-> last_subheader_time[l]]
           ELSE next_64bit_word[l]]
  BY <1>1 DEF Parse
<1>. DEFINE at(l, s) == Takes(l, kind[l]) /\ kind[l] # "sop" /\ package_stage[l] = s
<1>3. times' = [l \in Links |->
        [i \in 1..3 |-> IF at(l, <<0, 1, 3>>[i]) THEN feb'[l].package ELSE times[l][i]]]
  BY <1>1 DEF Parse
<1>4. last_subheader_time' = [l \in Links |->
        IF at(l, 4) /\ kind[l] = "sbhdr" THEN feb'[l].sub ELSE last_subheader_time[l]]
  BY <1>1 DEF Parse
<1>5. \A l \in Links :
        /\ times'[l][1] = IF at(l, 0) THEN feb'[l].package ELSE times[l][1]
        /\ times'[l][2] = IF at(l, 1) THEN feb'[l].package ELSE times[l][2]
        /\ times'[l][3] = IF at(l, 3) THEN feb'[l].package ELSE times[l][3]
  <2>1. <<0, 1, 3>>[1] = 0 /\ <<0, 1, 3>>[2] = 1 /\ <<0, 1, 3>>[3] = 3
    OBVIOUS
  <2>. HIDE DEF at
  <2>. QED
    BY <1>3, <2>1
<1>6. \A l \in Links : ParsedAs(l, kind[l])
  <2>. TAKE l \in Links
  <2>1. /\ Sends(l, kind[l]) /\ feb'[l] = Sent(feb[l], kind[l])
        /\ package_stage'[l] = NextStage(l, kind[l])
        /\ l \in next_64bit_word_valid' <=> IsHit(l, kind[l])
        /\ s_hit_cnt'[l] = s_hit_cnt[l] + IF IsHit(l, kind[l]) THEN 1 ELSE 0
        /\ IsHit(l, kind[l]) => next_64bit_word'[l] = [hit |-> s_hit_cnt[l] + 1, times |-> times[l],
                                                       sub |-> last_subheader_time[l]]
    BY <1>1, <1>2
  <2>. QED
    BY <1>4, <1>5, <2>1 DEF ParsedAs
<1>7. UNCHANGED rmask_n
  BY DEF Clock
<1>. QED
  BY <1>1, <1>2, <1>6, <1>7

LEMMA ParserClock ==
  ASSUME ParserType, InStep, HasTimes, Clock
  PROVE  ParserType' /\ InStep' /\ HasTimes' /\ OwnTimes'
<1>1. UNCHANGED rmask_n /\ next_64bit_word_valid' \subseteq Links
  BY ClockParses
<1>2. ASSUME NEW l \in Links
      PROVE  /\ feb'[l] \in [pos : 0..6, package : Nat, sub : {0, 1}]
             /\ package_stage'[l] \in 0..4 \cup {7}
             /\ s_hit_cnt'[l] \in Hits
             /\ l \notin rmask_n => package_stage'[l] = 7
             /\ package_stage'[l] < 4 => feb'[l].pos = package_stage'[l] + 1
             /\ package_stage'[l] = 4 => feb'[l].pos \in {5, 6}
             /\ package_stage'[l] \in 1..4 => times'[l][1] = feb'[l].package
             /\ package_stage'[l] \in 2..4 => times'[l][2] = feb'[l].package
             /\ package_stage'[l] = 4 => times'[l][3] = feb'[l].package
             /\ package_stage'[l] = 4 /\ feb'[l].pos = 6 => last_subheader_time'[l] = feb'[l].sub
             /\ l \in next_64bit_word_valid' =>
                  /\ \A i \in 1..3 : next_64bit_word'[l].times[i] = feb'[l].package
                  /\ next_64bit_word'[l].sub = feb'[l].sub
  <2>1. PICK k \in Kinds : ParsedAs(l, k)
    BY ClockParses
  <2>2. /\ Sends(l, k) /\ feb'[l] = Sent(feb[l], k) /\ package_stage'[l] = NextStage(l, k)
    BY <2>1 DEF ParsedAs
  <2>3. feb[l] \in [pos : 0..6, package : Nat, sub : {0, 1}] /\ package_stage[l] \in 0..4 \cup {7}
        /\ s_hit_cnt[l] \in Nat
    BY DEF ParserType, Hits
  <2>4. /\ k = "header" => feb[l].pos <= 4
        /\ l \in rmask_n /\ package_stage[l] < 4 => k \in {"idle", "sop", "header"}
        /\ package_stage[l] = 4 => k \in {"idle", "sop", "sbhdr", "hit", "eop"}
        /\ k = "hit" => s_hit_cnt[l] < MaxHits /\ feb[l].pos = 6
    BY <2>2, SendsIs
  <2>5. /\ feb'[l] \in [pos : 0..6, package : Nat, sub : {0, 1}]
        /\ k = "sop" => feb'[l].pos = 1
        /\ k = "header" => feb'[l].pos = feb[l].pos + 1
        /\ k = "sbhdr" => feb'[l].pos = 6
        /\ k \in {"idle", "hit"} => feb'[l].pos = feb[l].pos
        /\ k # "sop" => feb'[l].package = feb[l].package
        /\ k # "sbhdr" => feb'[l].sub = feb[l].sub
    BY <2>2, <2>3, <2>4, SentIs
  <2>6. /\ l \notin rmask_n \/ k = "idle" => package_stage'[l] = package_stage[l]
        /\ l \in rmask_n /\ k = "sop" => package_stage'[l] = 0
        /\ l \in rmask_n /\ k \notin {"sop", "idle"} /\ package_stage[l] < 4
             => package_stage'[l] = package_stage[l] + 1
        /\ l \in rmask_n /\ k \in {"sbhdr", "hit"} /\ package_stage[l] = 4 => package_stage'[l] = 4
        /\ l \in rmask_n /\ k = "eop" /\ package_stage[l] = 4 => package_stage'[l] = 7
        /\ k # "sop" /\ package_stage[l] = 7 => package_stage'[l] = 7
    BY <2>2, NextStageIs
  <2>7. /\ l \notin rmask_n => package_stage[l] = 7
        /\ package_stage[l] < 4 => feb[l].pos = package_stage[l] + 1
        /\ package_stage[l] = 4 => feb[l].pos \in {5, 6}
    BY DEF InStep
  <2>8. /\ package_stage[l] \in 1..4 => times[l][1] = feb[l].package
        /\ package_stage[l] \in 2..4 => times[l][2] = feb[l].package
        /\ package_stage[l] = 4 => times[l][3] = feb[l].package
        /\ package_stage[l] = 4 /\ feb[l].pos = 6 => last_subheader_time[l] = feb[l].sub
    BY DEF HasTimes
  <2>9. IsHit(l, k) => k = "hit" /\ l \in rmask_n /\ package_stage[l] = 4
    BY <2>4 DEF IsHit, Takes, Kinds
  <2>10. s_hit_cnt'[l] \in Hits
    <3>1. s_hit_cnt'[l] = s_hit_cnt[l] + (IF IsHit(l, k) THEN 1 ELSE 0)
      BY <2>1 DEF ParsedAs
    <3>. QED
      BY <2>4, <2>9, <3>1, SizeFacts DEF Hits, ParserType
  <2>11. /\ package_stage'[l] \in 0..4 \cup {7}
         /\ l \notin rmask_n => package_stage'[l] = 7
         /\ package_stage'[l] < 4 => feb'[l].pos = package_stage'[l] + 1
         /\ package_stage'[l] = 4 => feb'[l].pos \in {5, 6}
    BY <2>3, <2>4, <2>5, <2>6, <2>7 DEF Kinds
  <2>12. /\ package_stage'[l] \in 1..4 => times'[l][1] = feb'[l].package
         /\ package_stage'[l] \in 2..4 => times'[l][2] = feb'[l].package
         /\ package_stage'[l] = 4 => times'[l][3] = feb'[l].package
         /\ package_stage'[l] = 4 /\ feb'[l].pos = 6 => last_subheader_time'[l] = feb'[l].sub
    BY <2>1, <2>3, <2>4, <2>5, <2>6, <2>7, <2>8 DEF ParsedAs, Takes, Kinds
  <2>13. l \in next_64bit_word_valid' =>
           /\ \A i \in 1..3 : next_64bit_word'[l].times[i] = feb'[l].package
           /\ next_64bit_word'[l].sub = feb'[l].sub
    BY <2>1, <2>4, <2>5, <2>8, <2>9 DEF ParsedAs
  <2>. QED
    BY <2>5, <2>10, <2>11, <2>12, <2>13
<1>3. /\ feb' = [l \in Links |-> feb'[l]] /\ package_stage' = [l \in Links |-> package_stage'[l]]
      /\ s_hit_cnt' = [l \in Links |-> s_hit_cnt'[l]]
  BY ClockParses
<1>4. ParserType'
  BY <1>1, <1>2, <1>3 DEF ParserType
<1>5. InStep' /\ HasTimes' /\ OwnTimes'
  BY <1>1, <1>2 DEF InStep, HasTimes, OwnTimes
<1>. QED
  BY <1>4, <1>5

LEMMA ParserBegin ==
  ASSUME ParserType, BeginRun
  PROVE  ParserType' /\ InStep' /\ HasTimes' /\ OwnTimes'
<1>1. /\ feb' = feb /\ rmask_n' \in Masks /\ package_stage' = [l \in Links |-> 7]
      /\ next_64bit_word_valid' = {} /\ s_hit_cnt' = [l \in Links |-> 0]
  BY DEF BeginRun, Reset
<1>. QED
  BY <1>1, MaskAssumption, SizeFacts DEF ParserType, InStep, HasTimes, OwnTimes, Hits, Links

LEMMA ParserInit ==
  ASSUME Init
  PROVE  ParserType /\ InStep /\ HasTimes /\ OwnTimes
  BY MaskAssumption, SizeFacts DEF Init, ParserType, InStep, HasTimes, OwnTimes, Hits, Links


-----------------------------------------------------------------------------
(* Steps of the groups and of the mux. *)

\* Every set of links has a lowest one.
LEMMA Lowest ==
  ASSUME NEW T \in SUBSET Nat, T # {}
  PROVE  Min(T) \in T /\ \A y \in T : Min(T) <= y
<1>. DEFINE R == OpToRel(<, Nat)
<1>1. IsWellFoundedOn(R, Nat)
  BY NatLessThanWellFounded
<1>2. \A x, y \in Nat : y < x => <<y, x>> \in R
  BY DEF OpToRel
<1>. HIDE DEF R
<1>3. PICK x \in T : \A y \in T : <<y, x>> \notin R
  BY <1>1, WFMin
<1>4. \A y \in T : ~(y < x)
  BY <1>2, <1>3
<1>5. \E z \in T : \A y \in T : z =< y
  BY <1>4
<1>. QED
  BY <1>5 DEF Min

LEMMA NextIndex ==
  ASSUME NEW G \in Nat \ {0}, NEW i \in 0..G-1
  PROVE  (i + 1) % G = IF i = G - 1 THEN 0 ELSE i + 1
  OBVIOUS

\* What a clock cycle does to the group of one link.
LEMMA GroupStep ==
  ASSUME MuxType, Group, next_64bit_word_valid \subseteq Links
  PROVE  /\ rx_valid' \subseteq Links
         /\ index_256' = [l \in Links |-> index_256'[l]] /\ rx_256' = [l \in Links |-> rx_256'[l]]
         /\ \A l \in Links :
              /\ l \in rx_valid' <=> l \in next_64bit_word_valid /\ index_256[l] = GroupLen - 1
              /\ l \notin next_64bit_word_valid =>
                   index_256'[l] = index_256[l] /\ rx_256'[l] = rx_256[l]
              /\ l \in next_64bit_word_valid =>
                   /\ index_256'[l] = IF index_256[l] = GroupLen - 1 THEN 0 ELSE index_256[l] + 1
                   /\ rx_256'[l] = [rx_256[l] EXCEPT ![index_256[l]] = next_64bit_word[l].hit]
<1>1. \A l \in Links : index_256[l] \in 0..GroupLen-1
  BY DEF MuxType, Slots
<1>2. \A l \in Links : (index_256[l] + 1) % GroupLen
                         = IF index_256[l] = GroupLen - 1 THEN 0 ELSE index_256[l] + 1
  BY <1>1, SizeFacts, NextIndex
<1>. QED
  BY <1>2 DEF Group

\* What it does to the words that wait. Without a fault of the parser nothing of
\* this depends on which link is served.
LEMMA MuxStep ==
  ASSUME MuxType, Mux
  PROVE  /\ data_valid_buffer' \subseteq Links
         /\ data_in_buffer' = [l \in Links |-> IF l \in rx_valid THEN rx_256[l] ELSE data_in_buffer[l]]
         /\ \/ /\ valid_not_taken = {} /\ valid_not_taken' = rx_valid
               /\ s_valid' = FALSE /\ data_taken' = {} /\ UNCHANGED <<data_out, got>>
            \/ \E m \in valid_not_taken :
                 /\ \A j \in valid_not_taken : m <= j
                 /\ valid_not_taken' = (rx_valid \cup valid_not_taken) \ {m}
                 /\ s_valid' = TRUE /\ data_taken' = {m}
                 /\ data_out' = [link |-> m, word |-> data_in_buffer[m]]
                 /\ got' = [got EXCEPT ![m] = data_in_buffer[m][GroupLen - 1]]
<1>1. /\ data_valid_buffer' = rx_valid \cup valid_not_taken
      /\ data_in_buffer' = [l \in Links |-> IF l \in rx_valid THEN rx_256[l] ELSE data_in_buffer[l]]
  BY DEF Mux, Keep, valid_not_taken
<1>2. valid_not_taken \subseteq Links /\ rx_valid \subseteq Links
  BY DEF MuxType, valid_not_taken
<1>3. CASE valid_not_taken = {}
  <2>1. s_valid' = FALSE /\ data_taken' = {} /\ UNCHANGED <<data_out, got>>
    BY <1>3 DEF Mux
  <2>. QED
    BY <1>1, <1>2, <1>3, <2>1 DEF valid_not_taken
<1>4. CASE valid_not_taken # {}
  <2>. DEFINE m == Min(valid_not_taken)
  <2>1. /\ s_valid' = TRUE /\ data_taken' = {m}
        /\ data_out' = [link |-> m, word |-> data_in_buffer[m]]
        /\ got' = [got EXCEPT ![m] = data_in_buffer[m][GroupLen - 1]]
    BY <1>4 DEF Mux
  <2>2. m \in valid_not_taken /\ \A j \in valid_not_taken : m <= j
    <3>1. valid_not_taken \in SUBSET Nat
      BY <1>2, SizeFacts DEF Links
    <3>. QED
      BY <1>4, <3>1, Lowest
  <2>. HIDE DEF m
  <2>3. valid_not_taken' = (rx_valid \cup valid_not_taken) \ {m}
    BY <1>1, <2>1 DEF valid_not_taken
  <2>. QED
    BY <1>1, <1>2, <2>1, <2>2, <2>3
<1>. QED
  BY <1>3, <1>4

LEMMA GapStep ==
  ASSUME MuxType, Mux
  PROVE  /\ fast' \in BOOLEAN /\ gap' \in [Links -> 0..N+1]
         /\ ~fast' => /\ ~fast /\ \A l \in rx_valid : gap[l] = N + 1
                      /\ \A l \in Links : gap'[l] = IF l \in rx_valid THEN 1
                                                    ELSE IF gap[l] = N + 1 THEN N + 1 ELSE gap[l] + 1
<1>1. /\ fast' = (fast \/ \E l \in rx_valid : gap[l] <= N)
      /\ gap' = [l \in Links |->
               IF fast' THEN 0 ELSE IF l \in rx_valid THEN 1 ELSE Min({gap[l] + 1, N + 1})]
  BY DEF Mux
<1>2. \A l \in Links : gap[l] \in 0..N+1
  BY DEF MuxType
<1>3. \A l \in Links : Min({gap[l] + 1, N + 1}) = IF gap[l] = N + 1 THEN N + 1 ELSE gap[l] + 1
  <2>. TAKE l \in Links
  <2>. DEFINE T == {gap[l] + 1, N + 1}
  <2>1. T \in SUBSET Nat /\ T # {}
    BY <1>2, SizeFacts
  <2>2. Min(T) \in T /\ \A y \in T : Min(T) <= y
    BY <2>1, Lowest
  <2>3. \/ Min(T) = gap[l] + 1 /\ gap[l] + 1 <= N + 1
        \/ Min(T) = N + 1 /\ N + 1 <= gap[l] + 1
    BY <2>2
  <2>. HIDE DEF T
  <2>4. Min(T) = IF gap[l] = N + 1 THEN N + 1 ELSE gap[l] + 1
    BY <1>2, <2>3, SizeFacts
  <2>. QED
    BY <2>4 DEF T
<1>4. fast' \in BOOLEAN
  BY <1>1 DEF MuxType
<1>5. gap' \in [Links -> 0..N+1]
  <2>1. \A l \in Links : (IF gap[l] = N + 1 THEN N + 1 ELSE gap[l] + 1) \in 0..N+1
    BY <1>2, SizeFacts
  <2>2. 0 \in 0..N+1 /\ 1 \in 0..N+1
    BY SizeFacts
  <2>. QED
    BY <1>1, <1>3, <2>1, <2>2
<1>6. ASSUME ~fast'
      PROVE  /\ ~fast /\ \A l \in rx_valid : gap[l] = N + 1
             /\ \A l \in Links : gap'[l] = IF l \in rx_valid THEN 1
                                           ELSE IF gap[l] = N + 1 THEN N + 1 ELSE gap[l] + 1
  <2>1. ~fast /\ \A l \in rx_valid : ~(gap[l] <= N)
    BY <1>1, <1>6
  <2>2. \A l \in rx_valid : gap[l] = N + 1
    <3>1. rx_valid \subseteq Links
      BY DEF MuxType
    <3>. QED
      BY <1>2, <2>1, <3>1, SizeFacts
  <2>. QED
    BY <1>1, <1>3, <1>6, <2>1, <2>2
<1>. QED
  BY <1>4, <1>5, <1>6


LEMMA TypeClock ==
  ASSUME ParserType, MuxType, Numbered, Clock
  PROVE  MuxType'
<1>1. Group /\ Mux /\ next_64bit_word_valid \subseteq Links
  BY DEF Clock, ParserType
<1>2. \A l \in Links : index_256'[l] \in Slots
  <2>. TAKE l \in Links
  <2>1. index_256[l] \in 0..GroupLen-1
    BY DEF MuxType, Slots
  <2>2. index_256'[l] \in {0, index_256[l]} \/ (index_256[l] # GroupLen - 1 /\ index_256'[l] = index_256[l] + 1)
    BY <1>1, GroupStep
  <2>. QED
    BY <2>1, <2>2, SizeFacts DEF Slots
<1>3. \A l \in Links : rx_256'[l] \in [Slots -> Hits]
  <2>. TAKE l \in Links
  <2>1. rx_256[l] \in [Slots -> Hits] /\ s_hit_cnt[l] \in Hits
    BY DEF MuxType, ParserType
  <2>2. l \in next_64bit_word_valid => next_64bit_word[l].hit \in Hits
    BY <2>1 DEF Numbered
  <2>. QED
    BY <1>1, <2>1, <2>2, GroupStep
<1>4. index_256' \in [Links -> Slots] /\ rx_256' \in [Links -> [Slots -> Hits]] /\ rx_valid' \subseteq Links
  BY <1>1, <1>2, <1>3, GroupStep
<1>5. /\ data_valid_buffer' \subseteq Links /\ data_in_buffer' \in [Links -> [Slots -> Hits]]
      /\ data_taken' \subseteq Links /\ (data_taken' = {} \/ \E l \in Links : data_taken' = {l})
      /\ s_valid' \in BOOLEAN /\ got' \in [Links -> Hits]
      /\ data_out' \in [link : Links, word : [Slots -> Hits]]
  <2>1. /\ data_valid_buffer' \subseteq Links
        /\ data_in_buffer' = [l \in Links |-> IF l \in rx_valid THEN rx_256[l] ELSE data_in_buffer[l]]
        /\ \/ s_valid' = FALSE /\ data_taken' = {} /\ UNCHANGED <<data_out, got>>
           \/ \E m \in Links :
                 /\ s_valid' = TRUE /\ data_taken' = {m}
                 /\ data_out' = [link |-> m, word |-> data_in_buffer[m]]
                 /\ got' = [got EXCEPT ![m] = data_in_buffer[m][GroupLen - 1]]
    BY <1>1, MuxStep DEF MuxType, valid_not_taken
  <2>2. data_in_buffer' \in [Links -> [Slots -> Hits]]
    BY <2>1 DEF MuxType
  <2>3. CASE s_valid' = FALSE /\ data_taken' = {} /\ UNCHANGED <<data_out, got>>
    BY <2>1, <2>2, <2>3 DEF MuxType
  <2>4. ASSUME NEW m \in Links, s_valid' = TRUE /\ data_taken' = {m},
               data_out' = [link |-> m, word |-> data_in_buffer[m]],
               got' = [got EXCEPT ![m] = data_in_buffer[m][GroupLen - 1]]
        PROVE  /\ data_out' \in [link : Links, word : [Slots -> Hits]] /\ got' \in [Links -> Hits]
               /\ data_taken' \subseteq Links /\ s_valid' \in BOOLEAN
    <3>1. data_in_buffer[m] \in [Slots -> Hits] /\ got \in [Links -> Hits]
      BY DEF MuxType
    <3>2. GroupLen - 1 \in Slots
      BY SizeFacts DEF Slots
    <3>. QED
      BY <2>4, <3>1, <3>2
  <2>. QED
    BY <2>1, <2>2, <2>3, <2>4
<1>6. gap' \in [Links -> 0..N+1] /\ fast' \in BOOLEAN
  BY <1>1, GapStep
<1>. QED
  BY <1>4, <1>5, <1>6 DEF MuxType

\* The numbers of one link after a clock cycle, from what was there before:
\* c hits were taken, v says that the last one is still in front of the group.
LEMMA NumbersStep ==
  ASSUME ParserType, MuxType, Numbered, Clock, NEW l \in Links
  PROVE  /\ l \in next_64bit_word_valid' => next_64bit_word'[l].hit = s_hit_cnt'[l]
         /\ Grouped(l)' = s_hit_cnt[l]
         /\ Reached(l)' = Reached(l) + Count(l \in rx_valid, GroupLen)
         /\ \A s \in Slots : s < index_256'[l] => rx_256'[l][s] = s_hit_cnt[l] - index_256'[l] + s + 1
         /\ l \in rx_valid' => /\ index_256'[l] = 0
                               /\ \A s \in Slots : rx_256'[l][s] = s_hit_cnt[l] - GroupLen + s + 1
<1>. DEFINE v == l \in next_64bit_word_valid
            i == index_256[l]
            c == s_hit_cnt[l]
            w == rx_256[l]
            w2 == rx_256'[l]
            i2 == index_256'[l]
            G == GroupLen
<1>1. i \in 0..G-1 /\ c \in Nat /\ G \in Nat \ {0} /\ w \in [0..G-1 -> Hits]
  <2>1. i \in Slots /\ c \in Hits /\ w \in [Slots -> Hits]
    BY DEF MuxType, ParserType
  <2>. QED
    BY <2>1, SizeFacts DEF Hits, Slots
<1>2. PICK k \in Kinds : ParsedAs(l, k)
  BY ClockParses
<1>3. /\ l \in next_64bit_word_valid' => next_64bit_word'[l].hit = s_hit_cnt'[l]
      /\ s_hit_cnt'[l] = c + Count(l \in next_64bit_word_valid', 1)
  BY <1>1, <1>2 DEF ParsedAs, Count
<1>4. Grouped(l)' = c
  BY <1>1, <1>3 DEF Grouped, Count
<1>5. /\ (l \in rx_valid') = (v /\ i = G - 1)
      /\ ~v => i2 = i /\ w2 = w
      /\ v => i2 = (IF i = G - 1 THEN 0 ELSE i + 1) /\ w2 = [w EXCEPT ![i] = next_64bit_word[l].hit]
  <2>1. Group /\ next_64bit_word_valid \subseteq Links
    BY DEF Clock, ParserType
  <2>. QED
    BY <2>1, GroupStep
<1>6. /\ v => next_64bit_word[l].hit = c
      /\ Grouped(l) = c - Count(v, 1)
      /\ Reached(l) = c - Count(v, 1) - i - Count(l \in rx_valid, G)
      /\ \A s \in 0..G-1 : s < i => w[s] = c - Count(v, 1) - i + s + 1
  BY DEF Numbered, Grouped, Reached, Slots
<1>7. Reached(l)' = c - i2 - Count(l \in rx_valid', G)
  BY <1>4 DEF Reached
<1>. HIDE DEF v, i, c, w, w2, i2, G
<1>8. Reached(l)' = Reached(l) + Count(l \in rx_valid, G)
  BY <1>1, <1>5, <1>6, <1>7 DEF Count
<1>9. ASSUME NEW s \in 0..G-1, s < i2 PROVE w2[s] = c - i2 + s + 1
  <2>1. CASE ~v
    <3>1. i2 = i /\ w2 = w /\ Count(v, 1) = 0
      BY <1>5, <2>1 DEF Count
    <3>2. w[s] = c - 0 - i + s + 1
      BY <1>6, <1>9, <3>1
    <3>. QED
      BY <1>1, <3>1, <3>2
  <2>2. CASE v
    <3>1. i # G - 1 /\ i2 = i + 1 /\ w2 = [w EXCEPT ![i] = c]
      BY <1>1, <1>5, <1>6, <1>9, <2>2
    <3>2. CASE s = i
      BY <1>1, <3>1, <3>2
    <3>3. CASE s # i
      <4>1. s < i
        BY <1>1, <1>9, <3>1, <3>3
      <4>2. w[s] = c - 1 - i + s + 1
        BY <1>6, <2>2, <4>1 DEF Count
      <4>. QED
        BY <1>1, <3>1, <3>3, <4>2
    <3>. QED
      BY <3>2, <3>3
  <2>. QED
    BY <2>1, <2>2
<1>10. ASSUME NEW s \in 0..G-1, l \in rx_valid' PROVE i2 = 0 /\ w2[s] = c - G + s + 1
  <2>1. v /\ i = G - 1 /\ i2 = 0 /\ w2 = [w EXCEPT ![i] = c]
    BY <1>5, <1>6, <1>10
  <2>2. CASE s = i
    BY <1>1, <2>1, <2>2
  <2>3. CASE s < i
    BY <1>1, <1>6, <2>1, <2>3 DEF Count
  <2>. QED
    BY <1>1, <2>1, <2>2, <2>3
<1>11. l \in rx_valid' => i2 = 0
  BY <1>5
<1>. QED
  BY <1>3, <1>4, <1>8, <1>9, <1>10, <1>11 DEF Slots, c, w2, i2, G


LEMMA NumberedClock ==
  ASSUME ParserType, MuxType, Numbered, Clock
  PROVE  Numbered'
<1>. SUFFICES ASSUME NEW l \in Links
     PROVE  /\ l \in next_64bit_word_valid' => next_64bit_word'[l].hit = s_hit_cnt'[l]
            /\ \A s \in Slots : s < index_256'[l] => rx_256'[l][s] = Grouped(l)' - index_256'[l] + s + 1
            /\ l \in rx_valid' => /\ index_256'[l] = 0
                                  /\ \A s \in Slots : rx_256'[l][s] = Reached(l)' + s + 1
            /\ l \in valid_not_taken' =>
                 \A s \in Slots : data_in_buffer'[l][s] = Reached(l)' - GroupLen + s + 1
            /\ got'[l] <= Reached(l)' - Count(l \in valid_not_taken', GroupLen)
  BY DEF Numbered
<1>1. /\ l \in next_64bit_word_valid' => next_64bit_word'[l].hit = s_hit_cnt'[l]
      /\ \A s \in Slots : s < index_256'[l] => rx_256'[l][s] = s_hit_cnt[l] - index_256'[l] + s + 1
      /\ l \in rx_valid' => /\ index_256'[l] = 0
                            /\ \A s \in Slots : rx_256'[l][s] = s_hit_cnt[l] - GroupLen + s + 1
      /\ Grouped(l)' = s_hit_cnt[l] /\ Reached(l)' = Reached(l) + Count(l \in rx_valid, GroupLen)
  BY NumbersStep
<1>2. l \in rx_valid' => Reached(l)' = s_hit_cnt[l] - GroupLen
  <2>1. s_hit_cnt[l] \in Nat /\ GroupLen \in Nat
    BY SizeFacts DEF ParserType, Hits
  <2>. QED
    BY <1>1, <2>1 DEF Reached, Count
<1>3. /\ data_in_buffer'[l] = IF l \in rx_valid THEN rx_256[l] ELSE data_in_buffer[l]
      /\ \/ /\ valid_not_taken = {} /\ valid_not_taken' = rx_valid /\ got' = got
         \/ \E m \in valid_not_taken :
              /\ valid_not_taken' = (rx_valid \cup valid_not_taken) \ {m}
              /\ got' = [got EXCEPT ![m] = data_in_buffer[m][GroupLen - 1]]
  <2>1. Mux
    BY DEF Clock
  <2>. QED
    BY <2>1, MuxStep
<1>. DEFINE r == Reached(l)
            G == GroupLen
            P == valid_not_taken
            P2 == valid_not_taken'
<1>4. r \in Int /\ got[l] \in Nat /\ G \in Nat \ {0} /\ G - 1 \in Slots
      /\ \A s \in Slots : s \in 0..G-1
  <2>1. s_hit_cnt[l] \in Nat /\ index_256[l] \in Nat /\ got[l] \in Nat /\ GroupLen \in Nat \ {0}
    BY SizeFacts DEF ParserType, MuxType, Hits, Slots
  <2>. QED
    BY <2>1 DEF Reached, Grouped, Count, Slots
<1>5. /\ l \in rx_valid => \A s \in Slots : rx_256[l][s] = r + s + 1
      /\ l \in P => \A s \in Slots : data_in_buffer[l][s] = r - G + s + 1
      /\ got[l] <= r - Count(l \in P, G)
  BY DEF Numbered
<1>6. Reached(l)' = r + Count(l \in rx_valid, G)
  BY <1>1
<1>7. ASSUME l \in P2
      PROVE  \A s \in Slots : data_in_buffer'[l][s] = (r + Count(l \in rx_valid, G)) - G + s + 1
  <2>1. CASE l \in rx_valid
    <3>. SUFFICES ASSUME NEW s \in Slots PROVE data_in_buffer'[l][s] = (r + G) - G + s + 1
      BY <2>1 DEF Count
    <3>1. data_in_buffer'[l][s] = r + s + 1
      BY <1>3, <1>5, <2>1
    <3>. HIDE DEF r, G
    <3>. QED
      BY <1>4, <3>1
  <2>2. CASE l \notin rx_valid
    <3>. SUFFICES ASSUME NEW s \in Slots PROVE data_in_buffer'[l][s] = (r + 0) - G + s + 1
      BY <2>2 DEF Count
    <3>1. l \in P /\ data_in_buffer'[l] = data_in_buffer[l]
      BY <1>3, <1>7, <2>2
    <3>2. data_in_buffer'[l][s] = r - G + s + 1
      BY <1>5, <3>1
    <3>. HIDE DEF r, G
    <3>. QED
      BY <1>4, <3>2
  <2>. QED
    BY <2>1, <2>2
<1>8. got'[l] <= (r + Count(l \in rx_valid, G)) - Count(l \in P2, G)
  <2>1. \/ /\ (l \in P2) = (l \in rx_valid \/ l \in P) /\ got'[l] = got[l]
        \/ /\ l \notin P2 /\ l \in P /\ got'[l] = data_in_buffer[l][G - 1]
    BY <1>3 DEF MuxType
  <2>2. l \in P => data_in_buffer[l][G - 1] = r - G + (G - 1) + 1
    BY <1>4, <1>5
  <2>. HIDE DEF r, G, P, P2
  <2>. QED
    BY <1>4, <1>5, <2>1, <2>2 DEF Count
<1>9. /\ l \in next_64bit_word_valid' => next_64bit_word'[l].hit = s_hit_cnt'[l]
      /\ \A s \in Slots : s < index_256'[l] => rx_256'[l][s] = Grouped(l)' - index_256'[l] + s + 1
  BY <1>1
<1>10. l \in rx_valid' => index_256'[l] = 0 /\ \A s \in Slots : rx_256'[l][s] = Reached(l)' + s + 1
  BY <1>1, <1>2
<1>11. l \in P2 => \A s \in Slots : data_in_buffer'[l][s] = Reached(l)' - G + s + 1
  BY <1>6, <1>7, Zenon
<1>12. got'[l] <= Reached(l)' - Count(l \in P2, G)
  BY <1>6, <1>8, Zenon
<1>. QED
  BY <1>9, <1>10, <1>11, <1>12

LEMMA LosslessClock ==
  ASSUME ParserType, MuxType, Numbered, Lossless, Clock,
         ~fast' => ~fast /\ rx_valid \cap valid_not_taken = {}
  PROVE  Lossless'
<1>. SUFFICES ASSUME ~fast', NEW l \in Links
     PROVE  got'[l] = Reached(l)' - Count(l \in valid_not_taken', GroupLen)
  BY DEF Lossless
<1>1. Reached(l)' = Reached(l) + Count(l \in rx_valid, GroupLen)
  BY NumbersStep
<1>2. \/ /\ valid_not_taken = {} /\ valid_not_taken' = rx_valid /\ got' = got
      \/ \E m \in valid_not_taken :
              /\ valid_not_taken' = (rx_valid \cup valid_not_taken) \ {m}
              /\ got' = [got EXCEPT ![m] = data_in_buffer[m][GroupLen - 1]]
  <2>1. Mux
    BY DEF Clock
  <2>. QED
    BY <2>1, MuxStep
<1>. DEFINE r == Reached(l)
            G == GroupLen
            P == valid_not_taken
            P2 == valid_not_taken'
<1>3. r \in Int /\ got[l] \in Nat /\ G \in Nat \ {0} /\ G - 1 \in Slots
  <2>1. s_hit_cnt[l] \in Nat /\ index_256[l] \in Nat /\ got[l] \in Nat /\ GroupLen \in Nat \ {0}
    BY SizeFacts DEF ParserType, MuxType, Hits, Slots
  <2>. QED
    BY <2>1 DEF Reached, Grouped, Count, Slots
<1>4. /\ l \in P => data_in_buffer[l][G - 1] = r - G + (G - 1) + 1
      /\ got[l] = r - Count(l \in P, G) /\ (l \in rx_valid => l \notin P)
  BY <1>3 DEF Numbered, Lossless
<1>5. \/ /\ (l \in P2) = (l \in rx_valid \/ l \in P) /\ got'[l] = got[l]
      \/ /\ l \notin P2 /\ l \in P /\ got'[l] = data_in_buffer[l][G - 1]
  BY <1>2 DEF MuxType
<1>6. got'[l] = (r + Count(l \in rx_valid, G)) - Count(l \in P2, G)
  <2>. HIDE DEF r, G, P, P2
  <2>. QED
    BY <1>3, <1>4, <1>5 DEF Count
<1>. QED
  BY <1>1, <1>6, Zenon


\* A word that waits has not waited for N cycles, so none comes while it does.
LEMMA NoneOver ==
  ASSUME MuxType, Served, ~fast, \A l \in rx_valid : gap[l] = N + 1
  PROVE  rx_valid \cap valid_not_taken = {}
<1>. SUFFICES ASSUME NEW l \in rx_valid, l \in valid_not_taken PROVE FALSE
  OBVIOUS
<1>1. l \in Links /\ l \in UpTo(l)
  BY SizeFacts DEF MuxType, UpTo, Links
<1>2. PICK k \in 1..N : Backlog(l, k)
  BY <1>1 DEF Served
<1>3. gap[l] <= k
  BY <1>1, <1>2 DEF Backlog
<1>. QED
  BY <1>2, <1>3, SizeFacts

\* Nothing waited of the links up to l: what comes now is the whole backlog.
LEMMA BacklogBegins ==
  ASSUME MuxType, Served, Mux, ~fast', NEW l \in Links, UpTo(l) = {}
  PROVE  Backlog(l, 1)'
<1>. DEFINE R == rx_valid \cap (0..l)
<1>1. /\ \/ valid_not_taken' = rx_valid
         \/ \E m \in valid_not_taken : valid_not_taken' = (rx_valid \cup valid_not_taken) \ {m}
      /\ valid_not_taken \subseteq Links /\ rx_valid \subseteq Links /\ l \in Nat
  <2>1. valid_not_taken \subseteq Links /\ rx_valid \subseteq Links
    BY DEF MuxType, valid_not_taken
  <2>2. l \in Nat
    BY SizeFacts DEF Links
  <2>. QED
    BY <2>1, <2>2, MuxStep
<1>2. \A j \in valid_not_taken : j \notin 0..l
  BY DEF UpTo
<1>3. UpTo(l)' = R
  BY <1>1, <1>2 DEF UpTo
<1>4. \A j \in 0..l : gap'[j] <= 1 <=> j \in rx_valid
  <2>1. /\ \A j \in Links : gap'[j] = IF j \in rx_valid THEN 1
                                      ELSE IF gap[j] = N + 1 THEN N + 1 ELSE gap[j] + 1
        /\ ~fast
    BY GapStep
  <2>2. \A j \in Links : gap[j] >= 1 /\ gap[j] \in 0..N+1
    BY <2>1 DEF Served, MuxType
  <2>3. 0..l \subseteq Links
    BY SizeFacts DEF Links
  <2>. QED
    BY <2>1, <2>2, <2>3, SizeFacts
<1>5. Since(l, 1)' = R
  BY <1>4 DEF Since
<1>6. IsFiniteSet(R) /\ Cardinality(R) \in Nat
  <2>1. IsFiniteSet(0..l)
    BY <1>1, FS_Interval
  <2>2. IsFiniteSet(R)
    BY <2>1, FS_Subset
  <2>. QED
    BY <2>2, FS_CardinalityType
<1>. HIDE DEF R
<1>7. \A j \in R : gap'[j] <= 1
  BY <1>4 DEF R
<1>. QED
  BY <1>3, <1>5, <1>6, <1>7 DEF Backlog

\* The backlog goes on: one word is sent, and what comes is new in it.
LEMMA BacklogGoesOn ==
  ASSUME MuxType, Served, Mux, ~fast', NEW l \in Links, UpTo(l) # {}, UpTo(l)' # {},
         NEW k \in 1..N, Backlog(l, k)
  PROVE  k + 1 \in 1..N /\ Backlog(l, k + 1)'
<1>. DEFINE R == rx_valid \cap (0..l)
            U == UpTo(l)
            U2 == UpTo(l)'
            A == Since(l, k)
<1>1. /\ valid_not_taken \subseteq Links /\ rx_valid \subseteq Links
      /\ l \in Nat /\ l + 1 <= N /\ 0..l \subseteq Links
  BY SizeFacts DEF MuxType, valid_not_taken, Links
<1>2. /\ ~fast /\ \A j \in rx_valid : gap[j] = N + 1
      /\ \A j \in Links : gap'[j] = IF j \in rx_valid THEN 1
                                    ELSE IF gap[j] = N + 1 THEN N + 1 ELSE gap[j] + 1
  BY GapStep
<1>3. \A j \in Links : gap[j] \in 1..N+1
  BY <1>2, SizeFacts DEF Served, MuxType
<1>4. PICK m \in valid_not_taken :
        /\ \A j \in valid_not_taken : m <= j
        /\ valid_not_taken' = (rx_valid \cup valid_not_taken) \ {m}
  BY MuxStep DEF UpTo
<1>5. m \in U /\ U2 = (R \cup U) \ {m}
  <2>1. PICK j \in U : TRUE
    OBVIOUS
  <2>2. j \in valid_not_taken /\ j \in 0..l /\ m <= j
    BY <1>4, <2>1 DEF UpTo
  <2>3. m \in 0..l
    BY <1>1, <1>4, <2>2, SizeFacts DEF Links
  <2>. QED
    BY <1>4, <2>3 DEF UpTo
<1>6. R \cap U = {} /\ R \cap A = {}
  <2>1. rx_valid \cap valid_not_taken = {}
    BY <1>2, NoneOver
  <2>2. \A j \in R : ~(gap[j] <= k)
    BY <1>2, SizeFacts
  <2>. QED
    BY <2>1, <2>2 DEF UpTo, Since
<1>7. /\ \A j \in U : gap[j] <= k
      /\ Cardinality(A) = k - 1 + Cardinality(U)
  BY DEF Backlog
<1>8. A \subseteq 0..l /\ R \subseteq 0..l /\ U \subseteq 0..l
  BY DEF Since, UpTo
<1>9. /\ \A j \in 0..l : j \in A <=> gap[j] <= k
      /\ \A j \in 0..l : j \in R <=> j \in rx_valid
  BY DEF Since
<1>10. /\ UpTo(l)' = U2 /\ Since(l, k + 1)' = {j \in 0..l : gap'[j] <= k + 1} /\ U2 # {}
  BY DEF Since
<1>. HIDE DEF R, U, U2, A
<1>11. /\ IsFiniteSet(A) /\ IsFiniteSet(R) /\ IsFiniteSet(U) /\ IsFiniteSet(R \cup U)
       /\ Cardinality(A) \in Nat /\ Cardinality(R) \in Nat /\ Cardinality(U) \in Nat
       /\ Cardinality(A \cup R) = Cardinality(A) + Cardinality(R)
       /\ Cardinality(R \cup U) = Cardinality(R) + Cardinality(U)
       /\ Cardinality(A \cup R) <= l + 1
  <2>1. IsFiniteSet(0..l) /\ Cardinality(0..l) = l + 1
    BY <1>1, FS_Interval
  <2>2. IsFiniteSet(A) /\ IsFiniteSet(R) /\ IsFiniteSet(U)
    BY <1>8, <2>1, FS_Subset
  <2>3. Cardinality(A) \in Nat /\ Cardinality(R) \in Nat /\ Cardinality(U) \in Nat
    BY <2>2, FS_CardinalityType
  <2>4. A \cap R = {} /\ R \cap U = {} /\ Cardinality({}) = 0
    BY <1>6, FS_EmptySet
  <2>5. /\ Cardinality(A \cup R) = Cardinality(A) + Cardinality(R) - Cardinality(A \cap R)
        /\ IsFiniteSet(R \cup U)
        /\ Cardinality(R \cup U) = Cardinality(R) + Cardinality(U) - Cardinality(R \cap U)
    BY <2>2, FS_Union
  <2>6. Cardinality(A \cup R) <= l + 1
    <3>1. A \cup R \in SUBSET (0..l)
      BY <1>8
    <3>. QED
      BY <2>1, <3>1, FS_Subset
  <2>7. Cardinality(A \cap R) = 0 /\ Cardinality(R \cap U) = 0
    BY <2>4
  <2>8. /\ Cardinality(A \cup R) = Cardinality(A) + Cardinality(R)
        /\ Cardinality(R \cup U) = Cardinality(R) + Cardinality(U)
    BY <2>3, <2>5, <2>7
  <2>. QED
    BY <2>2, <2>3, <2>5, <2>6, <2>8
<1>12. Cardinality(U2) = Cardinality(R) + Cardinality(U) - 1 /\ Cardinality(U2) >= 1
  <2>1. Cardinality((R \cup U) \ {m}) = Cardinality(R \cup U) - 1 /\ IsFiniteSet((R \cup U) \ {m})
    BY <1>5, <1>11, FS_RemoveElement
  <2>2. Cardinality(U2) # 0 /\ Cardinality(U2) \in Nat
    BY <1>5, <1>10, <2>1, FS_EmptySet, FS_CardinalityType
  <2>. QED
    BY <1>5, <1>11, <2>1, <2>2
<1>13. k + 1 <= N
  <2>. DEFINE a == Cardinality(A)
              r == Cardinality(R)
              u == Cardinality(U)
              b == Cardinality(A \cup R)
              u2 == Cardinality(U2)
  <2>1. a \in Nat /\ r \in Nat /\ u \in Nat /\ b = a + r /\ b <= l + 1 /\ u2 = r + u - 1 /\ u2 >= 1
    BY <1>11, <1>12
  <2>2. a = k - 1 + u
    BY <1>7
  <2>. HIDE DEF a, r, u, b, u2
  <2>. QED
    BY <1>1, <2>1, <2>2, SizeFacts
<1>14. Since(l, k + 1)' = A \cup R
  <2>1. \A j \in 0..l : gap'[j] <= k + 1 <=> j \in A \/ j \in R
    BY <1>1, <1>2, <1>3, <1>9, <1>13, SizeFacts
  <2>. QED
    BY <1>8, <1>10, <2>1
<1>15. \A j \in U2 : gap'[j] <= k + 1
  <2>. SUFFICES ASSUME NEW j \in U2 PROVE gap'[j] <= k + 1
    OBVIOUS
  <2>1. j \in R \/ j \in U
    BY <1>5
  <2>2. j \in Links
    BY <1>1, <1>8, <2>1
  <2>3. gap[j] \in 1..N+1 /\ (j \in rx_valid \/ gap[j] <= k)
    BY <1>3, <1>7, <1>8, <1>9, <2>1, <2>2
  <2>. QED
    BY <1>2, <1>13, <2>2, <2>3, SizeFacts
<1>16. Cardinality(A \cup R) = (k + 1) - 1 + Cardinality(U2)
  <2>. DEFINE a == Cardinality(A)
              r == Cardinality(R)
              u == Cardinality(U)
  <2>1. a \in Nat /\ r \in Nat /\ u \in Nat /\ a = k - 1 + u
    BY <1>7, <1>11
  <2>2. Cardinality(A \cup R) = a + r /\ Cardinality(U2) = r + u - 1
    BY <1>11, <1>12
  <2>. HIDE DEF a, r, u
  <2>. QED
    BY <2>1, <2>2
<1>17. k + 1 \in 1..N
  BY <1>13, SizeFacts
<1>18. /\ \A j \in UpTo(l)' : gap'[j] <= k + 1
       /\ Cardinality(Since(l, k + 1)') = (k + 1) - 1 + Cardinality(UpTo(l)')
  BY <1>10, <1>14, <1>15, <1>16
<1>. QED
  BY <1>17, <1>18 DEF Backlog

LEMMA ServedClock ==
  ASSUME MuxType, Served, Mux
  PROVE  Served' /\ (~fast' => ~fast /\ rx_valid \cap valid_not_taken = {})
<1>1. ASSUME ~fast'
      PROVE  ~fast /\ rx_valid \cap valid_not_taken = {} /\ \A l \in Links : gap'[l] >= 1
  <2>1. /\ ~fast /\ \A j \in rx_valid : gap[j] = N + 1
        /\ \A j \in Links : gap'[j] = IF j \in rx_valid THEN 1
                                      ELSE IF gap[j] = N + 1 THEN N + 1 ELSE gap[j] + 1
    BY <1>1, GapStep
  <2>2. \A j \in Links : gap[j] \in 0..N+1
    BY DEF MuxType
  <2>. QED
    BY <2>1, <2>2, NoneOver, SizeFacts
<1>2. ASSUME ~fast', NEW l \in Links, UpTo(l)' # {} PROVE \E k \in 1..N : Backlog(l, k)'
  <2>1. CASE UpTo(l) = {}
    BY <1>2, <2>1, BacklogBegins, SizeFacts
  <2>2. CASE UpTo(l) # {}
    <3>1. PICK k \in 1..N : Backlog(l, k)
      BY <1>1, <1>2, <2>2 DEF Served
    <3>2. k + 1 \in 1..N /\ Backlog(l, k + 1)'
      BY <1>2, <2>2, <3>1, BacklogGoesOn
    <3>. QED
      BY <3>2
  <2>. QED
    BY <2>1, <2>2
<1>3. Served'
  BY <1>1, <1>2 DEF Served
<1>. QED
  BY <1>1, <1>3


-----------------------------------------------------------------------------
(* A run begins, and the theorems. *)

\* Nothing is on its way: after begin_of_run, and at the start.
Nothing ==
  /\ s_hit_cnt = [l \in Links |-> 0] /\ next_64bit_word_valid = {}
  /\ index_256 = [l \in Links |-> 0] /\ rx_valid = {} /\ data_valid_buffer = {}
  /\ rx_256 = [l \in Links |-> NoWord] /\ data_taken = {} /\ s_valid = FALSE
  /\ got = [l \in Links |-> 0] /\ gap = [l \in Links |-> N + 1] /\ fast = FALSE
  /\ data_in_buffer \in [Links -> [Slots -> Hits]]
  /\ data_out \in [link : Links, word : [Slots -> Hits]]

LEMMA MuxEmpty == Nothing => MuxType /\ Numbered /\ Lossless /\ Served
<1>. SUFFICES ASSUME Nothing PROVE MuxType /\ Numbered /\ Lossless /\ Served
  OBVIOUS
<1>1. 0 \in Hits /\ 0 \in Slots /\ N + 1 \in 0..N+1 /\ N + 1 >= 1
  BY SizeFacts DEF Hits
<1>2. MuxType
  BY <1>1 DEF Nothing, MuxType, NoWord, NoHit
<1>3. valid_not_taken = {} /\ rx_valid = {} /\ next_64bit_word_valid = {}
  BY DEF valid_not_taken, Nothing
<1>4. \A l \in Links : s_hit_cnt[l] = 0 /\ index_256[l] = 0 /\ got[l] = 0 /\ gap[l] = N + 1
  BY DEF Nothing
<1>5. ASSUME NEW l \in Links PROVE Grouped(l) = 0 /\ Reached(l) = 0 /\ UpTo(l) = {}
  <2>1. Grouped(l) = 0
    BY <1>3, <1>4 DEF Grouped, Count
  <2>2. Reached(l) = 0
    BY <1>3, <1>4, <2>1 DEF Reached, Count
  <2>3. UpTo(l) = {}
    BY <1>3 DEF UpTo
  <2>. QED
    BY <2>1, <2>2, <2>3
<1>6. Numbered
  BY <1>3, <1>4, <1>5 DEF Numbered, Count, Slots
<1>7. Lossless
  BY <1>3, <1>4, <1>5 DEF Lossless, Count
<1>8. Served
  BY <1>1, <1>4, <1>5 DEF Served
<1>. QED
  BY <1>2, <1>6, <1>7, <1>8

LEMMA HInvInit == Init => HInv
<1>. SUFFICES ASSUME Init PROVE HInv
  OBVIOUS
<1>1. ParserType /\ InStep /\ HasTimes /\ OwnTimes
  BY ParserInit
<1>2. Nothing
  <2>1. 0 \in Hits
    BY SizeFacts DEF Hits
  <2>. QED
    BY <2>1, SizeFacts DEF Init, Nothing, NoWord, NoHit
<1>. QED
  BY <1>1, <1>2, MuxEmpty DEF HInv

LEMMA BeginEmpties == HInv /\ BeginRun => Nothing'
  BY DEF BeginRun, Reset, Nothing, HInv, MuxType

\* A step that leaves all variables leaves what is stated of them.
LEMMA HInvStutter == HInv /\ UNCHANGED vars => HInv'
<1>. SUFFICES ASSUME HInv, UNCHANGED vars PROVE HInv'
  OBVIOUS
<1>1. UNCHANGED <<feb, rmask_n, runs, parser, group, mux>>
  BY DEF vars
<1>2. ParserType' /\ InStep' /\ HasTimes' /\ OwnTimes'
  BY <1>1 DEF parser, HInv, ParserType, InStep, HasTimes, OwnTimes
<1>3. MuxType'
  BY <1>1 DEF group, mux, HInv, MuxType
<1>4. UNCHANGED <<valid_not_taken, rx_valid, next_64bit_word_valid, got, gap, fast, s_hit_cnt,
                  index_256, rx_256, data_in_buffer, next_64bit_word>>
  BY <1>1 DEF parser, group, mux, valid_not_taken
<1>5. ASSUME NEW l \in Links
      PROVE  Grouped(l)' = Grouped(l) /\ Reached(l)' = Reached(l) /\ UpTo(l)' = UpTo(l)
  BY <1>4 DEF Grouped, Reached, UpTo
<1>6. Numbered'
  BY <1>4, <1>5 DEF HInv, Numbered
<1>7. Lossless'
  BY <1>4, <1>5 DEF HInv, Lossless
<1>8. ASSUME NEW l \in Links, NEW k PROVE Backlog(l, k)' = Backlog(l, k)
  BY <1>4, <1>5 DEF Backlog, Since
<1>9. Served'
  BY <1>4, <1>5, <1>8 DEF HInv, Served
<1>. QED
  BY <1>2, <1>3, <1>6, <1>7, <1>9 DEF HInv

LEMMA HInvNext == HInv /\ [Next]_vars => HInv'
<1>. SUFFICES ASSUME HInv, [Next]_vars PROVE HInv'
  OBVIOUS
<1>1. CASE Clock
  <2>1. Mux
    BY <1>1 DEF Clock
  <2>2. ParserType' /\ InStep' /\ HasTimes' /\ OwnTimes'
    BY <1>1, ParserClock DEF HInv
  <2>3. MuxType' /\ Numbered'
    BY <1>1, TypeClock, NumberedClock DEF HInv
  <2>4. Served' /\ Lossless'
    BY <1>1, <2>1, ServedClock, LosslessClock DEF HInv
  <2>. QED
    BY <2>2, <2>3, <2>4 DEF HInv
<1>2. CASE BeginRun
  <2>1. ParserType' /\ InStep' /\ HasTimes' /\ OwnTimes'
    BY <1>2, ParserBegin DEF HInv
  <2>2. (MuxType /\ Numbered /\ Lossless /\ Served)'
    BY <1>2, BeginEmpties, MuxEmpty, PTL
  <2>. QED
    BY <2>1, <2>2 DEF HInv
<1>3. CASE UNCHANGED vars
  BY <1>3, HInvStutter
<1>. QED
  BY <1>1, <1>2, <1>3 DEF Next

\* Each hit is numbered by its place, and the words that wait of the links up to l are
\* the ones that came of them since the mux was last done with these links.
THEOREM HitInvariance == Spec => []HInv
<1>. QED
  BY HInvInit, HInvNext, PTL DEF Spec

THEOREM TypeCorrect == Spec => []TypeOK
<1>1. HInv => TypeOK
  <2>. SUFFICES ASSUME HInv PROVE TypeOK
    OBVIOUS
  <2>1. Cardinality(data_taken) <= 1
    <3>1. CASE data_taken = {}
      BY <3>1, FS_EmptySet
    <3>2. CASE \E l \in Links : data_taken = {l}
      BY <3>2, FS_Singleton
    <3>. QED
      BY <3>1, <3>2 DEF HInv, MuxType
  <2>2. /\ {feb[l].pos : l \in Links} \subseteq 0..6 /\ rmask_n \subseteq Links
        /\ {package_stage[l] : l \in Links} \subseteq 0..4 \cup {7}
        /\ {s_hit_cnt[l] : l \in Links} \subseteq Hits
    BY DEF HInv, ParserType
  <2>3. /\ {rx_256, data_in_buffer} \subseteq [Links -> [Slots -> Hits]]
        /\ index_256 \in [Links -> Slots] /\ data_out \in [link : Links, word : [Slots -> Hits]]
        /\ UNION {next_64bit_word_valid, rx_valid, data_valid_buffer, data_taken} \subseteq Links
        /\ {s_valid, fast} \subseteq BOOLEAN
    BY DEF HInv, ParserType, MuxType
  <2>. QED
    BY <2>1, <2>2, <2>3 DEF TypeOK
<1>. QED
  BY <1>1, HitInvariance, PTL

\* A hit carries the times of its own package and subheader, although packages are cut
\* off by a restart of their board and links are masked in the middle of a package.
THEOREM OwnTimesHolds == Spec => []OwnTimes
<1>1. HInv => OwnTimes
  BY DEF HInv
<1>. QED
  BY <1>1, HitInvariance, PTL

\* As long as two words of a link are more than N cycles apart, every hit that was
\* taken of a link has been sent or is still on its way through the mux.
THEOREM NothingLostHolds == Spec => []NothingLost
<1>1. HInv => NothingLost
  <2>. SUFFICES ASSUME HInv, ~fast, NEW l \in Links PROVE got[l] + Waiting(l) = s_hit_cnt[l]
    BY DEF NothingLost, AllHitsOut
  <2>1. got[l] = Reached(l) - Count(l \in valid_not_taken, GroupLen)
    BY DEF HInv, Lossless
  <2>2. s_hit_cnt[l] \in Nat /\ index_256[l] \in Nat /\ GroupLen \in Nat
    BY SizeFacts DEF HInv, ParserType, MuxType, Hits, Slots
  <2>3. Reached(l) = ((s_hit_cnt[l] - (IF l \in next_64bit_word_valid THEN 1 ELSE 0)) - index_256[l])
                       - (IF l \in rx_valid THEN GroupLen ELSE 0)
    BY DEF Reached, Grouped, Count
  <2>4. Count(l \in valid_not_taken, GroupLen) = (IF l \in valid_not_taken THEN GroupLen ELSE 0)
    BY DEF Count
  <2>. DEFINE w == IF l \in valid_not_taken THEN GroupLen ELSE 0
              x == IF l \in rx_valid THEN GroupLen ELSE 0
              n == IF l \in next_64bit_word_valid THEN 1 ELSE 0
              r == Reached(l)
  <2>5. w \in Nat /\ x \in Nat /\ n \in Nat
    BY <2>2
  <2>6. Waiting(l) = w + x + index_256[l] + n
    BY DEF Waiting
  <2>7. got[l] = r - w /\ r = ((s_hit_cnt[l] - n) - index_256[l]) - x
    BY <2>1, <2>3, <2>4
  <2>. HIDE DEF w, x, n, r
  <2>. QED
    BY <2>2, <2>5, <2>6, <2>7
<1>. QED
  BY <1>1, HitInvariance, PTL

\* What is sent of a link are hits that follow each other, later than all sent before,
\* whatever is lost in between.
THEOREM InOrderHolds == Spec => InOrder
<1>. DEFINE Ordered ==
       s_valid' => LET l == data_out'.link IN
                   /\ data_out'.word[0] > got[l]
                   /\ \A s \in Slots : data_out'.word[s] = data_out'.word[0] + s
<1>1. HInv /\ [Next]_vars => [Ordered]_vars
  <2>. SUFFICES ASSUME HInv, Next, s_valid'
       PROVE  /\ data_out'.word[0] > got[data_out'.link]
              /\ \A s \in Slots : data_out'.word[s] = data_out'.word[0] + s
    OBVIOUS
  <2>1. CASE BeginRun
    BY <2>1 DEF BeginRun, Reset
  <2>2. CASE Clock
    <3>1. Mux /\ MuxType
      BY <2>2 DEF Clock, HInv
    <3>2. PICK m \in valid_not_taken : data_out' = [link |-> m, word |-> data_in_buffer[m]]
      BY <3>1, MuxStep
    <3>3. m \in Links
      BY <3>1 DEF MuxType, valid_not_taken
    <3>. DEFINE r == Reached(m)
    <3>4. /\ \A s \in Slots : data_in_buffer[m][s] = r - GroupLen + s + 1
          /\ got[m] <= r - GroupLen
      BY <3>2, <3>3 DEF HInv, Numbered, Count
    <3>5. r \in Int /\ got[m] \in Nat /\ GroupLen \in Nat
      <4>1. s_hit_cnt[m] \in Nat /\ index_256[m] \in Nat /\ got[m] \in Nat /\ GroupLen \in Nat
        BY <3>3, SizeFacts DEF HInv, ParserType, MuxType, Hits, Slots
      <4>. QED
        BY <4>1 DEF Reached, Grouped, Count
    <3>. HIDE DEF r
    <3>6. data_in_buffer[m][0] = r - GroupLen + 0 + 1
      BY <3>4, SizeFacts
    <3>7. \A s \in Slots : s \in Int
      BY DEF Slots
    <3>8. data_in_buffer[m][0] > got[m] /\ \A s \in Slots : data_in_buffer[m][s] = data_in_buffer[m][0] + s
      BY <3>4, <3>5, <3>6, <3>7
    <3>. QED
      BY <3>2, <3>8
  <2>. QED
    BY <2>1, <2>2 DEF Next
<1>. QED
  BY <1>1, HitInvariance, PTL DEF Spec, InOrder

=============================================================================
