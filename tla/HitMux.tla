------------------------------ MODULE HitMux ------------------------------
(***************************************************************************)
(* From the packages of the links to 256-bit words: musip_mux_4_1 parses   *)
(* the words of each link, gives every hit the times of its package and    *)
(* groups hits by GroupLen; mux_4_1_256 sends the groups of all links one  *)
(* per clock cycle. All processes run on one clock, so Clock is one step   *)
(* of all of them. begin_of_run of the readout resets them.                *)
(***************************************************************************)
EXTENDS Integers, FiniteSets, FiniteSetsExt

CONSTANTS
  N,            \* links (4)
  GroupLen,     \* hits in a word (4 of 64 bits)
  UseGenLink,   \* USE_BIT_GEN_LINK: one generator feeds all links
  Masks,        \* settings of the link mask (links not masked) a run may begin with
  MaxHits,      \* bound: hits taken of a link per run
  MaxPackages,  \* bound: packages sent, by link
  MaxRuns       \* bound: runs begun

ASSUME SizeAssumption == {N, GroupLen} \subseteq Nat \ {0} /\ UseGenLink \in BOOLEAN
ASSUME MaskAssumption == Masks \subseteq SUBSET (0..N-1)
ASSUME BoundAssumption == {MaxHits, MaxRuns} \subseteq Nat /\ MaxPackages \in [0..N-1 -> Nat]

VARIABLES
  feb,                   \* what each link is sending: position, package, subheader
  rmask_n, runs,
  package_stage, times, last_subheader_time, s_hit_cnt,
  next_64bit_word, next_64bit_word_valid,
  rx_256, rx_valid, index_256,
  data_in_buffer, data_valid_buffer, data_taken, data_out, s_valid,
  got,    \* history: the last hit of each link that was sent
  gap,    \* history: cycles since the last word of each link came to the mux, until fast
  fast    \* history: a link had two words within N cycles

parser == <<package_stage, times, last_subheader_time, s_hit_cnt, next_64bit_word,
            next_64bit_word_valid>>
group == <<rx_256, rx_valid, index_256>>
mux == <<data_in_buffer, data_valid_buffer, data_taken, data_out, s_valid, got, gap, fast>>
vars == <<feb, rmask_n, runs, parser, group, mux>>

-----------------------------------------------------------------------------
Links == 0..N-1
\* A hit as far as it matters behind the parser: its number in the run, by link.
NoHit == 0
Slots == 0..GroupLen-1
NoWord == [s \in Slots |-> NoHit]

Reset ==
  /\ package_stage' = [l \in Links |-> 7] /\ times' = [l \in Links |-> <<0, 0, 0>>]
  /\ last_subheader_time' = [l \in Links |-> 0] /\ s_hit_cnt' = [l \in Links |-> 0]
  /\ next_64bit_word' = [l \in Links |-> [hit |-> NoHit, times |-> <<0, 0, 0>>, sub |-> 0]]
  /\ next_64bit_word_valid' = {}
  /\ rx_256' = [l \in Links |-> NoWord] /\ rx_valid' = {} /\ index_256' = [l \in Links |-> 0]
  /\ data_valid_buffer' = {} /\ data_taken' = {} /\ s_valid' = FALSE
  /\ got' = [l \in Links |-> 0] /\ gap' = [l \in Links |-> N + 1] /\ fast' = FALSE

\* The data path as after begin_of_run, all links between two packages.
Init ==
  /\ feb = [l \in Links |-> [pos |-> 0, package |-> 0, sub |-> 0]]
  /\ rmask_n \in Masks /\ runs = 0
  /\ package_stage = [l \in Links |-> 7] /\ times = [l \in Links |-> <<0, 0, 0>>]
  /\ last_subheader_time = [l \in Links |-> 0] /\ s_hit_cnt = [l \in Links |-> 0]
  /\ next_64bit_word = [l \in Links |-> [hit |-> NoHit, times |-> <<0, 0, 0>>, sub |-> 0]]
  /\ next_64bit_word_valid = {}
  /\ rx_256 = [l \in Links |-> NoWord] /\ rx_valid = {} /\ index_256 = [l \in Links |-> 0]
  /\ data_in_buffer = [l \in Links |-> NoWord]
  /\ data_valid_buffer = {} /\ data_taken = {} /\ s_valid = FALSE
  /\ data_out = [link |-> 0, word |-> NoWord]
  /\ got = [l \in Links |-> 0] /\ gap = [l \in Links |-> N + 1] /\ fast = FALSE

-----------------------------------------------------------------------------
(***************************************************************************)
(* The links. A package is a start word, four header words, subheaders     *)
(* each with its hits, and a trailer, with idle words anywhere; a board    *)
(* that restarts begins a new package in the middle of another one.        *)
(***************************************************************************)
Sends(l, kind) ==
  LET f == feb[l] IN
  \/ kind = "idle"
  \/ kind = "sop" /\ f.package < MaxPackages[l]
  \/ kind = "header" /\ f.pos \in 1..4
  \/ kind \in {"sbhdr", "eop"} /\ f.pos >= 5
  \/ kind = "hit" /\ f.pos = 6 /\ s_hit_cnt[l] < MaxHits

Kinds == {"idle", "sop", "header", "sbhdr", "hit", "eop"}

Sent(f, kind) ==
  [pos     |-> CASE kind = "sop" -> 1 [] kind = "header" -> f.pos + 1 [] kind = "sbhdr" -> 6
                 [] kind = "eop" -> 0 [] OTHER -> f.pos,
   package |-> IF kind = "sop" THEN f.package + 1 ELSE f.package,
   sub     |-> IF kind = "sbhdr" THEN 1 - f.sub ELSE f.sub]

-----------------------------------------------------------------------------
(***************************************************************************)
(* musip_mux_4_1. The parser of link l takes the word that is sent now.    *)
(***************************************************************************)
Takes(l, kind) == l \in rmask_n /\ kind # "idle"
IsHit(l, kind) == Takes(l, kind) /\ package_stage[l] = 4 /\ kind \notin {"sop", "eop", "sbhdr"}

\* Mutant: a start of packet counts only between two packages.
NextStageOutside(l, kind) ==
  CASE ~Takes(l, kind)                             -> package_stage[l]
    [] Takes(l, kind) /\ kind = "sop" /\ package_stage[l] = 7 -> 0
    [] Takes(l, kind) /\ kind # "sop" /\ package_stage[l] < 4 -> package_stage[l] + 1
    [] Takes(l, kind) /\ kind = "eop" /\ package_stage[l] = 4 -> 7
    [] OTHER                                       -> package_stage[l]

NextStage(l, kind) ==
  CASE ~Takes(l, kind)                             -> package_stage[l]
    [] Takes(l, kind) /\ kind = "sop"              -> 0
    [] Takes(l, kind) /\ kind # "sop" /\ package_stage[l] < 4 -> package_stage[l] + 1
    [] Takes(l, kind) /\ kind = "eop" /\ package_stage[l] = 4 -> 7
    [] OTHER                                       -> package_stage[l]

\* ts_high, ts_low and send_time are taken at stages 0, 1 and 3, with what the
\* package of feb' says. A hit is put together with the times as they are now.
Parse(kind) ==
  LET at(l, s) == Takes(l, kind[l]) /\ kind[l] # "sop" /\ package_stage[l] = s IN
  /\ package_stage' = [l \in Links |-> NextStage(l, kind[l])]
  /\ times' = [l \in Links |->
       [i \in 1..3 |-> IF at(l, <<0, 1, 3>>[i]) THEN feb'[l].package ELSE times[l][i]]]
  /\ last_subheader_time' = [l \in Links |->
       IF at(l, 4) /\ kind[l] = "sbhdr" THEN feb'[l].sub ELSE last_subheader_time[l]]
  /\ next_64bit_word_valid' = {l \in Links : IsHit(l, kind[l])}
  /\ s_hit_cnt' = [l \in Links |-> s_hit_cnt[l] + IF IsHit(l, kind[l]) THEN 1 ELSE 0]
  /\ next_64bit_word' = [l \in Links |->
       IF IsHit(l, kind[l])
       THEN [hit |-> s_hit_cnt[l] + 1, times |-> times[l], sub |-> last_subheader_time[l]]
       ELSE next_64bit_word[l]]

\* Mutant: the group is complete one hit later.
GroupLate ==
  /\ rx_valid' = {l \in next_64bit_word_valid : index_256[l] = GroupLen}
  /\ rx_256' = [l \in Links |->
       IF l \in next_64bit_word_valid
       THEN [rx_256[l] EXCEPT ![index_256[l]] = next_64bit_word[l].hit] ELSE rx_256[l]]
  /\ index_256' = [l \in Links |->
       IF l \in next_64bit_word_valid THEN (index_256[l] + 1) % (GroupLen + 1) ELSE index_256[l]]

Group ==
  /\ rx_valid' = {l \in next_64bit_word_valid : index_256[l] = GroupLen - 1}
  /\ rx_256' = [l \in Links |->
       IF l \in next_64bit_word_valid
       THEN [rx_256[l] EXCEPT ![index_256[l]] = next_64bit_word[l].hit] ELSE rx_256[l]]
  /\ index_256' = [l \in Links |->
       IF l \in next_64bit_word_valid THEN (index_256[l] + 1) % GroupLen ELSE index_256[l]]

-----------------------------------------------------------------------------
(***************************************************************************)
(* mux_4_1_256: of the words that wait, the one of the lowest link is      *)
(* sent, and marked as taken for the next cycle.                           *)
(***************************************************************************)
\* Mutant: the mark is not looked at.
valid_also_taken == data_valid_buffer

valid_not_taken == data_valid_buffer \ data_taken

\* Mutant: the mark of the last word clears a new one, too.
KeepNone == data_valid_buffer' = (rx_valid \cup data_valid_buffer) \ data_taken

Keep == data_valid_buffer' = rx_valid \cup (data_valid_buffer \ data_taken)

Mux ==
  /\ Keep
  /\ data_in_buffer' = [l \in Links |-> IF l \in rx_valid THEN rx_256[l] ELSE data_in_buffer[l]]
  /\ IF valid_not_taken = {}
     THEN s_valid' = FALSE /\ data_taken' = {} /\ UNCHANGED <<data_out, got>>
     ELSE LET position == Min(valid_not_taken)
              word == data_in_buffer[position] IN
          /\ s_valid' = TRUE /\ data_taken' = {position}
          /\ data_out' = [link |-> position, word |-> word]
          /\ got' = [got EXCEPT ![position] = word[GroupLen - 1]]
  /\ fast' = (fast \/ \E l \in rx_valid : gap[l] <= N)
  /\ gap' = [l \in Links |->
               IF fast' THEN 0 ELSE IF l \in rx_valid THEN 1 ELSE Min({gap[l] + 1, N + 1})]

Clock ==
  /\ \E kind \in [Links -> Kinds] :
       /\ \A l \in Links : Sends(l, kind[l])
       /\ UseGenLink => Cardinality({kind[l] : l \in Links}) = 1
       /\ feb' = [l \in Links |-> Sent(feb[l], kind[l])]
       /\ Parse(kind)
  /\ Group /\ Mux
  /\ UNCHANGED <<rmask_n, runs>>

\* begin_of_run: the mask is written while the data path is in reset. The links go on.
BeginRun ==
  /\ runs < MaxRuns
  /\ runs' = runs + 1
  /\ rmask_n' \in Masks
  /\ Reset
  /\ UNCHANGED <<feb, data_in_buffer, data_out>>

Next == Clock \/ BeginRun

Spec == Init /\ [][Next]_vars

-----------------------------------------------------------------------------
Hits == 0..MaxHits
TypeOK ==
  /\ {feb[l].pos : l \in Links} \subseteq 0..6 /\ rmask_n \subseteq Links
  /\ {package_stage[l] : l \in Links} \subseteq 0..4 \cup {7}
  /\ {s_hit_cnt[l] : l \in Links} \subseteq Hits
  /\ {rx_256, data_in_buffer} \subseteq [Links -> [Slots -> Hits]]
  /\ index_256 \in [Links -> Slots]
  /\ data_out \in [link : Links, word : [Slots -> Hits]]
  /\ UNION {next_64bit_word_valid, rx_valid, data_valid_buffer, data_taken} \subseteq Links
  /\ Cardinality(data_taken) <= 1 /\ {s_valid, fast} \subseteq BOOLEAN

\* A hit carries the times of its own package and subheader, although packages are
\* cut off by a restart of their board and links are masked and unmasked in the
\* middle of a package.
OwnTimes ==
  \A l \in next_64bit_word_valid :
    /\ \A i \in 1..3 : next_64bit_word[l].times[i] = feb[l].package
    /\ next_64bit_word[l].sub = feb[l].sub

\* Each word that is sent holds hits that follow each other, all later than what was
\* sent of that link before: nothing is repeated, reordered or overwritten in part.
InOrder ==
  [][s_valid' =>
       LET l == data_out'.link IN
       /\ data_out'.word[0] > got[l]
       /\ \A s \in Slots : data_out'.word[s] = data_out'.word[0] + s]_vars

\* Every hit that was taken of a link has been sent, waits in the mux, or is in the
\* pipeline in front of it.
Waiting(l) ==
  (IF l \in valid_not_taken THEN GroupLen ELSE 0) + (IF l \in rx_valid THEN GroupLen ELSE 0)
    + index_256[l] + (IF l \in next_64bit_word_valid THEN 1 ELSE 0)
AllHitsOut == \A l \in Links : got[l] + Waiting(l) = s_hit_cnt[l]

\* That is so as long as two words of a link are more than N cycles apart.
NothingLost == ~fast => AllHitsOut
=============================================================================
