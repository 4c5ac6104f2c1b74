---------------------------- MODULE ScMainProofs ----------------------------
(***************************************************************************)
(* Proofs about ScMain, for any links, any size of the memory, of the      *)
(* commands and of the FIFO, and any number of commands and restarts.      *)
(***************************************************************************)
EXTENDS ScMain, SequenceTheorems, TLAPS

-----------------------------------------------------------------------------
(* The types, with those of the FIFO and of the links.                       *)

Sendable == [half : {{}}, word : Word, k : BOOLEAN]
Entries == [half : SUBSET Feb, mask : SUBSET Feb] \cup Sendable

SType ==
  /\ exited \in BOOLEAN /\ restarts \in 0..MaxRestarts
  /\ cmds \in Seq(Cmd) /\ Len(cmds) <= MaxCmds /\ cut \subseteq 1..Len(cmds)
  /\ mem \in [0..MemLen-1 -> Word]
  /\ reads \in [1..RamStages -> 0..MemLen-1]
  /\ state \in States /\ o_done \in BOOLEAN
  /\ mem_addr \in 0..MemLen-1 /\ length \in 0..MemLen-1 /\ tx_word_idx \in 0..MemLen-1
  /\ wren_mask_wr \subseteq Feb /\ wren_mask \subseteq Feb
  /\ header_word \in Word /\ body_word \in Word /\ body_last \in BOOLEAN
  /\ fifo \in Seq(Entries) /\ Len(fifo) <= FifoRoom
  /\ sent \in [Feb -> Seq(Sendable)]

-----------------------------------------------------------------------------
(* The write process: what it has of the command it is sending.              *)

Fits(id) == LastIdx(cmds[id]) < MemLen
Sending == {"set_fpga_id1", "set_fpga_id2", "emit_header", "latch_word", "emit_word", "request_word"}
InBody == {"latch_word", "emit_word", "request_word"}
This == cmds[Len(cmds)]
ThisWord(i) == CmdWord(This, Len(cmds), i)

\* What the command in RW memory is. An index that is one too large overwrites the first
\* word with the last one.
Stored ==
  state # "idle" =>
    /\ ~exited /\ Len(cmds) > 0 /\ LastIdx(This) <= MemLen /\ length = Wrap(2 + This.size)
    /\ \A a \in 1..MemLen-1 : a <= LastIdx(This) => mem[a] = ThisWord(a)
    /\ mem[0] = IF Fits(Len(cmds)) THEN ThisWord(0) ELSE ThisWord(MemLen)
    /\ state \in Sending => Fits(Len(cmds))

\* Which addresses are on their way through the RAM.
Addressed ==
  /\ o_done => state = "idle" /\ mem_addr = 0
  /\ state = "request_header" => mem_addr = 0 /\ reads[RamStages] = 0
  /\ state = "check_header" => reads[1] = 0
  /\ state \in {"set_fpga_id1", "set_fpga_id2", "emit_header"} => mem_addr = 1 /\ tx_word_idx = 1
  /\ state \in {"set_fpga_id2", "emit_header"} => reads[RamStages] = 1
  /\ state = "latch_word" => reads[1] = tx_word_idx
  /\ state = "request_word" => mem_addr = tx_word_idx /\ reads[RamStages] = tx_word_idx

Latched ==
  /\ state \in InBody => tx_word_idx \in 1..LastIdx(This)
  /\ state \in {"set_fpga_id1", "set_fpga_id2"} => wren_mask_wr = This.to
  /\ state \in {"set_fpga_id1", "set_fpga_id2", "emit_header"} => header_word = ThisWord(0)
  /\ state = "emit_word" => /\ body_word = ThisWord(tx_word_idx)
                            /\ body_last = (tx_word_idx = LastIdx(This))
                            /\ ~body_last => mem_addr = tx_word_idx + 1

-----------------------------------------------------------------------------
(* The FIFO: each entry has a place in the commands. Places -2 and -1 are the *)
(* halves of the link mask, the others are words.                             *)

At(id, i) == [id |-> id, i |-> i]
Entry(a) ==
  LET x == cmds[a.id] IN
  IF a.i = -2 THEN MaskEntry(Feb \ HighFeb, x.to \ HighFeb)
  ELSE IF a.i = -1 THEN MaskEntry(HighFeb, x.to \cap HighFeb)
  ELSE WordEntry(CmdWord(x, a.id, a.i), a.i \in {0, LastIdx(x)})

\* The place of what the write process appends next.
Writes ==
  IF state = "idle" THEN At(Len(cmds) + 1, -2)
  ELSE At(Len(cmds), CASE state = "set_fpga_id2" -> -1 [] state = "emit_header" -> 0
                       [] state \in InBody -> tx_word_idx [] OTHER -> -2)

\* Place b is the one after a. Commands that do not fit are not sent.
Then(a, b) ==
  \/ a.i < LastIdx(cmds[a.id]) /\ b = At(a.id, a.i + 1)
  \/ /\ a.i = LastIdx(cmds[a.id]) /\ b.i = -2 /\ b.id > a.id
     /\ \A id \in 1..Len(cmds) : a.id < id /\ id < b.id => ~Fits(id)

InFifo(q) ==
  /\ q \in [1..Len(fifo)+1 -> [id : Nat, i : Int]]
  /\ q[Len(fifo)+1] = Writes
  /\ \A n \in 1..Len(fifo) :
       /\ q[n].id \in 1..Len(cmds) /\ q[n].i \in -2..LastIdx(cmds[q[n].id])
       /\ fifo[n] = Entry(q[n]) /\ Then(q[n], q[n+1])

\* The read process is at place a: what the links have, and the mask.
LastOf(f) == sent[f][Len(sent[f])].word
Reads(a) ==
  /\ a.i = -1 => wren_mask \ HighFeb = cmds[a.id].to \ HighFeb
  /\ a.i >= 0 => wren_mask = cmds[a.id].to
  /\ \A f \in Feb :
       IF a.i > 0 /\ f \in cmds[a.id].to
       THEN sent[f] # <<>> /\ LastOf(f) = CmdWord(cmds[a.id], a.id, a.i - 1)
       ELSE sent[f] # <<>> => LastOf(f).id < a.id /\ (LastOf(f).kind = "tail" \/ LastOf(f).id \in cut)
  /\ \A id \in 1..Len(cmds) \ cut : id < a.id /\ Fits(id) =>
       \A f \in cmds[id].to : \E n \in 1..Len(sent[f]) : sent[f][n].word = LastWord(id)

Streams == \E q : InFifo(q) /\ Reads(q[1])

\* The words of a link are words of commands, each later than the ones before.
Before(u, v) == u.id < v.id \/ (u.id = v.id /\ u.i < v.i)
InOrder ==
  \A f \in Feb : \A n \in 1..Len(sent[f]) :
    LET w == sent[f][n].word IN
    /\ w.id \in 1..Len(cmds) /\ w.i \in 0..LastIdx(cmds[w.id]) /\ w = CmdWord(cmds[w.id], w.id, w.i)
    /\ \A m \in 1..n-1 : Before(sent[f][m].word, w)

SInv ==
  SType /\ Stored /\ Addressed /\ Latched /\ Streams /\ InOrder /\ WellFormed

-----------------------------------------------------------------------------
(* Facts about commands, words, addresses and the RAM. *)

LEMMA SizeFacts ==
  /\ MemLen \in Nat /\ MemLen >= 8 /\ RamStages \in {1, 2} /\ FifoRoom \in Nat \ {0}
  /\ MaxCmds \in Nat /\ MaxRestarts \in Nat /\ HighFeb \subseteq Feb
  BY MemAssumption, RamAssumption, RoomAssumption, BoundAssumption, FebAssumption

LEMMA CmdFacts ==
  ASSUME NEW x \in Cmd
  PROVE  /\ x.size \in 0..MemLen-1 /\ x.to \subseteq Feb
         /\ LastIdx(x) \in Nat /\ LastIdx(x) = x.size + 3 /\ LastIdx(x) >= 3
  BY SizeAssumption, SizeFacts DEF Cmd, LastIdx

LEMMA WordFacts ==
  ASSUME NEW x \in Cmd, NEW id \in 0..MaxCmds, NEW i \in Nat
  PROVE  /\ CmdWord(x, id, i) \in Word
         /\ CmdWord(x, id, i).id = id /\ CmdWord(x, id, i).i = i
         /\ CmdWord(x, id, i).kind = "head" <=> i = 0
         /\ CmdWord(x, id, i).kind = "tail" <=> i = LastIdx(x)
         /\ CmdWord(x, id, i).kind \in {"head", "tail", "body"}
  BY CmdFacts DEF CmdWord, Word

LEMMA WrapIs ==
  ASSUME NEW n \in Nat
  PROVE  Wrap(n) \in 0..MemLen-1 /\ (n < MemLen => Wrap(n) = n)
  BY SizeFacts DEF Wrap

\* A clock edge moves the addresses on their way.
LEMMA Shift ==
  SType /\ reads' = Append(Tail(reads), mem_addr) =>
    /\ reads' \in [1..RamStages -> 0..MemLen-1]
    /\ reads'[RamStages] = mem_addr
    /\ RamStages = 1 => reads'[1] = mem_addr
    /\ RamStages # 1 => reads'[1] = reads[RamStages]
<1>. DEFINE A == 0..MemLen-1  r == reads  q == reads'  a == mem_addr
<1>1. SUFFICES ASSUME r \in [1..RamStages -> A], a \in A, q = Append(Tail(r), a)
               PROVE  /\ q \in [1..RamStages -> A] /\ q[RamStages] = a
                      /\ RamStages = 1 => q[1] = a
                      /\ RamStages # 1 => q[1] = r[RamStages]
  BY DEF SType
<1>. HIDE DEF A, r, q, a
<1>2. RamStages \in Nat /\ RamStages >= 1 /\ RamStages <= 2
  BY SizeFacts
<1>3. r \in Seq(A) /\ Len(r) = RamStages /\ r # <<>>
  BY <1>1, <1>2
<1>. DEFINE t == Tail(r)
<1>4. t \in Seq(A) /\ Len(t) = RamStages - 1 /\ \A i \in 1..Len(t) : t[i] = r[i + 1]
  BY <1>3, HeadTailProperties
<1>5. /\ q \in Seq(A) /\ Len(q) = Len(t) + 1 /\ q[Len(t) + 1] = a
      /\ \A i \in 1..Len(t) : q[i] = t[i]
  BY <1>1, <1>4, AppendProperties
<1>. HIDE DEF t
<1>6. Len(q) = RamStages /\ q \in [1..Len(q) -> A]
  BY <1>2, <1>4, <1>5, LenProperties
<1>7. (RamStages = 1 => q[1] = a) /\ (RamStages # 1 => q[1] = r[RamStages])
  <2>1. CASE RamStages = 1
    BY <2>1, <1>4, <1>5
  <2>2. CASE RamStages = 2
    <3>1. Len(t) = 1 /\ 1 \in 1..Len(t) /\ 1 + 1 = 2
      BY <2>2, <1>4
    <3>2. q[1] = t[1] /\ t[1] = r[2]
      BY <3>1, <1>4, <1>5
    <3>. QED
      BY <2>2, <3>2
  <2>. QED
    BY <2>1, <2>2, SizeFacts
<1>8. q \in [1..RamStages -> A] /\ q[RamStages] = a
  BY <1>2, <1>4, <1>5, <1>6
<1>. QED
  BY <1>7, <1>8

-----------------------------------------------------------------------------
(* Types. *)

LEMMA TypeInit == Init => SType
<1>. SUFFICES ASSUME Init PROVE SType
  OBVIOUS
<1>1. Stale \in Word
  BY SizeFacts DEF Stale, Word
<1>. QED
  BY SMTT(30), <1>1, SizeFacts DEF Init, SType, States

LEMMA TypeOfIssue ==
  ASSUME SType, NEW x \in Cmd, Issue(x)
  PROVE  SType'
<1>1. /\ cmds' = Append(cmds, x) /\ Len(cmds) + 1 <= MaxCmds
      /\ reads' = Append(Tail(reads), mem_addr) /\ mem_addr' = 0
      /\ exited' = (LastIdx(x) > MemLen)
      /\ UNCHANGED <<restarts, cut, header_word, body_word, body_last, fifo, wren_mask, sent>>
  BY DEF Issue
<1>2. cmds' \in Seq(Cmd) /\ Len(cmds') = Len(cmds) + 1 /\ Len(cmds) \in Nat
  BY <1>1, AppendProperties DEF SType
<1>3. reads' \in [1..RamStages -> 0..MemLen-1]
  BY <1>1, Shift DEF SType
<1>4. mem' \in [0..MemLen-1 -> Word]
  <2>. DEFINE top == IF LastIdx(x) > MemLen THEN MemLen ELSE LastIdx(x)
              id == Len(cmds) + 1
  <2>1. mem' = [a \in 0..MemLen-1 |-> IF a + MemLen <= top THEN CmdWord(x, id, a + MemLen)
                                     ELSE IF a <= top THEN CmdWord(x, id, a) ELSE mem[a]]
    BY DEF Issue
  <2>2. id \in 0..MaxCmds
    BY <1>1, <1>2, SizeFacts
  <2>. HIDE DEF top, id
  <2>3. ASSUME NEW a \in 0..MemLen-1
        PROVE  CmdWord(x, id, a + MemLen) \in Word /\ CmdWord(x, id, a) \in Word /\ mem[a] \in Word
    <3>1. a \in Nat /\ a + MemLen \in Nat
      BY SizeFacts
    <3>. QED
      BY <2>2, <3>1, WordFacts DEF SType
  <2>. QED
    BY <2>1, <2>3
<1>5. /\ state' \in States /\ o_done' \in BOOLEAN /\ length' \in 0..MemLen-1
      /\ tx_word_idx' \in 0..MemLen-1 /\ wren_mask_wr' \subseteq Feb
  <2>1. CASE exited'
    <3>1. UNCHANGED <<state, o_done, length, tx_word_idx, wren_mask_wr>>
      BY <2>1 DEF Issue
    <3>. QED
      BY <3>1 DEF SType
  <2>2. CASE ~exited'
    <3>1. 2 + x.size \in Nat
      BY CmdFacts, SizeFacts
    <3>2. state' = "request_header" /\ o_done' = FALSE /\ length' = Wrap(2 + x.size)
          /\ tx_word_idx' = 0 /\ wren_mask_wr' = {}
      BY <2>2 DEF Issue
    <3>3. Wrap(2 + x.size) \in 0..MemLen-1 /\ 0 \in 0..MemLen-1
      BY <3>1, WrapIs, SizeFacts
    <3>. QED
      BY <3>2, <3>3 DEF States
  <2>. QED
    BY <2>1, <2>2
<1>6. cut' \subseteq 1..Len(cmds') /\ mem_addr' \in 0..MemLen-1 /\ exited' \in BOOLEAN
  BY <1>1, <1>2, SizeFacts DEF SType
<1>. QED
  BY <1>1, <1>2, <1>3, <1>4, <1>5, <1>6 DEF SType

\* What a clock edge of the write process does to the RAM and leaves alone.
LEMMA TypeOfEdge ==
  ASSUME SType, NEW s, Edge(s)
  PROVE  /\ exited' \in BOOLEAN /\ restarts' \in 0..MaxRestarts
         /\ cmds' \in Seq(Cmd) /\ Len(cmds') <= MaxCmds /\ cut' \subseteq 1..Len(cmds')
         /\ mem' \in [0..MemLen-1 -> Word]
         /\ reads' \in [1..RamStages -> 0..MemLen-1]
         /\ length' \in 0..MemLen-1 /\ wren_mask' \subseteq Feb
         /\ sent' \in [Feb -> Seq(Sendable)]
  BY Shift DEF Edge, SType

LEMMA ReadOut ==
  ASSUME SType
  PROVE  i_mem_data = mem[reads[1]] /\ i_mem_data \in Word
  BY SizeFacts DEF SType, i_mem_data

LEMMA TypeOfPush ==
  ASSUME SType, NEW s, NEW next \in States, NEW e \in Entries, Push(s, next, e)
  PROVE  state' \in States /\ fifo' \in Seq(Entries) /\ Len(fifo') <= FifoRoom /\ o_done' \in BOOLEAN
<1>1. CASE fifo_full
  BY <1>1 DEF Push, SType
<1>2. CASE ~fifo_full
  <2>1. state' = next /\ fifo' = Append(fifo, e) /\ UNCHANGED o_done
    BY <1>2 DEF Push
  <2>2. fifo' \in Seq(Entries) /\ Len(fifo') = Len(fifo) + 1 /\ Len(fifo) \in Nat
    BY <2>1, AppendProperties DEF SType
  <2>3. Len(fifo) < FifoRoom
    BY <1>2, <2>2, SizeFacts DEF fifo_full
  <2>. QED
    BY <2>1, <2>2, <2>3, SizeFacts DEF SType
<1>. QED
  BY <1>1, <1>2

\* The command SC main is at.
LEMMA ThisFacts ==
  ASSUME SType, Len(cmds) > 0
  PROVE  /\ Len(cmds) \in 1..Len(cmds) /\ Len(cmds) \in 0..MaxCmds /\ Len(cmds) \in Nat /\ This \in Cmd
         /\ LastIdx(This) \in Nat /\ LastIdx(This) = This.size + 3 /\ LastIdx(This) >= 3
<1>1. Len(cmds) \in Nat
  BY LenProperties DEF SType
<1>2. Len(cmds) \in 1..Len(cmds)
  BY <1>1
<1>3. This \in Cmd
  BY <1>2, ElementOfSeq DEF SType, This
<1>. QED
  BY <1>1, <1>2, <1>3, CmdFacts, SizeFacts DEF SType

\* The first word it reads is a preamble if and only if the command fits the memory.
LEMMA HeaderRead ==
  ASSUME SType, Stored, Addressed, state = "check_header"
  PROVE  /\ Len(cmds) > 0 /\ (i_mem_data.kind = "head" <=> Fits(Len(cmds)))
         /\ Fits(Len(cmds)) => i_mem_data = ThisWord(0) /\ i_mem_data.id = Len(cmds)
<1>1. /\ Len(cmds) > 0 /\ LastIdx(This) <= MemLen
      /\ mem[0] = IF Fits(Len(cmds)) THEN ThisWord(0) ELSE ThisWord(MemLen)
  BY DEF Stored
<1>2. i_mem_data = mem[0]
  BY ReadOut DEF Addressed
<1>3. CASE Fits(Len(cmds))
  BY <1>1, <1>2, <1>3, ThisFacts, WordFacts DEF ThisWord
<1>4. CASE ~Fits(Len(cmds))
  <2>1. LastIdx(This) = MemLen /\ MemLen # 0
    BY <1>1, <1>4, ThisFacts, SizeFacts DEF Fits, This
  <2>2. i_mem_data.kind = "tail"
    BY <1>1, <1>2, <1>4, <2>1, ThisFacts, WordFacts, SizeFacts DEF ThisWord
  <2>. QED
    BY <1>1, <1>4, <2>2
<1>. QED
  BY <1>3, <1>4

LEMMA TypeOfWrite ==
  ASSUME SType, Stored, Addressed, WriteProcess
  PROVE  SType'
<1>1. Stale \in Word /\ 0 \in 0..MemLen-1 /\ 1 \in 0..MemLen-1 /\ i_mem_data \in Word
  BY SizeFacts, ReadOut DEF Stale, Word
<1>2. \A n \in 0..MemLen-1 : n + 1 \in Nat /\ Wrap(n + 1) \in 0..MemLen-1
  BY WrapIs, SizeFacts
<1>3. CASE Idle
  BY <1>1, <1>3, TypeOfEdge DEF Idle, SType
<1>4. CASE CheckHeader
  <2>1. Edge("check_header")
    BY <1>4 DEF CheckHeader
  <2>2. ASSUME i_mem_data.kind = "head" PROVE cmds[i_mem_data.id].to \subseteq Feb
    <3>1. i_mem_data.id = Len(cmds) /\ This \in Cmd
      BY <2>1, <2>2, HeaderRead, ThisFacts DEF Edge
    <3>. QED
      BY <3>1, CmdFacts DEF This
  <2>. QED
    BY <1>1, <1>4, <2>1, <2>2, TypeOfEdge DEF CheckHeader, SType, States
<1>5. CASE SetFpgaId
  <2>1. /\ MaskEntry(Feb \ HighFeb, wren_mask_wr \ HighFeb) \in Entries
        /\ MaskEntry(HighFeb, wren_mask_wr \cap HighFeb) \in Entries
    BY SizeFacts DEF SType, MaskEntry, Entries
  <2>2. PICK s \in States, next \in States, e \in Entries : Push(s, next, e)
    BY <1>5, <2>1 DEF SetFpgaId, States
  <2>3. Edge(s)
    BY <2>2 DEF Push
  <2>4. state' \in States /\ fifo' \in Seq(Entries) /\ Len(fifo') <= FifoRoom /\ o_done' \in BOOLEAN
    BY <2>2, TypeOfPush
  <2>. QED
    BY <1>5, <2>3, <2>4, TypeOfEdge DEF SetFpgaId, SType
<1>6. CASE EmitHeader
  <2>1. WordEntry(header_word, TRUE) \in Entries
    BY DEF SType, WordEntry, Entries, Sendable
  <2>2. Push("emit_header", "latch_word", WordEntry(header_word, TRUE))
    BY <1>6 DEF EmitHeader
  <2>3. Edge("emit_header")
    BY <2>2 DEF Push
  <2>4. state' \in States /\ fifo' \in Seq(Entries) /\ Len(fifo') <= FifoRoom /\ o_done' \in BOOLEAN
    BY <2>1, <2>2, TypeOfPush DEF States
  <2>. QED
    BY <1>6, <2>3, <2>4, TypeOfEdge DEF EmitHeader, SType
<1>7. CASE LatchWord
  <2>1. mem_addr' \in 0..MemLen-1
    BY <1>1, <1>2, <1>7 DEF LatchWord, SType
  <2>. QED
    BY <1>1, <1>7, <2>1, TypeOfEdge DEF LatchWord, SType, States
<1>8. CASE EmitWord
  <2>1. WordEntry(body_word, body_last) \in Entries
    BY DEF SType, WordEntry, Entries, Sendable
  <2>2. PICK next \in States : Push("emit_word", next, WordEntry(body_word, body_last))
    BY <1>8 DEF EmitWord, States
  <2>3. Edge("emit_word")
    BY <2>2 DEF Push
  <2>4. state' \in States /\ fifo' \in Seq(Entries) /\ Len(fifo') <= FifoRoom /\ o_done' \in BOOLEAN
    BY <2>1, <2>2, TypeOfPush
  <2>5. mem_addr' \in 0..MemLen-1 /\ tx_word_idx' \in 0..MemLen-1 /\ wren_mask_wr' \subseteq Feb
    BY <1>1, <1>2, <1>8 DEF EmitWord, SType
  <2>. QED
    BY <1>8, <2>3, <2>4, <2>5, TypeOfEdge DEF EmitWord, SType
<1>9. CASE Request("request_header", "check_header") \/ Request("request_word", "latch_word")
  <2>1. PICK s, next \in States : Request(s, next)
    BY <1>9 DEF States
  <2>2. Edge(s) /\ state' = next
    BY <2>1 DEF Request
  <2>. QED
    BY <2>1, <2>2, TypeOfEdge DEF Request, SType
<1>. QED
  BY <1>3, <1>4, <1>5, <1>6, <1>7, <1>8, <1>9 DEF WriteProcess

\* What the read process does with the entry in front.
LEMMA TypeOfRead ==
  ASSUME SType, FifoReadProcess
  PROVE  SType'
<1>1. /\ fifo # <<>> /\ fifo' = Tail(fifo)
      /\ UNCHANGED <<exited, restarts, cut, cmds, mem, reads, writer>>
      /\ IF "mask" \in DOMAIN Head(fifo)
         THEN wren_mask' = (wren_mask \ Head(fifo).half) \cup Head(fifo).mask /\ UNCHANGED sent
         ELSE /\ sent' = [f \in Feb |-> IF f \in wren_mask THEN Append(sent[f], Head(fifo)) ELSE sent[f]]
              /\ UNCHANGED wren_mask
  BY DEF FifoReadProcess
<1>2. fifo' \in Seq(Entries) /\ Len(fifo') <= FifoRoom /\ Head(fifo) \in Entries
  BY <1>1, HeadTailProperties, LenProperties, SizeFacts DEF SType
<1>3. wren_mask' \subseteq Feb /\ sent' \in [Feb -> Seq(Sendable)]
  <2>1. CASE "mask" \in DOMAIN Head(fifo)
    <3>1. Head(fifo).mask \subseteq Feb
      BY <1>2, <2>1 DEF Entries, Sendable
    <3>. QED
      BY <1>1, <2>1, <3>1 DEF SType
  <2>2. CASE "mask" \notin DOMAIN Head(fifo)
    <3>1. Head(fifo) \in Sendable
      BY <1>2, <2>2 DEF Entries
    <3>2. \A f \in Feb : Append(sent[f], Head(fifo)) \in Seq(Sendable)
      BY <3>1, AppendProperties DEF SType
    <3>3. /\ sent' = [f \in Feb |-> IF f \in wren_mask THEN Append(sent[f], Head(fifo)) ELSE sent[f]]
          /\ UNCHANGED wren_mask
      BY <1>1, <2>2, Zenon
    <3>4. \A f \in Feb : sent[f] \in Seq(Sendable)
      BY DEF SType
    <3>5. wren_mask' \subseteq Feb
      BY <3>3 DEF SType
    <3>. QED
      BY <3>2, <3>3, <3>4, <3>5
  <2>. QED
    BY <2>1, <2>2
<1>. QED
  BY <1>1, <1>2, <1>3 DEF SType, writer

LEMMA TypeOfRestart ==
  ASSUME SType, Restart
  PROVE  SType'
<1>1. Stale \in Word /\ 0 \in 0..MemLen-1
  BY SizeFacts DEF Stale, Word
<1>2. restarts' \in 0..MaxRestarts
  BY SizeFacts DEF Restart, SType
<1>3. cut' \subseteq 1..Len(cmds') /\ cmds' = cmds
  BY DEF Restart, SType
<1>4. <<>> \in Seq(Entries) /\ Len(<<>>) <= FifoRoom
  BY EmptySeq, SizeFacts
<1>. QED
  BY <1>1, <1>2, <1>3, <1>4 DEF Restart, SType, States

-----------------------------------------------------------------------------
(* The write process knows its command. *)

\* An issue leaves the command in memory; what it cannot hold ends the program.
LEMMA IssueStores ==
  ASSUME SType, Addressed, NEW x \in Cmd, Issue(x)
  PROVE  Stored' /\ Addressed' /\ Latched'
<1>. DEFINE id == Len(cmds) + 1
<1>1. /\ cmds' = Append(cmds, x) /\ state = "idle" /\ mem_addr' = 0
      /\ exited' = (LastIdx(x) > MemLen)
  BY DEF Issue
<1>2. Len(cmds') = id /\ cmds'[id] = x /\ id \in Nat /\ id > 0 /\ id \in 0..MaxCmds
  BY <1>1, AppendProperties, SizeFacts DEF Issue, SType
<1>3. CASE exited'
  <2>1. state' = "idle" /\ mem_addr' = 0
    BY <1>1, <1>3 DEF Issue
  <2>. QED
    BY <2>1 DEF Stored, Addressed, Latched, InBody
<1>4. CASE ~exited'
  <2>1. LastIdx(x) <= MemLen /\ LastIdx(x) \in Nat /\ LastIdx(x) >= 3
    <3>1. ~(LastIdx(x) > MemLen)
      BY <1>1, <1>4, Zenon
    <3>. QED
      BY <3>1, CmdFacts, SizeFacts
  <2>2. /\ state' = "request_header" /\ o_done' = FALSE /\ length' = Wrap(2 + x.size)
        /\ mem' = [a \in 0..MemLen-1 |-> IF a + MemLen <= LastIdx(x) THEN CmdWord(x, id, a + MemLen)
                                       ELSE IF a <= LastIdx(x) THEN CmdWord(x, id, a) ELSE mem[a]]
        /\ reads' = Append(Tail(reads), mem_addr)
    BY <1>4, <2>1, SizeFacts DEF Issue
  <2>3. \A a \in 1..MemLen-1 : a <= LastIdx(x) => mem'[a] = CmdWord(x, id, a)
    BY <2>1, <2>2, SizeFacts
  <2>4. mem'[0] = IF LastIdx(x) < MemLen THEN CmdWord(x, id, 0) ELSE CmdWord(x, id, MemLen)
    BY <2>1, <2>2, SizeFacts
  <2>. HIDE DEF id
  <2>5. Stored'
    BY <1>2, <1>4, <2>1, <2>2, <2>3, <2>4 DEF Stored, This, ThisWord, Fits, Sending
  <2>6. mem_addr = 0
    BY DEF Issue, Addressed
  <2>7. reads'[RamStages] = 0
    BY <2>2, <2>6, Shift, SizeFacts DEF SType
  <2>8. Addressed'
    BY <1>1, <2>2, <2>7 DEF Addressed
  <2>9. Latched'
    BY <2>2 DEF Latched, InBody
  <2>. QED
    BY <2>5, <2>8, <2>9
<1>. QED
  BY <1>3, <1>4

LEMMA EdgeStores ==
  ASSUME Stored, NEW s, Edge(s), state' # "idle" => s # "idle",
         state' \in Sending => s \in Sending \/ Fits(Len(cmds))
  PROVE  Stored'
  BY DEF Edge, Stored, This, ThisWord, Fits

LEMMA EdgeShifts ==
  ASSUME SType, NEW s, Edge(s)
  PROVE  /\ state = s /\ cmds' = cmds /\ This' = This /\ (\A i : ThisWord(i)' = ThisWord(i))
         /\ reads'[RamStages] = mem_addr
         /\ reads'[1] = IF RamStages = 1 THEN mem_addr ELSE reads[RamStages]
<1>1. state = s /\ reads' = Append(Tail(reads), mem_addr) /\ cmds' = cmds
  BY DEF Edge
<1>2. /\ reads'[RamStages] = mem_addr
      /\ reads'[1] = IF RamStages = 1 THEN mem_addr ELSE reads[RamStages]
  BY <1>1, Shift
<1>. QED
  BY <1>1, <1>2 DEF This, ThisWord

\* A word that waits for room in the FIFO waits unchanged.
LEMMA WaitKnows ==
  ASSUME SType, Addressed, Latched, NEW s \in {"set_fpga_id1", "set_fpga_id2", "emit_header", "emit_word"},
         Edge(s), UNCHANGED <<state, o_done, mem_addr, tx_word_idx, wren_mask_wr, header_word, body_word, body_last>>
  PROVE  Addressed' /\ Latched'
<1>1. reads'[RamStages] = mem_addr /\ state = s /\ cmds' = cmds
  BY EdgeShifts
<1>2. Addressed'
  BY <1>1 DEF Addressed
<1>3. Latched'
  BY <1>1 DEF Latched, InBody, This, ThisWord
<1>. QED
  BY <1>2, <1>3

LEMMA WriteKnows ==
  ASSUME SType, Stored, Addressed, Latched, WriteProcess
  PROVE  Stored' /\ Addressed' /\ Latched'
<1>1. ASSUME NEW s, Edge(s)
      PROVE  /\ state = s /\ cmds' = cmds /\ This' = This /\ (\A i : ThisWord(i)' = ThisWord(i))
             /\ reads'[RamStages] = mem_addr
             /\ reads'[1] = IF RamStages = 1 THEN mem_addr ELSE reads[RamStages]
  BY <1>1, EdgeShifts
<1>2. CASE Idle
  BY <1>2, EdgeStores DEF Idle, Edge, Addressed, Latched, InBody, Sending
<1>3. CASE Request("request_header", "check_header")
  <2>1. /\ Edge("request_header") /\ state' = "check_header"
        /\ UNCHANGED <<o_done, mem_addr, tx_word_idx, wren_mask_wr, header_word, body_word, body_last>>
    BY <1>3 DEF Request
  <2>2. Stored'
    BY <2>1, EdgeStores DEF Sending
  <2>3. reads'[1] = 0 /\ ~o_done
    BY <1>1, <2>1 DEF Addressed
  <2>. QED
    BY <2>1, <2>2, <2>3 DEF Addressed, Latched, InBody
<1>4. CASE Request("request_word", "latch_word")
  <2>1. /\ Edge("request_word") /\ state' = "latch_word"
        /\ UNCHANGED <<o_done, mem_addr, tx_word_idx, wren_mask_wr, header_word, body_word, body_last>>
    BY <1>4 DEF Request
  <2>2. Stored'
    BY <2>1, EdgeStores DEF Sending
  <2>3. reads'[1] = tx_word_idx /\ ~o_done /\ tx_word_idx \in 1..LastIdx(This)
    BY <1>1, <2>1 DEF Addressed, Latched, InBody
  <2>4. Addressed'
    BY <2>1, <2>3 DEF Addressed
  <2>5. Latched'
    BY <1>1, <2>1, <2>3 DEF Latched, InBody
  <2>. QED
    BY <2>2, <2>4, <2>5
<1>5. CASE CheckHeader
  <2>1. /\ Edge("check_header") /\ header_word' = i_mem_data /\ mem_addr' = 1 /\ UNCHANGED o_done
        /\ i_mem_data.kind = "head" => /\ state' = "set_fpga_id1" /\ tx_word_idx' = 1
                                       /\ wren_mask_wr' = cmds[i_mem_data.id].to
        /\ i_mem_data.kind # "head" => state' = "idle"
    BY <1>5 DEF CheckHeader
  <2>2. /\ Len(cmds) > 0 /\ (i_mem_data.kind = "head" <=> Fits(Len(cmds))) /\ ~o_done
        /\ Fits(Len(cmds)) => i_mem_data = ThisWord(0) /\ i_mem_data.id = Len(cmds)
    BY <1>1, <2>1, HeaderRead DEF Addressed
  <2>3. CASE i_mem_data.kind = "head"
    <3>1. Stored'
      BY <2>1, <2>2, <2>3, EdgeStores
    <3>2. Addressed'
      BY <2>1, <2>2, <2>3 DEF Addressed
    <3>3. header_word' = ThisWord(0)' /\ wren_mask_wr' = This'.to
      BY <1>1, <2>1, <2>2, <2>3 DEF This
    <3>4. Latched'
      BY <2>1, <2>3, <3>3 DEF Latched, InBody
    <3>. QED
      BY <3>1, <3>2, <3>4
  <2>4. CASE i_mem_data.kind # "head"
    BY <2>1, <2>2, <2>4 DEF Stored, Addressed, Latched, InBody
  <2>. QED
    BY <2>3, <2>4
<1>6. CASE SetFpgaId
  <2>0. /\ Edge("set_fpga_id1") \/ Edge("set_fpga_id2")
        /\ UNCHANGED <<o_done, mem_addr, tx_word_idx, wren_mask_wr, header_word, body_word, body_last>>
        /\ \/ UNCHANGED state
           \/ state = "set_fpga_id1" /\ state' = "set_fpga_id2"
           \/ state = "set_fpga_id2" /\ state' = "emit_header"
    BY <1>6 DEF SetFpgaId, Push, Edge
  <2>1. PICK s \in {"set_fpga_id1", "set_fpga_id2"} : Edge(s) /\ state = s
    BY <2>0, <1>1
  <2>2. Stored'
    BY <2>0, <2>1, EdgeStores DEF Sending
  <2>3. CASE UNCHANGED state
    BY <2>0, <2>1, <2>2, <2>3, WaitKnows
  <2>4. CASE state' # state
    <3>1. Addressed'
      BY <1>1, <2>0, <2>1, <2>4 DEF Addressed
    <3>2. Latched'
      BY <1>1, <2>0, <2>1, <2>4 DEF Latched, InBody
    <3>. QED
      BY <2>2, <3>1, <3>2
  <2>. QED
    BY <2>3, <2>4
<1>7. CASE EmitHeader
  <2>1. /\ Edge("emit_header") /\ state' \in {"emit_header", "latch_word"}
        /\ UNCHANGED <<o_done, mem_addr, tx_word_idx, wren_mask_wr, header_word, body_word, body_last>>
    BY <1>7 DEF EmitHeader, Push, Edge
  <2>2. Stored' /\ state = "emit_header" /\ Len(cmds) > 0
    BY <1>1, <2>1, EdgeStores DEF Sending, Stored
  <2>3. CASE state' = "emit_header"
    BY <2>1, <2>2, <2>3, WaitKnows
  <2>4. CASE state' = "latch_word"
    <3>1. reads'[1] = 1 /\ tx_word_idx = 1 /\ ~o_done
      BY <1>1, <2>1, <2>2 DEF Addressed
    <3>2. Addressed'
      BY <2>1, <2>4, <3>1 DEF Addressed
    <3>3. 1 \in 1..LastIdx(This)
      BY <2>2, ThisFacts
    <3>4. Latched'
      BY <1>1, <2>1, <2>4, <3>1, <3>3 DEF Latched, InBody
    <3>. QED
      BY <2>2, <3>2, <3>4
  <2>. QED
    BY <2>1, <2>3, <2>4
<1>8. CASE LatchWord
  <2>1. /\ Edge("latch_word") /\ body_word' = i_mem_data /\ body_last' = (tx_word_idx = Wrap(length + 1))
        /\ mem_addr' = (IF body_last' THEN 0 ELSE Wrap(tx_word_idx + 1)) /\ state' = "emit_word"
        /\ UNCHANGED <<o_done, tx_word_idx, wren_mask_wr, header_word>>
    BY <1>8 DEF LatchWord
  <2>2. state = "latch_word" /\ Stored' /\ Len(cmds) > 0 /\ Fits(Len(cmds))
    BY <1>1, <2>1, EdgeStores DEF Sending, Stored
  <2>3. /\ LastIdx(This) \in Nat /\ LastIdx(This) = This.size + 3 /\ LastIdx(This) < MemLen
        /\ This.size \in Nat
    BY <2>2, ThisFacts, CmdFacts, SizeFacts DEF Fits, This
  <2>4. Wrap(length + 1) = LastIdx(This)
    <3>1. length = Wrap(2 + This.size) /\ 2 + This.size \in Nat /\ 2 + This.size < MemLen
      BY <2>2, <2>3, SizeFacts DEF Stored
    <3>2. length = 2 + This.size
      BY <3>1, WrapIs
    <3>3. length + 1 = LastIdx(This)
      BY <2>3, <3>2
    <3>. QED
      BY <2>3, <3>3, WrapIs
  <2>5. tx_word_idx \in 1..LastIdx(This) /\ ~o_done /\ reads[1] = tx_word_idx
    BY <2>2 DEF Latched, InBody, Addressed
  <2>6. i_mem_data = ThisWord(tx_word_idx)
    <3>1. tx_word_idx \in 1..MemLen-1 /\ tx_word_idx <= LastIdx(This)
      BY <2>3, <2>5, SizeFacts
    <3>. QED
      BY <2>2, <2>5, <3>1, ReadOut DEF Stored
  <2>7. tx_word_idx # LastIdx(This) => Wrap(tx_word_idx + 1) = tx_word_idx + 1
    <3>1. tx_word_idx # LastIdx(This) => tx_word_idx + 1 \in Nat /\ tx_word_idx + 1 < MemLen
      BY <2>3, <2>5, SizeFacts
    <3>. QED
      BY <3>1, WrapIs
  <2>8. Addressed'
    BY <2>1, <2>5 DEF Addressed
  <2>9. /\ body_word' = ThisWord(tx_word_idx)' /\ body_last' = (tx_word_idx' = LastIdx(This'))
        /\ ~body_last' => mem_addr' = tx_word_idx' + 1
    BY <1>1, <2>1, <2>4, <2>6, <2>7
  <2>10. Latched'
    BY <1>1, <2>1, <2>5, <2>9 DEF Latched, InBody
  <2>. QED
    BY <2>2, <2>8, <2>10
<1>9. CASE EmitWord
  <2>1. /\ Edge("emit_word") /\ UNCHANGED <<o_done, header_word, body_word, body_last>>
        /\ fifo_full => UNCHANGED <<state, mem_addr, tx_word_idx, wren_mask_wr>>
        /\ ~fifo_full /\ body_last => state' = "idle" /\ mem_addr' = 0
        /\ ~fifo_full /\ ~body_last => /\ state' = "request_word" /\ UNCHANGED mem_addr
                                       /\ tx_word_idx' = Wrap(tx_word_idx + 1)
    BY <1>9 DEF EmitWord, Push
  <2>2. state = "emit_word" /\ ~o_done /\ Fits(Len(cmds)) /\ Len(cmds) > 0
    BY <1>1, <2>1 DEF Addressed, Stored, Sending
  <2>3. CASE fifo_full
    <3>1. Stored'
      BY <2>1, <2>2, <2>3, EdgeStores DEF Sending
    <3>. QED
      BY <2>1, <2>3, <3>1, WaitKnows
  <2>4. CASE ~fifo_full /\ body_last
    BY <2>1, <2>2, <2>4 DEF Stored, Addressed, Latched, InBody
  <2>5. CASE ~fifo_full /\ ~body_last
    <3>1. state' = "request_word" /\ UNCHANGED mem_addr /\ tx_word_idx' = Wrap(tx_word_idx + 1)
      BY <2>1, <2>5
    <3>2. Stored'
      BY <2>1, <2>2, <3>1, EdgeStores DEF Sending
    <3>3. tx_word_idx \in 1..LastIdx(This) /\ tx_word_idx # LastIdx(This) /\ mem_addr = tx_word_idx + 1
      BY <2>2, <2>5 DEF Latched, InBody
    <3>4. tx_word_idx + 1 \in Nat /\ tx_word_idx + 1 < MemLen /\ tx_word_idx + 1 \in 1..LastIdx(This)
      BY <2>2, <3>3, ThisFacts, SizeFacts DEF Fits, This
    <3>5. tx_word_idx' = tx_word_idx + 1
      BY <3>1, <3>4, WrapIs
    <3>6. Addressed'
      BY <1>1, <2>1, <2>2, <3>1, <3>3, <3>5 DEF Addressed
    <3>7. Latched'
      BY <1>1, <2>1, <3>1, <3>4, <3>5 DEF Latched, InBody
    <3>. QED
      BY <3>2, <3>6, <3>7
  <2>. QED
    BY <2>3, <2>4, <2>5
<1>. QED
  BY <1>2, <1>3, <1>4, <1>5, <1>6, <1>7, <1>8, <1>9 DEF WriteProcess

-----------------------------------------------------------------------------
(* The FIFO holds what comes between the write process and the links. *)

Places == [id : Nat, i : Int]

LEMMA WritesIs ==
  /\ state = "idle" => Writes = At(Len(cmds) + 1, -2)
  /\ state \in {"request_header", "check_header", "set_fpga_id1"} => Writes = At(Len(cmds), -2)
  /\ state = "set_fpga_id2" => Writes = At(Len(cmds), -1)
  /\ state = "emit_header" => Writes = At(Len(cmds), 0)
  /\ state \in InBody => Writes = At(Len(cmds), tx_word_idx)
  BY DEF Writes, InBody

LEMMA WritesType ==
  SType /\ Stored =>
    /\ Writes \in Places /\ Writes.id <= Len(cmds) + 1
    /\ Writes.i # -2 => Writes.id \in 1..Len(cmds)
    /\ state \in Sending => Writes.id \in 1..Len(cmds)
<1>. SUFFICES ASSUME SType, Stored
     PROVE  /\ Writes \in Places /\ Writes.id <= Len(cmds) + 1
            /\ Writes.i # -2 => Writes.id \in 1..Len(cmds)
            /\ state \in Sending => Writes.id \in 1..Len(cmds)
  OBVIOUS
<1>1. Len(cmds) \in Nat /\ tx_word_idx \in Int /\ state \in States
  BY LenProperties, SizeFacts DEF SType
<1>2. state # "idle" => Len(cmds) > 0
  BY DEF Stored
<1>3. CASE state = "idle"
  BY <1>1, <1>3, WritesIs DEF At, Places, Sending
<1>4. CASE state # "idle"
  <2>1. PICK i \in Int : Writes = At(Len(cmds), i)
    BY <1>1, <1>4, WritesIs DEF States, InBody
  <2>. QED
    BY <1>1, <1>2, <1>4, <2>1 DEF At, Places
<1>. QED
  BY <1>3, <1>4

\* Commands are only added. What is said of the earlier ones stays.
Grows ==
  /\ Len(cmds) \in Nat /\ Len(cmds') \in Nat /\ Len(cmds') >= Len(cmds)
  /\ \A id \in 1..Len(cmds) : cmds'[id] = cmds[id]

LEMMA EntryStays ==
  ASSUME Grows, NEW a \in Places, a.id \in 1..Len(cmds)
  PROVE  Entry(a)' = Entry(a) /\ LastIdx(cmds'[a.id]) = LastIdx(cmds[a.id])
  BY DEF Grows, Entry

LEMMA ThenStays ==
  ASSUME Grows, NEW a \in Places, NEW b \in Places, a.id \in 1..Len(cmds), b.id <= Len(cmds) + 1,
         Then(a, b)
  PROVE  Then(a, b)'
<1>1. cmds'[a.id] = cmds[a.id]
  BY DEF Grows
<1>2. ASSUME NEW id \in 1..Len(cmds'), a.id < id, id < b.id PROVE id \in 1..Len(cmds) /\ Fits(id)' = Fits(id)
  <2>1. id \in 1..Len(cmds)
    BY <1>2 DEF Grows, Places
  <2>. QED
    BY <2>1 DEF Grows, Fits
<1>. QED
  BY <1>1, <1>2 DEF Then

LEMMA ReadsStays ==
  ASSUME Grows, NEW a \in Places, a.id <= Len(cmds) + 1, a.i # -2 => a.id \in 1..Len(cmds),
         UNCHANGED <<sent, wren_mask, cut>>, Reads(a)
  PROVE  Reads(a)'
<1>1. a.i # -2 => cmds'[a.id] = cmds[a.id]
  BY DEF Grows
<1>2. /\ a.i = -1 => wren_mask' \ HighFeb = cmds'[a.id].to \ HighFeb
      /\ a.i >= 0 => wren_mask' = cmds'[a.id].to
  BY <1>1 DEF Reads
<1>3. ASSUME NEW f \in Feb
      PROVE  IF a.i > 0 /\ f \in cmds'[a.id].to
             THEN sent'[f] # <<>> /\ LastOf(f)' = CmdWord(cmds'[a.id], a.id, a.i - 1)
             ELSE sent'[f] # <<>> =>
                    LastOf(f)'.id < a.id /\ (LastOf(f)'.kind = "tail" \/ LastOf(f)'.id \in cut')
  <2>1. LastOf(f)' = LastOf(f)
    BY DEF LastOf
  <2>2. CASE a.i > 0
    BY <1>1, <2>1, <2>2 DEF Reads
  <2>3. CASE ~(a.i > 0)
    BY <2>1, <2>3 DEF Reads
  <2>. QED
    BY <2>2, <2>3
<1>4. ASSUME NEW id \in 1..Len(cmds') \ cut', id < a.id, Fits(id)', NEW f \in cmds'[id].to
      PROVE  \E n \in 1..Len(sent'[f]) : sent'[f][n].word = LastWord(id)'
  <2>1. id \in 1..Len(cmds) \ cut /\ cmds'[id] = cmds[id]
    BY <1>4 DEF Grows, Places
  <2>2. Fits(id) /\ LastWord(id)' = LastWord(id)
    BY <1>4, <2>1 DEF Fits, LastWord
  <2>. QED
    BY <1>4, <2>1, <2>2 DEF Reads
<1>. QED
  BY <1>2, <1>3, <1>4 DEF Reads

LEMMA LastTyped ==
  ASSUME SType, NEW f \in Feb, sent[f] # <<>>
  PROVE  /\ Len(sent[f]) \in 1..Len(sent[f]) /\ Len(sent[f]) \in Nat \ {0}
         /\ LastOf(f) \in Word /\ LastOf(f).id \in Nat /\ LastOf(f).i \in Nat
<1>1. sent[f] \in Seq(Sendable)
  BY DEF SType
<1>2. Len(sent[f]) \in Nat \ {0}
  BY <1>1, EmptySeq
<1>3. sent[f][Len(sent[f])] \in Sendable
  BY <1>1, <1>2, ElementOfSeq
<1>. QED
  BY <1>2, <1>3, SizeFacts DEF LastOf, Sendable, Word

\* Nothing moves through the FIFO; the write process may pass over commands that do not fit.
LEMMA Moved ==
  ASSUME SType, Stored, SType', Stored', Streams, Grows, UNCHANGED <<fifo, sent, wren_mask, cut>>,
         \/ Writes' = Writes
         \/ /\ Writes.i = -2 /\ Writes'.i = -2 /\ Writes'.id > Writes.id
            /\ \A id \in 1..Len(cmds') : Writes.id <= id /\ id < Writes'.id => ~Fits(id)'
  PROVE  Streams'
<1>1. PICK q : InFifo(q) /\ Reads(q[1])
  BY DEF Streams
<1>2. PICK N : N \in Nat /\ N = Len(fifo) /\ Len(fifo') = N
  BY LenProperties DEF SType
<1>3. PICK W, V : /\ W = Writes /\ V = Writes'
                  /\ W \in Places /\ W.id <= Len(cmds) + 1 /\ (W.i # -2 => W.id \in 1..Len(cmds))
                  /\ V \in Places
  <2>1. (Writes \in Places)'
    BY WritesType, PTL
  <2>. QED
    BY <2>1, WritesType
<1>4. /\ q \in [1..N+1 -> Places] /\ q[N+1] = W
      /\ \A n \in 1..N : /\ q[n].id \in 1..Len(cmds) /\ q[n].i \in -2..LastIdx(cmds[q[n].id])
                         /\ fifo[n] = Entry(q[n]) /\ Then(q[n], q[n+1])
  BY <1>1, <1>2, <1>3 DEF InFifo, Places
<1>5. PICK p : /\ p \in [1..N+1 -> Places] /\ p[N+1] = V /\ \A n \in 1..N : p[n] = q[n]
  <2>. DEFINE r == [n \in 1..N+1 |-> IF n = N + 1 THEN V ELSE q[n]]
  <2>1. r \in [1..N+1 -> Places] /\ r[N+1] = V /\ \A n \in 1..N : r[n] = q[n]
    BY <1>2, <1>3, <1>4
  <2>. QED
    BY <2>1
<1>6. ASSUME NEW n \in 1..N
      PROVE  /\ p[n].id \in 1..Len(cmds') /\ p[n].i \in -2..LastIdx(cmds'[p[n].id])
             /\ fifo'[n] = Entry(p[n])' /\ Then(p[n], p[n+1])'
  <2>1. p[n] = q[n] /\ q[n] \in Places /\ q[n].id \in 1..Len(cmds) /\ n + 1 \in 1..N+1
    <3>1. n \in 1..N+1 /\ n + 1 \in 1..N+1
      BY <1>2, <1>6
    <3>2. p[n] = q[n] /\ q[n].id \in 1..Len(cmds)
      BY <1>4, <1>5, <1>6
    <3>. QED
      BY <1>4, <3>1, <3>2
  <2>2. q[n+1] \in Places /\ q[n+1].id <= Len(cmds) + 1
    <3>1. CASE n = N
      BY <1>3, <1>4, <3>1
    <3>2. CASE n # N
      <4>1. n + 1 \in 1..N
        BY <1>2, <1>6, <3>2
      <4>2. q[n + 1] \in Places
        BY <1>4, <2>1
      <4>. QED
        BY <1>4, <4>1, <4>2 DEF Grows
    <3>. QED
      BY <3>1, <3>2
  <2>3. Then(q[n], q[n+1])'
    BY <1>4, <2>1, <2>2, ThenStays
  <2>4. Then(p[n], p[n+1])'
    <3>1. CASE n # N
      <4>1. n + 1 \in 1..N
        BY <1>2, <1>6, <3>1
      <4>. QED
        BY <1>5, <2>1, <2>3, <4>1
    <3>2. CASE n = N /\ V = W
      BY <1>4, <1>5, <2>1, <2>3, <3>2
    <3>3. CASE n = N /\ V # W
      <4>1. p[n+1] = V /\ q[n+1] = W
        BY <1>4, <1>5, <3>3
      <4>2. /\ W.i = -2 /\ V.i = -2 /\ V.id > W.id
            /\ \A id \in 1..Len(cmds') : W.id <= id /\ id < V.id => ~Fits(id)'
        BY <1>3, <3>3
      <4>3. q[n].i \in -2..LastIdx(cmds[q[n].id]) /\ cmds'[q[n].id] = cmds[q[n].id]
        BY <1>4, <2>1 DEF Grows
      <4>4. /\ q[n].i = LastIdx(cmds'[q[n].id]) /\ W.id > q[n].id
            /\ \A id \in 1..Len(cmds') : q[n].id < id /\ id < W.id => ~Fits(id)'
        BY <2>3, <4>1, <4>2, <4>3 DEF Then, At, Places
      <4>. QED
        BY <1>3, <2>1, <4>1, <4>2, <4>4 DEF Then, Places
    <3>. QED
      BY <3>1, <3>2, <3>3
  <2>5. cmds'[q[n].id] = cmds[q[n].id] /\ Entry(q[n])' = Entry(q[n])
    BY <2>1, EntryStays DEF Grows
  <2>. QED
    BY <1>4, <2>1, <2>4, <2>5 DEF Grows
<1>7. InFifo(p)'
  BY <1>2, <1>3, <1>5, <1>6 DEF InFifo, Places
<1>8. Reads(p[1])'
  <2>1. CASE N # 0
    <3>1. 1 \in 1..N /\ p[1] = q[1] /\ q[1] \in Places /\ q[1].id \in 1..Len(cmds)
      BY SMTT(30), <1>2, <1>4, <1>5, <2>1
    <3>2. q[1].id <= Len(cmds) + 1
      BY <1>4, <3>1 DEF Grows
    <3>. QED
      BY <1>1, <3>1, <3>2, ReadsStays
  <2>2. CASE N = 0
    <3>1. q[1] = W /\ p[1] = V
      BY <1>4, <1>5, <2>2
    <3>2. Reads(W)'
      BY <1>1, <1>3, <3>1, ReadsStays
    <3>3. CASE V = W
      BY <3>1, <3>2, <3>3
    <3>4. CASE V # W
      <4>1. /\ W.i = -2 /\ V.i = -2 /\ V.id > W.id
            /\ \A id \in 1..Len(cmds') : W.id <= id /\ id < V.id => ~Fits(id)'
        BY <1>3, <3>4
      <4>2. ASSUME NEW f \in Feb, sent'[f] # <<>>
            PROVE  LastOf(f)'.id < V.id /\ (LastOf(f)'.kind = "tail" \/ LastOf(f)'.id \in cut')
          <5>1. sent[f] # <<>> /\ LastOf(f)' = LastOf(f)
            BY <4>2 DEF LastOf
          <5>2. LastOf(f).id \in Nat
            BY <5>1, LastTyped
          <5>3. LastOf(f)'.id < W.id /\ (LastOf(f)'.kind = "tail" \/ LastOf(f)'.id \in cut')
            BY <3>2, <4>1, <4>2 DEF Reads
          <5>. QED
            BY <1>3, <4>1, <5>1, <5>2, <5>3 DEF Places
      <4>3. ASSUME NEW id \in 1..Len(cmds') \ cut', id < V.id, Fits(id)', NEW f \in cmds'[id].to
            PROVE  \E n \in 1..Len(sent'[f]) : sent'[f][n].word = LastWord(id)'
        <5>1. id < W.id
          BY <1>3, <4>1, <4>3 DEF Places
        <5>. QED
          BY <3>2, <4>3, <5>1 DEF Reads
      <4>. QED
        BY <3>1, <4>1, <4>2, <4>3 DEF Reads
    <3>. QED
      BY <3>3, <3>4
  <2>. QED
    BY <2>1, <2>2
<1>. QED
  BY <1>7, <1>8 DEF Streams

LEMMA EntryTyped ==
  ASSUME SType, NEW a \in Places, a.id \in 1..Len(cmds), a.i \in -2..LastIdx(cmds[a.id])
  PROVE  /\ cmds[a.id] \in Cmd /\ LastIdx(cmds[a.id]) \in Nat /\ a.id \in 0..MaxCmds
         /\ a.i = -2 => Entry(a) = MaskEntry(Feb \ HighFeb, cmds[a.id].to \ HighFeb)
         /\ a.i = -1 => Entry(a) = MaskEntry(HighFeb, cmds[a.id].to \cap HighFeb)
         /\ a.i >= 0 => /\ a.i \in Nat
                        /\ Entry(a) = WordEntry(CmdWord(cmds[a.id], a.id, a.i), a.i \in {0, LastIdx(cmds[a.id])})
         /\ Entry(a) \in Entries
<1>1. cmds[a.id] \in Cmd
  BY ElementOfSeq DEF SType
<1>2. LastIdx(cmds[a.id]) \in Nat /\ cmds[a.id].to \subseteq Feb
  BY <1>1, CmdFacts
<1>3. a.id \in 0..MaxCmds
  BY LenProperties, SizeFacts DEF SType
<1>4. /\ a.i = -2 => Entry(a) = MaskEntry(Feb \ HighFeb, cmds[a.id].to \ HighFeb)
      /\ a.i = -1 => Entry(a) = MaskEntry(HighFeb, cmds[a.id].to \cap HighFeb)
      /\ a.i >= 0 => /\ a.i \in Nat
                     /\ Entry(a) = WordEntry(CmdWord(cmds[a.id], a.id, a.i), a.i \in {0, LastIdx(cmds[a.id])})
  BY <1>2 DEF Entry, Places
<1>5. a.i >= 0 => Entry(a) \in Entries
  <2>1. a.i >= 0 => CmdWord(cmds[a.id], a.id, a.i) \in Word
    BY <1>1, <1>3, <1>4, WordFacts
  <2>2. ASSUME NEW w \in Word, NEW k \in BOOLEAN PROVE WordEntry(w, k) \in Entries
    BY DEF WordEntry, Entries, Sendable
  <2>3. (a.i \in {0, LastIdx(cmds[a.id])}) \in BOOLEAN
    OBVIOUS
  <2>. QED
    BY <1>4, <2>1, <2>2, <2>3, Zenon
<1>6. a.i = -2 \/ a.i = -1 => Entry(a) \in Entries
  BY <1>2, <1>4, SizeFacts DEF MaskEntry, Entries
<1>7. a.i = -2 \/ a.i = -1 \/ a.i >= 0
  BY <1>2 DEF Places
<1>. QED
  BY <1>1, <1>2, <1>3, <1>4, <1>5, <1>6, <1>7

\* The write process appends the entry it is at.
LEMMA Pushed ==
  ASSUME SType, Stored, SType', Stored', Streams, UNCHANGED <<cmds, sent, wren_mask, cut>>,
         Writes.id \in 1..Len(cmds), Writes.i \in -2..LastIdx(cmds[Writes.id]),
         fifo' = Append(fifo, Entry(Writes)), Then(Writes, Writes')
  PROVE  Streams'
<1>1. PICK q : InFifo(q) /\ Reads(q[1])
  BY DEF Streams
<1>2. PICK W, V : /\ W = Writes /\ V = Writes' /\ W \in Places /\ V \in Places
                  /\ W.id \in 1..Len(cmds) /\ W.i \in -2..LastIdx(cmds[W.id]) /\ Then(W, V)
  <2>1. (Writes \in Places)'
    BY WritesType, PTL
  <2>. QED
    BY <2>1, WritesType
<1>3. Entry(W) \in Entries /\ fifo' = Append(fifo, Entry(W)) /\ fifo \in Seq(Entries)
  BY <1>2, EntryTyped DEF SType
<1>4. PICK N : /\ N \in Nat /\ N = Len(fifo) /\ Len(fifo') = N + 1
               /\ \A n \in 1..N : fifo'[n] = fifo[n]
               /\ fifo'[N+1] = Entry(W)
  BY <1>3, AppendProperties, LenProperties, SMTT(30)
<1>5. /\ q \in [1..N+1 -> Places] /\ q[N+1] = W
      /\ \A n \in 1..N : /\ q[n].id \in 1..Len(cmds) /\ q[n].i \in -2..LastIdx(cmds[q[n].id])
                         /\ fifo[n] = Entry(q[n]) /\ Then(q[n], q[n+1])
  BY <1>1, <1>2, <1>4 DEF InFifo, Places
<1>6. PICK p : p \in [1..N+2 -> Places] /\ p[N+2] = V /\ \A n \in 1..N+1 : p[n] = q[n]
  <2>. DEFINE r == [n \in 1..N+2 |-> IF n = N + 2 THEN V ELSE q[n]]
  <2>1. r \in [1..N+2 -> Places] /\ r[N+2] = V /\ \A n \in 1..N+1 : r[n] = q[n]
    BY <1>2, <1>4, <1>5
  <2>. QED
    BY <2>1
<1>7. ASSUME NEW n \in 1..N+1
      PROVE  /\ p[n].id \in 1..Len(cmds) /\ p[n].i \in -2..LastIdx(cmds[p[n].id])
             /\ fifo'[n] = Entry(p[n]) /\ Then(p[n], p[n+1])
  <2>1. CASE n \in 1..N
    <3>1. n + 1 \in 1..N+1
      BY <1>4, <2>1
    <3>2. p[n] = q[n] /\ p[n+1] = q[n+1] /\ fifo'[n] = fifo[n]
      BY <1>4, <1>6, <1>7, <2>1, <3>1
    <3>. QED
      BY <1>5, <2>1, <3>2
  <2>2. CASE n = N + 1
    <3>1. n + 1 = N + 2
      BY <1>4, <2>2
    <3>2. p[n] = W /\ p[n+1] = V /\ fifo'[n] = Entry(W)
      BY <1>4, <1>5, <1>6, <1>7, <2>2, <3>1
    <3>. QED
      BY <1>2, <3>2
  <2>. QED
    BY <1>4, <1>7, <2>1, <2>2
<1>8. InFifo(p)'
  <2>1. \A a : Entry(a)' = Entry(a) /\ \A b : Then(a, b)' = Then(a, b)
    BY DEF Entry, Then, Fits
  <2>2. Len(fifo') + 1 = N + 2
    BY <1>4
  <2>. QED
    BY <1>2, <1>4, <1>6, <1>7, <2>1, <2>2 DEF InFifo, Places
<1>9. Reads(p[1])'
  <2>1. p[1] = q[1]
    BY <1>4, <1>6
  <2>. QED
    BY <1>1, <2>1 DEF Reads, LastOf, Fits, LastWord
<1>. QED
  BY <1>8, <1>9 DEF Streams

\* Links and their words.
LEMMA IdTo ==
  ASSUME SType, NEW id \in 1..Len(cmds), NEW f \in cmds[id].to
  PROVE  f \in Feb
  BY ElementOfSeq, CmdFacts DEF SType

LEMMA CmdOf ==
  ASSUME SType, NEW id \in 1..Len(cmds)
  PROVE  cmds[id] \in Cmd /\ id \in 0..MaxCmds
  BY ElementOfSeq, LenProperties, SizeFacts DEF SType

LEMMA SentTyped ==
  ASSUME SType, NEW f \in Feb, NEW n \in 1..Len(sent[f])
  PROVE  sent[f][n].word \in Word /\ sent[f][n].word.id \in Nat /\ sent[f][n].word.i \in Nat
<1>1. sent[f][n] \in Sendable
  BY ElementOfSeq DEF SType
<1>. QED
  BY <1>1, SizeFacts DEF Sendable, Word

LEMMA SeqNonEmpty ==
  ASSUME NEW S, NEW s \in Seq(S), NEW n \in 1..Len(s)
  PROVE  s # <<>>
  BY EmptySeq

LEMMA LinksFrame ==
  ASSUME InOrder, WellFormed, UNCHANGED <<cmds, cut, sent>>
  PROVE  InOrder' /\ WellFormed'
<1>1. cmds' = cmds /\ cut' = cut /\ sent' = sent
  OBVIOUS
<1>2. InOrder'
  BY <1>1 DEF InOrder
<1>3. WellFormed'
  <2>1. \A u, v : Follows(u, v) => Follows(u, v)'
    BY <1>1 DEF Follows
  <2>. QED
    BY <1>1, <2>1 DEF WellFormed
<1>. QED
  BY <1>2, <1>3

\* The read process goes on from place a to place b: the mask and the links follow.
LEMMA ReadOn ==
  ASSUME SType, InOrder, WellFormed, NEW a \in Places, NEW b \in Places,
         a.id \in 1..Len(cmds), a.i \in -2..LastIdx(cmds[a.id]), Then(a, b), Reads(a),
         UNCHANGED <<cut, cmds>>,
         IF "mask" \in DOMAIN Entry(a)
         THEN wren_mask' = (wren_mask \ Entry(a).half) \cup Entry(a).mask /\ UNCHANGED sent
         ELSE /\ sent' = [f \in Feb |-> IF f \in wren_mask THEN Append(sent[f], Entry(a)) ELSE sent[f]]
              /\ UNCHANGED wren_mask
  PROVE  Reads(b)' /\ InOrder' /\ WellFormed'
<1>. DEFINE x == cmds[a.id]  w == CmdWord(x, a.id, a.i)
<1>1. x \in Cmd /\ LastIdx(x) \in Nat /\ LastIdx(x) >= 3 /\ a.id \in 0..MaxCmds /\ a.id \in Nat
  <2>1. x \in Cmd /\ a.id \in 0..MaxCmds /\ a.id \in Nat
    BY EntryTyped DEF Places
  <2>. QED
    BY <2>1, CmdFacts
<1>2. wren_mask \subseteq Feb /\ x.to \subseteq Feb /\ HighFeb \subseteq Feb
  BY <1>1, CmdFacts, SizeFacts DEF SType
<1>3. CASE a.i < 0
  <2>1. b = At(a.id, a.i + 1) /\ b.id = a.id /\ b.i = a.i + 1 /\ (a.i = -2 \/ a.i = -1)
    BY <1>1, <1>3 DEF Then, At, Places
  <2>2. /\ "mask" \in DOMAIN Entry(a)
        /\ a.i = -2 => Entry(a).half = Feb \ HighFeb /\ Entry(a).mask = x.to \ HighFeb
        /\ a.i = -1 => Entry(a).half = HighFeb /\ Entry(a).mask = x.to \cap HighFeb
    BY <2>1, EntryTyped DEF MaskEntry
  <2>3. wren_mask' = (wren_mask \ Entry(a).half) \cup Entry(a).mask /\ UNCHANGED sent
    BY <2>2
  <2>4. a.i = -2 => wren_mask' \ HighFeb = x.to \ HighFeb
    BY <1>2, <2>2, <2>3
  <2>5. a.i = -1 => wren_mask' = x.to
    <3>1. a.i = -1 => wren_mask \ HighFeb = x.to \ HighFeb
      BY DEF Reads
    <3>. QED
      BY <1>2, <2>2, <2>3, <3>1
  <2>6. LastWord(0)' = LastWord(0) /\ \A f : LastOf(f)' = LastOf(f)
    BY <2>3 DEF LastOf, LastWord
  <2>7. Reads(b)'
    <3>. HIDE DEF x
    <3>1. ASSUME NEW f \in Feb, sent'[f] # <<>>
          PROVE  LastOf(f)'.id < b.id /\ (LastOf(f)'.kind = "tail" \/ LastOf(f)'.id \in cut')
      BY <2>1, <2>3, <2>6, <3>1 DEF Reads
    <3>2. ASSUME NEW id \in 1..Len(cmds') \ cut', id < b.id, Fits(id)', NEW f \in cmds'[id].to
          PROVE  \E n \in 1..Len(sent'[f]) : sent'[f][n].word = LastWord(id)'
      BY <2>1, <2>3, <3>2 DEF Reads, Fits, LastWord
    <3>3. /\ b.i = -1 => wren_mask' \ HighFeb = cmds'[b.id].to \ HighFeb
          /\ b.i >= 0 => wren_mask' = cmds'[b.id].to
      BY <2>1, <2>4, <2>5 DEF x
    <3>. QED
      BY <2>1, <3>1, <3>2, <3>3 DEF Reads
  <2>8. InOrder' /\ WellFormed'
    BY <2>3, LinksFrame
  <2>. QED
    BY <2>7, <2>8
<1>4. CASE a.i >= 0
  <2>0. a.i \in Nat /\ w \in Word /\ w.id = a.id /\ w.i = a.i /\ a.i \in 0..LastIdx(x)
    BY <1>1, <1>4, WordFacts, EntryTyped DEF Places
  <2>1. Entry(a) = WordEntry(w, a.i \in {0, LastIdx(x)}) /\ Entry(a) \in Entries
    BY <1>4, EntryTyped
  <2>2. "mask" \notin DOMAIN Entry(a) /\ Entry(a).word = w /\ Entry(a).k = (a.i \in {0, LastIdx(x)})
    BY <2>1 DEF WordEntry
  <2>3. Entry(a) \in Sendable
    BY <2>1, <2>2 DEF Entries
  <2>4. wren_mask = x.to /\ UNCHANGED wren_mask
    BY <1>4, <2>2 DEF Reads
  <2>5. ASSUME NEW f \in Feb
        PROVE  /\ f \notin x.to => sent'[f] = sent[f]
               /\ f \in x.to => sent'[f] = Append(sent[f], Entry(a))
    BY <2>2, <2>4
  <2>6. ASSUME NEW f \in x.to
        PROVE  /\ f \in Feb /\ Len(sent[f]) \in Nat /\ Len(sent'[f]) = Len(sent[f]) + 1
               /\ \A n \in 1..Len(sent[f]) : sent'[f][n] = sent[f][n]
               /\ sent'[f][Len(sent[f]) + 1] = Entry(a) /\ sent'[f] # <<>>
    <3>1. f \in Feb /\ sent[f] \in Seq(Sendable)
      BY <1>2, <2>6 DEF SType
    <3>2. sent'[f] = Append(sent[f], Entry(a))
      BY <2>5, <2>6, <3>1
    <3>. QED
      BY <2>3, <3>1, <3>2, AppendProperties, LenProperties
  <2>. HIDE DEF x, w
  <2>7. ASSUME NEW f \in x.to PROVE LastOf(f)' = w
    BY <2>2, <2>6, <2>7 DEF LastOf
  <2>8. ASSUME NEW f \in Feb \ x.to PROVE sent'[f] = sent[f] /\ LastOf(f)' = LastOf(f)
    BY <2>5, <2>8 DEF LastOf
  <2>9. ASSUME NEW f \in x.to, sent[f] # <<>>
        PROVE  /\ a.i = 0 => LastOf(f).id < a.id /\ (LastOf(f).kind = "tail" \/ LastOf(f).id \in cut)
               /\ a.i > 0 => LastOf(f) = CmdWord(x, a.id, a.i - 1)
    BY <1>2, <2>0, <2>9 DEF Reads, x
  <2>10. a.i > 0 => \A f \in x.to : sent[f] # <<>>
    BY <1>2, <2>0 DEF Reads, x
  <2>11. Reads(b)'
    <3>1. CASE a.i < LastIdx(x)
      <4>1. b.id = a.id /\ b.i = a.i + 1 /\ b.i > 0 /\ b.i - 1 = a.i
        BY <1>1, <2>0, <3>1 DEF Then, At, x
      <4>2. ASSUME NEW f \in Feb
            PROVE  IF f \in x.to THEN sent'[f] # <<>> /\ LastOf(f)' = CmdWord(x, b.id, b.i - 1)
                   ELSE sent'[f] # <<>> =>
                     LastOf(f)'.id < b.id /\ (LastOf(f)'.kind = "tail" \/ LastOf(f)'.id \in cut')
        <5>1. CASE f \in x.to
          BY <2>6, <2>7, <4>1, <5>1 DEF w
        <5>2. CASE f \notin x.to
          BY <2>8, <4>1, <4>2, <5>2 DEF Reads, x
        <5>. QED
          BY <5>1, <5>2
      <4>3. ASSUME NEW id \in 1..Len(cmds') \ cut', id < b.id, Fits(id)', NEW f \in cmds'[id].to
            PROVE  \E n \in 1..Len(sent'[f]) : sent'[f][n].word = LastWord(id)'
        <5>1. PICK n \in 1..Len(sent[f]) : sent[f][n].word = LastWord(id)
          BY <4>1, <4>3 DEF Reads, Fits
        <5>2. LastWord(id)' = LastWord(id) /\ f \in Feb
          BY <4>3, IdTo DEF LastWord
        <5>3. CASE f \in x.to
          <6>1. n \in 1..Len(sent'[f]) /\ sent'[f][n] = sent[f][n]
            BY <2>6, <5>1, <5>3
          <6>. QED
            BY <5>1, <5>2, <6>1
        <5>4. CASE f \notin x.to
          BY <2>8, <5>1, <5>2, <5>4
        <5>. QED
          BY <5>3, <5>4
      <4>4. b.i # -1 /\ (b.i >= 0 => wren_mask' = cmds'[b.id].to) /\ cmds'[b.id] = x
        BY <2>0, <2>4, <4>1 DEF x
      <4>. QED
        BY <4>1, <4>2, <4>3, <4>4 DEF Reads
    <3>2. CASE a.i = LastIdx(x)
      <4>1. /\ b.i = -2 /\ b.id > a.id
            /\ \A id \in 1..Len(cmds) : a.id < id /\ id < b.id => ~Fits(id)
        BY <1>1, <2>0, <3>2 DEF Then, At, x
      <4>2. ASSUME NEW f \in Feb, sent'[f] # <<>>
            PROVE  LastOf(f)'.id < b.id /\ (LastOf(f)'.kind = "tail" \/ LastOf(f)'.id \in cut')
        <5>1. CASE f \in x.to
          <6>1. w.kind = "tail"
            BY <1>1, <2>0, <3>2, WordFacts DEF w
          <6>. QED
            BY <2>0, <2>7, <4>1, <5>1, <6>1
        <5>2. CASE f \notin x.to
          <6>1. /\ sent[f] # <<>> /\ LastOf(f)' = LastOf(f) /\ LastOf(f).id \in Nat
                /\ LastOf(f).id < a.id /\ (LastOf(f).kind = "tail" \/ LastOf(f).id \in cut)
            BY <2>8, <4>2, <5>2, LastTyped DEF Reads, x
          <6>. QED
            BY <4>1, <6>1 DEF Places
        <5>. QED
          BY <5>1, <5>2
      <4>3. ASSUME NEW id \in 1..Len(cmds') \ cut', id < b.id, Fits(id)', NEW f \in cmds'[id].to
            PROVE  \E n \in 1..Len(sent'[f]) : sent'[f][n].word = LastWord(id)'
        <5>1. LastWord(id)' = LastWord(id) /\ f \in Feb
          BY <4>3, IdTo DEF LastWord
        <5>2. CASE id = a.id
          <6>1. f \in x.to /\ LastWord(id) = w
            BY <3>2, <4>3, <5>2 DEF LastWord, w, x
          <6>2. Len(sent[f]) + 1 \in 1..Len(sent'[f]) /\ sent'[f][Len(sent[f]) + 1].word = w
            BY <2>2, <2>6, <6>1
          <6>. QED
            BY <5>1, <6>1, <6>2
        <5>3. CASE id # a.id
          <6>1. id < a.id
            BY <4>1, <4>3, <5>3 DEF Fits, Places
          <6>2. PICK n \in 1..Len(sent[f]) : sent[f][n].word = LastWord(id)
            BY <4>3, <6>1 DEF Reads, Fits
          <6>3. CASE f \in x.to
            <7>1. n \in 1..Len(sent'[f]) /\ sent'[f][n] = sent[f][n]
              BY <2>6, <6>2, <6>3
            <7>. QED
              BY <5>1, <6>2, <7>1
          <6>4. CASE f \notin x.to
            BY <2>8, <5>1, <6>2, <6>4
          <6>. QED
            BY <6>3, <6>4
        <5>. QED
          BY <5>2, <5>3
      <4>. QED
        BY <4>1, <4>2, <4>3 DEF Reads
    <3>. QED
      BY <1>1, <2>0, <3>1, <3>2
  <2>12. InOrder'
    <3>1. ASSUME NEW f \in x.to, NEW m \in 1..Len(sent[f]) PROVE Before(sent[f][m].word, w)
      <4>1. sent[f] # <<>> /\ f \in Feb /\ Len(sent[f]) \in 1..Len(sent[f]) /\ Len(sent[f]) \in Nat
        BY <1>2, <3>1, LastTyped, <2>6, SeqNonEmpty
      <4>2. LastOf(f).id \in Nat /\ LastOf(f).i \in Nat /\ Before(LastOf(f), w)
        <5>1. CASE a.i = 0
          BY <2>0, <2>9, <3>1, <4>1, <5>1, LastTyped DEF Before
        <5>2. CASE a.i > 0
          BY SMTT(30), <1>1, <2>0, <2>9, <3>1, <4>1, <5>2, LastTyped, WordFacts DEF Before
        <5>. QED
          BY <2>0, <5>1, <5>2
      <4>3. CASE m = Len(sent[f])
        BY <4>2, <4>3 DEF LastOf
      <4>4. CASE m # Len(sent[f])
        <5>1. Before(sent[f][m].word, LastOf(f))
          <6>1. m \in 1..Len(sent[f])-1
            BY <3>1, <4>1, <4>4
          <6>. QED
            BY <4>1, <6>1 DEF InOrder, LastOf
        <5>2. sent[f][m].word.id \in Nat /\ sent[f][m].word.i \in Nat
          BY <3>1, <4>1, SentTyped
        <5>. QED
          BY <2>0, <4>2, <5>1, <5>2, SMTT(30) DEF Before, Word
      <4>. QED
        BY <4>3, <4>4
    <3>2. ASSUME NEW f \in Feb, NEW n \in 1..Len(sent'[f])
          PROVE  LET v == sent'[f][n].word IN
                 /\ v.id \in 1..Len(cmds) /\ v.i \in 0..LastIdx(cmds[v.id])
                 /\ v = CmdWord(cmds[v.id], v.id, v.i)
                 /\ \A m \in 1..n-1 : Before(sent'[f][m].word, v)
      <4>1. CASE f \notin x.to
        BY <2>8, <3>2, <4>1 DEF InOrder
      <4>2. CASE f \in x.to /\ n \in 1..Len(sent[f])
        <5>1. sent'[f][n] = sent[f][n] /\ \A m \in 1..n-1 : sent'[f][m] = sent[f][m]
          BY <2>6, <4>2
        <5>. QED
          BY <4>2, <5>1 DEF InOrder
      <4>3. CASE f \in x.to /\ n = Len(sent[f]) + 1
        <5>1. sent'[f][n].word = w /\ \A m \in 1..n-1 : m \in 1..Len(sent[f]) /\ sent'[f][m] = sent[f][m]
          BY <2>2, <2>6, <4>3
        <5>2. w.id \in 1..Len(cmds) /\ w.i \in 0..LastIdx(cmds[w.id]) /\ w = CmdWord(cmds[w.id], w.id, w.i)
          BY <2>0 DEF w, x
        <5>. QED
          BY <3>1, <4>3, <5>1, <5>2
      <4>. QED
        BY <2>6, <3>2, <4>1, <4>2, <4>3
    <3>. QED
      BY <3>2 DEF InOrder
  <2>13. WellFormed'
    <3>1. ASSUME NEW u, NEW v PROVE Follows(u, v)' = Follows(u, v)
      BY DEF Follows
    <3>2. w.kind = "head" <=> a.i = 0
      BY <1>1, <2>0, WordFacts DEF w
    <3>3. Entry(a).k = (w.kind # "body")
      BY <1>1, <2>0, <2>2 DEF w, CmdWord
    <3>4. ASSUME NEW f \in Feb
          PROVE  /\ sent'[f] # <<>> => sent'[f][1].word.kind = "head"
                 /\ \A n \in 1..Len(sent'[f]) : /\ f \in cmds[sent'[f][n].word.id].to
                                                /\ sent'[f][n].k = (sent'[f][n].word.kind # "body")
                 /\ \A n \in 1..Len(sent'[f])-1 : Follows(sent'[f][n].word, sent'[f][n+1].word)
      <4>1. CASE f \notin x.to
        BY SMTT(30), <2>8, <4>1 DEF WellFormed
      <4>2. CASE f \in x.to
        <5>1. sent'[f][1].word.kind = "head"
          <6>1. CASE sent[f] = <<>>
            BY <2>0, <2>2, <2>6, <2>10, <3>2, <4>2, <6>1
          <6>2. CASE sent[f] # <<>>
            BY <2>6, <4>2, <6>2, LastTyped DEF WellFormed
          <6>. QED
            BY <6>1, <6>2
        <5>2. ASSUME NEW n \in 1..Len(sent'[f])
              PROVE  /\ f \in cmds[sent'[f][n].word.id].to
                     /\ sent'[f][n].k = (sent'[f][n].word.kind # "body")
          <6>1. CASE n \in 1..Len(sent[f])
            BY <2>6, <4>2, <6>1 DEF WellFormed
          <6>2. CASE n = Len(sent[f]) + 1
            BY <2>0, <2>2, <2>6, <3>3, <4>2, <6>2 DEF x
          <6>. QED
            BY <2>6, <4>2, <5>2, <6>1, <6>2
        <5>3. ASSUME NEW n \in 1..Len(sent'[f])-1
              PROVE  Follows(sent'[f][n].word, sent'[f][n+1].word)
          <6>1. n \in 1..Len(sent[f]) /\ sent'[f][n] = sent[f][n] /\ Len(sent[f]) \in Nat
            BY <2>6, <4>2, <5>3
          <6>2. CASE n < Len(sent[f])
            <7>1. n \in 1..Len(sent[f])-1 /\ n + 1 \in 1..Len(sent[f])
              BY <6>1, <6>2
            <7>2. sent'[f][n+1] = sent[f][n+1]
              BY <2>6, <4>2, <7>1
            <7>. QED
              BY <6>1, <7>1, <7>2 DEF WellFormed
          <6>3. CASE n = Len(sent[f])
            <7>1. sent[f] # <<>> /\ sent[f][n].word = LastOf(f) /\ sent'[f][n+1].word = w
              BY <2>2, <2>6, <4>2, <6>1, <6>3, SeqNonEmpty DEF LastOf
            <7>2. Follows(LastOf(f), w)
              <8>1. CASE a.i = 0
                BY <2>0, <2>9, <3>2, <4>2, <7>1, <8>1 DEF Follows
              <8>2. CASE a.i > 0
                <9>1. LastOf(f) = CmdWord(x, a.id, a.i - 1) /\ a.i - 1 \in Nat /\ a.i - 1 # LastIdx(x)
                  BY <1>1, <2>0, <2>9, <4>2, <7>1, <8>2, SMTT(30)
                <9>2. LastOf(f).kind # "tail" /\ LastOf(f).id = a.id /\ LastOf(f).i + 1 = a.i
                  BY <1>1, <9>1, WordFacts
                <9>. QED
                  BY <9>2 DEF Follows, w, x
              <8>. QED
                BY <2>0, <8>1, <8>2
            <7>. QED
              BY <6>1, <7>1, <7>2
          <6>. QED
            BY <6>1, <6>2, <6>3
        <5>. QED
          BY <5>1, <5>2, <5>3
      <4>. QED
        BY <4>1, <4>2
    <3>. QED
      BY <3>1, <3>4 DEF WellFormed
  <2>. QED
    BY <2>11, <2>12, <2>13
<1>. QED
  BY <1>1, <1>3, <1>4 DEF Places

LEMMA Popped ==
  ASSUME SType, SType', Stored, Streams, InOrder, WellFormed, FifoReadProcess
  PROVE  Streams' /\ InOrder' /\ WellFormed'
<1>1. /\ fifo # <<>> /\ fifo' = Tail(fifo)
      /\ UNCHANGED <<exited, restarts, cut, cmds, mem, reads, writer>>
      /\ IF "mask" \in DOMAIN Head(fifo)
         THEN wren_mask' = (wren_mask \ Head(fifo).half) \cup Head(fifo).mask /\ UNCHANGED sent
         ELSE /\ sent' = [f \in Feb |-> IF f \in wren_mask THEN Append(sent[f], Head(fifo)) ELSE sent[f]]
              /\ UNCHANGED wren_mask
  BY DEF FifoReadProcess
<1>2. PICK q : InFifo(q) /\ Reads(q[1])
  BY DEF Streams
<1>3. PICK W : W = Writes /\ W = Writes' /\ W \in Places
  BY <1>1, WritesType DEF Writes, writer
<1>4. PICK N : /\ N \in Nat \ {0} /\ N = Len(fifo) /\ Len(fifo') = N - 1 /\ Head(fifo) = fifo[1]
               /\ \A n \in 1..N-1 : fifo'[n] = fifo[n+1]
  <2>1. fifo \in Seq(Entries) /\ Len(fifo) \in Nat \ {0}
    BY <1>1, EmptySeq DEF SType
  <2>. QED
    BY <1>1, <2>1, HeadTailProperties
<1>5. /\ q \in [1..N+1 -> Places] /\ q[N+1] = W
      /\ \A n \in 1..N : /\ q[n].id \in 1..Len(cmds) /\ q[n].i \in -2..LastIdx(cmds[q[n].id])
                         /\ fifo[n] = Entry(q[n]) /\ Then(q[n], q[n+1])
  BY <1>2, <1>3, <1>4 DEF InFifo, Places
<1>6. PICK a, b : /\ a = q[1] /\ b = q[2] /\ a \in Places /\ b \in Places
                  /\ a.id \in 1..Len(cmds) /\ a.i \in -2..LastIdx(cmds[a.id]) /\ Then(a, b)
                  /\ Head(fifo) = Entry(a)
  <2>1. 1 \in 1..N /\ 1 \in 1..N+1 /\ 2 \in 1..N+1 /\ 1 + 1 = 2
    BY <1>4
  <2>. QED
    BY <1>4, <1>5, <2>1
<1>7. Reads(b)' /\ InOrder' /\ WellFormed'
  BY <1>1, <1>2, <1>6, ReadOn
<1>8. PICK p : p \in [1..N -> Places] /\ \A n \in 1..N : p[n] = q[n+1]
  <2>. DEFINE r == [n \in 1..N |-> q[n+1]]
  <2>1. \A n \in 1..N : n + 1 \in 1..N+1
    BY <1>4
  <2>2. r \in [1..N -> Places] /\ \A n \in 1..N : r[n] = q[n+1]
    BY <1>5, <2>1
  <2>. QED
    BY <2>2
<1>9. ASSUME NEW n \in 1..N-1
      PROVE  /\ p[n].id \in 1..Len(cmds) /\ p[n].i \in -2..LastIdx(cmds[p[n].id])
             /\ fifo'[n] = Entry(p[n]) /\ Then(p[n], p[n+1])
  <2>1. n \in 1..N /\ n + 1 \in 1..N
    BY <1>4, <1>9
  <2>2. p[n] = q[n+1] /\ p[n+1] = q[(n+1)+1] /\ fifo'[n] = fifo[n+1]
    BY <1>4, <1>8, <1>9, <2>1
  <2>. QED
    BY <1>5, <2>1, <2>2
<1>10. InFifo(p)'
  <2>1. \A c : Entry(c)' = Entry(c) /\ \A d : Then(c, d)' = Then(c, d)
    BY <1>1 DEF Entry, Then, Fits
  <2>2. Len(fifo') + 1 = N /\ N \in 1..N
    BY <1>4
  <2>3. p[N] = Writes'
    BY <1>3, <1>5, <1>8, <2>2
  <2>. QED
    BY <1>1, <1>4, <1>8, <1>9, <2>1, <2>2, <2>3 DEF InFifo, Places
<1>11. p[1] = b
  <2>1. 1 \in 1..N /\ 1 + 1 = 2
    BY <1>4
  <2>. QED
    BY <1>6, <1>8, <2>1
<1>. QED
  BY <1>7, <1>10, <1>11 DEF Streams

\* A command of which a link does not have the last word is cut by a restart.
LEMMA Restarted ==
  ASSUME SType, SType', InOrder, WellFormed, Restart
  PROVE  Streams' /\ InOrder' /\ WellFormed'
<1>1. /\ UNCHANGED <<cmds, sent>> /\ state' = "idle" /\ fifo' = <<>> /\ Len(cmds) \in Nat
      /\ cut' = cut \cup {id \in 1..Len(cmds) : \E f \in cmds[id].to :
                            ~\E n \in 1..Len(sent[f]) : sent[f][n].word = LastWord(id)}
  BY LenProperties DEF Restart, SType
<1>2. InOrder' /\ WellFormed'
  <2>1. InOrder'
    BY <1>1 DEF InOrder
  <2>2. \A u, w : Follows(u, w) => Follows(u, w)'
    BY <1>1 DEF Follows
  <2>. QED
    BY <1>1, <2>1, <2>2 DEF WellFormed
<1>3. PICK W : W = Writes' /\ W \in Places /\ W.i = -2 /\ W.id = Len(cmds) + 1
  <2>1. Writes' = At(Len(cmds) + 1, -2)
    BY <1>1 DEF Writes
  <2>. QED
    BY <1>1, <2>1 DEF At, Places
<1>4. PICK p : p \in [1..1 -> Places] /\ p[1] = W
  <2>. DEFINE r == [n \in 1..1 |-> W]
  <2>1. r \in [1..1 -> Places] /\ r[1] = W
    BY <1>3
  <2>. QED
    BY <2>1
<1>5. InFifo(p)'
  <2>1. Len(fifo') = 0
    BY <1>1, EmptySeq
  <2>2. 0 + 1 = 1 /\ 1..0 = {}
    OBVIOUS
  <2>. QED
    BY <1>3, <1>4, <2>1, <2>2 DEF InFifo, Places
<1>6. ASSUME NEW f \in Feb, sent[f] # <<>>
      PROVE  LastOf(f).id < W.id /\ (LastOf(f).kind = "tail" \/ LastOf(f).id \in cut')
  <2>. DEFINE u == LastOf(f)  k == Len(sent[f])
  <2>1. k \in 1..k /\ k \in Nat /\ u.id \in Nat /\ u.i \in Nat /\ u = sent[f][k].word
    BY <1>6, LastTyped DEF LastOf
  <2>2. u.id \in 1..Len(cmds) /\ u.i \in 0..LastIdx(cmds[u.id]) /\ u = CmdWord(cmds[u.id], u.id, u.i)
    BY <1>6, <2>1 DEF InOrder
  <2>3. f \in cmds[u.id].to
    BY <1>6, <2>1 DEF WellFormed
  <2>4. ASSUME u.id \notin cut' PROVE u.kind = "tail"
    <3>1. PICK n \in 1..k : sent[f][n].word = LastWord(u.id)
      BY <1>1, <2>2, <2>3, <2>4
    <3>2. cmds[u.id] \in Cmd /\ u.id \in 0..MaxCmds
      BY <2>2, CmdOf
    <3>3. LastIdx(cmds[u.id]) \in Nat
      BY <3>2, CmdFacts
    <3>4. LastWord(u.id).kind = "tail" /\ LastWord(u.id).id = u.id /\ LastWord(u.id).i = LastIdx(cmds[u.id])
      BY <3>2, <3>3, WordFacts DEF LastWord
    <3>. HIDE DEF u, k
    <3>5. CASE n = k
      BY <2>1, <3>1, <3>4, <3>5
    <3>6. CASE n # k
      <4>1. n \in 1..k-1
        BY <2>1, <3>6
      <4>2. Before(sent[f][n].word, sent[f][k].word)
        BY <2>1, <4>1 DEF InOrder, k
      <4>3. Before(LastWord(u.id), u)
        BY <2>1, <3>1, <4>2
      <4>. QED
        BY <2>1, <2>2, <3>3, <3>4, <4>3 DEF Before
    <3>. QED
      BY <3>5, <3>6
  <2>. HIDE DEF u
  <2>5. u.id < W.id
    BY <1>1, <1>3, <2>2
  <2>. QED
    BY <2>4, <2>5 DEF u
<1>7. Reads(W)'
  <2>1. ASSUME NEW f \in Feb, sent'[f] # <<>>
        PROVE  LastOf(f)'.id < W.id /\ (LastOf(f)'.kind = "tail" \/ LastOf(f)'.id \in cut')
    BY <1>1, <1>6, <2>1 DEF LastOf
  <2>2. ASSUME NEW id \in 1..Len(cmds') \ cut', NEW f \in cmds'[id].to
        PROVE  \E n \in 1..Len(sent'[f]) : sent'[f][n].word = LastWord(id)'
    BY <1>1, <2>2 DEF LastWord
  <2>. QED
    BY <1>3, <2>1, <2>2 DEF Reads
<1>. QED
  BY <1>2, <1>4, <1>5, <1>7 DEF Streams

LEMMA OrderStays ==
  ASSUME SType, Grows, UNCHANGED <<sent, cut>>, InOrder, WellFormed
  PROVE  InOrder' /\ WellFormed'
<1>1. ASSUME NEW f \in Feb, NEW n \in 1..Len(sent[f])
      PROVE  sent[f][n].word.id \in 1..Len(cmds') /\ cmds'[sent[f][n].word.id] = cmds[sent[f][n].word.id]
  BY DEF InOrder, Grows
<1>2. InOrder'
  BY <1>1 DEF InOrder
<1>3. ASSUME NEW f \in Feb, NEW n \in 1..Len(sent[f])-1
      PROVE  Follows(sent[f][n].word, sent[f][n+1].word)'
  <2>1. n \in 1..Len(sent[f])
    BY LenProperties DEF SType
  <2>2. cmds'[sent[f][n].word.id] = cmds[sent[f][n].word.id]
    BY <1>1, <2>1
  <2>3. Follows(sent[f][n].word, sent[f][n+1].word)
    BY DEF WellFormed
  <2>. QED
    BY <2>2, <2>3 DEF Follows
<1>4. WellFormed'
  BY <1>1, <1>3 DEF WellFormed
<1>. QED
  BY <1>2, <1>4

LEMMA IssueStreams ==
  ASSUME SType, Stored, SType', Stored', Streams, InOrder, WellFormed, NEW x \in Cmd, Issue(x)
  PROVE  Streams' /\ InOrder' /\ WellFormed'
<1>1. /\ cmds' = Append(cmds, x) /\ state = "idle" /\ exited' = (LastIdx(x) > MemLen)
      /\ UNCHANGED <<cut, fifo, wren_mask, sent>>
      /\ exited' => state' = "idle"
      /\ ~exited' => state' = "request_header"
  BY DEF Issue
<1>2. PICK c : /\ c = Len(cmds) /\ c \in Nat /\ Len(cmds') = c + 1 /\ cmds'[c + 1] = x
               /\ \A id \in 1..c : cmds'[id] = cmds[id]
  <2>1. /\ Len(cmds) \in Nat /\ Len(cmds') = Len(cmds) + 1 /\ cmds'[Len(cmds) + 1] = x
        /\ \A id \in 1..Len(cmds) : cmds'[id] = cmds[id]
    BY <1>1, AppendProperties, LenProperties DEF SType
  <2>. QED
    BY <2>1
<1>3. Grows
  BY <1>2 DEF Grows
<1>4. Writes = At(c + 1, -2)
  BY <1>1, <1>2, WritesIs
<1>5. CASE exited'
  <2>1. Writes' = At(c + 2, -2)
    BY <1>1, <1>2, <1>5 DEF Writes
  <2>2. ~Fits(c + 1)'
    <3>1. LastIdx(x) > MemLen
      BY <1>1, <1>5, Zenon
    <3>. QED
      BY <1>2, <3>1, CmdFacts, SizeFacts DEF Fits
  <2>3. \A id \in 1..Len(cmds') : Writes.id <= id /\ id < Writes'.id => ~Fits(id)'
    <3>1. Writes.id = c + 1
      BY <1>4 DEF At
    <3>2. ASSUME NEW id \in 1..Len(cmds'), Writes.id <= id PROVE ~Fits(id)'
      <4>1. id = c + 1
        BY <1>2, <3>1, <3>2
      <4>. QED
        BY <2>2, <4>1
    <3>. QED
      BY <3>2
  <2>4. Writes.i = -2 /\ Writes'.i = -2 /\ Writes'.id > Writes.id
    BY <1>2, <1>4, <2>1 DEF At
  <2>. QED
    BY <1>1, <1>3, <2>3, <2>4, Moved, OrderStays
<1>6. CASE ~exited'
  <2>1. Writes' = At(c + 1, -2)
    BY <1>1, <1>2, <1>6 DEF Writes, InBody
  <2>. QED
    BY <1>1, <1>2, <1>3, <1>4, <2>1, Moved, OrderStays
<1>. QED
  BY <1>5, <1>6

LEMMA WriteStreams ==
  ASSUME SType, Stored, Addressed, Latched, SType', Stored', Streams, WriteProcess
  PROVE  Streams'
<1>1. ASSUME NEW s, Edge(s) PROVE state = s /\ UNCHANGED <<cmds, cut, wren_mask, sent>>
  BY <1>1 DEF Edge
<1>2. UNCHANGED <<cmds, cut, wren_mask, sent>>
  BY DEF WriteProcess, Idle, CheckHeader, SetFpgaId, EmitHeader, LatchWord, EmitWord, Request, Push, Edge
<1>3. Grows
  BY <1>2, LenProperties, SMTT(30) DEF Grows, SType
<1>4. CASE Idle \/ Request("request_header", "check_header") \/ Request("request_word", "latch_word")
           \/ LatchWord
  <2>1. /\ UNCHANGED <<fifo, tx_word_idx>>
        /\ \/ state = "idle" /\ state' = "idle"
           \/ state = "request_header" /\ state' = "check_header"
           \/ state = "request_word" /\ state' = "latch_word"
           \/ state = "latch_word" /\ state' = "emit_word"
    BY <1>4 DEF Idle, Request, LatchWord, Edge
  <2>2. Writes' = Writes
    BY <1>2, <2>1 DEF Writes, InBody
  <2>. QED
    BY <1>2, <1>3, <2>1, <2>2, Moved
<1>5. CASE CheckHeader
  <2>1. /\ state = "check_header" /\ UNCHANGED fifo
        /\ i_mem_data.kind = "head" => state' = "set_fpga_id1"
        /\ i_mem_data.kind # "head" => state' = "idle"
    BY <1>5 DEF CheckHeader, Edge
  <2>2. Writes = At(Len(cmds), -2)
    BY <2>1, WritesIs
  <2>3. CASE i_mem_data.kind = "head"
    <3>1. Writes' = Writes
      BY <1>2, <2>1, <2>2, <2>3 DEF Writes, InBody
    <3>. QED
      BY <1>2, <1>3, <2>1, <3>1, Moved
  <2>4. CASE i_mem_data.kind # "head"
    <3>1. Writes' = At(Len(cmds) + 1, -2)
      BY <1>2, <2>1, <2>4 DEF Writes
    <3>2. PICK c : c \in Nat /\ c = Len(cmds) /\ Len(cmds') = c /\ ~Fits(c)'
      BY <1>2, <1>3, <2>1, <2>4, HeaderRead DEF Fits, Grows
    <3>3. \A id \in 1..Len(cmds') : Writes.id <= id /\ id < Writes'.id => ~Fits(id)'
      <4>1. Writes.id = c
        BY <2>2, <3>2 DEF At
      <4>2. ASSUME NEW id \in 1..Len(cmds'), Writes.id <= id PROVE ~Fits(id)'
        <5>1. id = c
          BY <3>2, <4>1, <4>2
        <5>. QED
          BY <3>2, <5>1
      <4>. QED
        BY <4>2
    <3>4. Writes.i = -2 /\ Writes'.i = -2 /\ Writes'.id > Writes.id
      BY <2>2, <3>1, <3>2 DEF At
    <3>. QED
      BY <1>2, <1>3, <2>1, <3>3, <3>4, Moved
  <2>. QED
    BY <2>3, <2>4
<1>6. ASSUME UNCHANGED <<state, fifo, tx_word_idx>> PROVE Streams'
  <2>1. Writes' = Writes
    BY <1>2, <1>6 DEF Writes
  <2>. QED
    BY <1>2, <1>3, <1>6, <2>1, Moved
<1>7. state \in Sending => /\ Len(cmds) \in 1..Len(cmds) /\ This = cmds[Len(cmds)]
                           /\ LastIdx(This) \in Nat /\ LastIdx(This) >= 3 /\ Fits(Len(cmds))
  BY ThisFacts DEF Stored, Sending, This
<1>8. ASSUME NEW i \in Int, NEW e, state \in Sending, Writes = At(Len(cmds), i), i \in -2..LastIdx(This),
             Entry(At(Len(cmds), i)) = e, fifo' = Append(fifo, e),
             \/ i < LastIdx(This) /\ Writes' = At(Len(cmds), i + 1)
             \/ i = LastIdx(This) /\ Writes' = At(Len(cmds) + 1, -2)
      PROVE  Streams'
  <2>1. Writes.id = Len(cmds) /\ Writes.i = i /\ Writes.id \in 1..Len(cmds)
        /\ Writes.i \in -2..LastIdx(cmds[Writes.id]) /\ fifo' = Append(fifo, Entry(Writes))
    BY <1>7, <1>8 DEF At
  <2>2. Then(Writes, Writes')
    <3>1. CASE i < LastIdx(This) /\ Writes' = At(Len(cmds), i + 1)
      BY <1>7, <1>8, <2>1, <3>1 DEF Then
    <3>2. CASE i = LastIdx(This) /\ Writes' = At(Len(cmds) + 1, -2)
      <4>1. Writes'.i = -2 /\ Writes'.id = Len(cmds) + 1 /\ Len(cmds) \in Nat
        BY <1>3, <3>2 DEF At, Grows
      <4>2. \A id \in 1..Len(cmds) : ~(Len(cmds) < id)
        BY <4>1
      <4>. QED
        BY <1>7, <1>8, <2>1, <3>2, <4>1, <4>2 DEF Then
    <3>. QED
      BY <1>8, <3>1, <3>2
  <2>. QED
    BY <1>2, <2>1, <2>2, Pushed
<1>9. CASE SetFpgaId
  <2>1. CASE fifo_full
    BY <1>6, <1>9, <2>1 DEF SetFpgaId, Push
  <2>2. CASE ~fifo_full
    <3>1. CASE state = "set_fpga_id1"
      <4>1. /\ state' = "set_fpga_id2" /\ wren_mask_wr = This.to
            /\ fifo' = Append(fifo, MaskEntry(Feb \ HighFeb, wren_mask_wr \ HighFeb))
        BY <1>9, <2>2, <3>1 DEF SetFpgaId, Push, Edge, Latched
      <4>2. Writes = At(Len(cmds), -2) /\ Writes' = At(Len(cmds), -1) /\ state \in Sending
        BY <1>2, <3>1, <4>1, WritesIs DEF Writes, Sending, InBody
      <4>3. Entry(At(Len(cmds), -2)) = MaskEntry(Feb \ HighFeb, wren_mask_wr \ HighFeb)
        BY <4>1 DEF Entry, At, This
      <4>. QED
        BY <1>7, <1>8, <4>1, <4>2, <4>3
    <3>2. CASE state # "set_fpga_id1"
      <4>1. /\ state = "set_fpga_id2" /\ state' = "emit_header" /\ wren_mask_wr = This.to
            /\ fifo' = Append(fifo, MaskEntry(HighFeb, wren_mask_wr \cap HighFeb))
        BY <1>9, <2>2, <3>2 DEF SetFpgaId, Push, Edge, Latched
      <4>2. Writes = At(Len(cmds), -1) /\ Writes' = At(Len(cmds), 0) /\ state \in Sending
        BY <1>2, <4>1, WritesIs DEF Writes, Sending, InBody
      <4>3. Entry(At(Len(cmds), -1)) = MaskEntry(HighFeb, wren_mask_wr \cap HighFeb)
        BY <4>1 DEF Entry, At, This
      <4>. QED
        BY <1>7, <1>8, <4>1, <4>2, <4>3
    <3>. QED
      BY <3>1, <3>2
  <2>. QED
    BY <2>1, <2>2
<1>10. CASE EmitHeader
  <2>1. CASE fifo_full
    BY <1>6, <1>10, <2>1 DEF EmitHeader, Push
  <2>2. CASE ~fifo_full
    <3>1. /\ state = "emit_header" /\ state' = "latch_word" /\ header_word = ThisWord(0)
          /\ fifo' = Append(fifo, WordEntry(header_word, TRUE)) /\ tx_word_idx' = 1
      BY <1>10, <2>2 DEF EmitHeader, Push, Edge, Latched, Addressed
    <3>2. Writes = At(Len(cmds), 0) /\ Writes' = At(Len(cmds), 0 + 1) /\ state \in Sending
      BY <1>2, <3>1, WritesIs DEF Writes, Sending, InBody
    <3>3. Entry(At(Len(cmds), 0)) = WordEntry(ThisWord(0), TRUE)
      <4>1. Entry(At(Len(cmds), 0)) = WordEntry(ThisWord(0), 0 \in {0, LastIdx(This)})
        BY DEF Entry, At, ThisWord, This
      <4>2. (0 \in {0, LastIdx(This)}) = TRUE
        OBVIOUS
      <4>. QED
        BY <4>1, <4>2, Zenon
    <3>4. 0 \in Int /\ 0 \in -2..LastIdx(This) /\ 0 < LastIdx(This)
      BY <1>7, <3>2
    <3>. QED
      BY <1>8, <3>1, <3>2, <3>3, <3>4
  <2>. QED
    BY <2>1, <2>2
<1>11. CASE EmitWord
  <2>1. CASE fifo_full
    BY <1>6, <1>11, <2>1 DEF EmitWord, Push
  <2>2. CASE ~fifo_full
    <3>1. /\ state = "emit_word" /\ fifo' = Append(fifo, WordEntry(body_word, body_last))
          /\ body_word = ThisWord(tx_word_idx) /\ body_last = (tx_word_idx = LastIdx(This))
          /\ tx_word_idx \in 1..LastIdx(This) /\ state \in Sending
          /\ body_last => state' = "idle"
          /\ ~body_last => state' = "request_word" /\ tx_word_idx' = Wrap(tx_word_idx + 1)
      BY <1>11, <2>2 DEF EmitWord, Push, Edge, Latched, InBody, Sending
    <3>2. Entry(At(Len(cmds), tx_word_idx)) = WordEntry(body_word, body_last)
      <4>1. Entry(At(Len(cmds), tx_word_idx))
              = WordEntry(ThisWord(tx_word_idx), tx_word_idx \in {0, LastIdx(This)})
        BY <1>7, <3>1 DEF Entry, At, ThisWord, This
      <4>2. (tx_word_idx \in {0, LastIdx(This)}) = (tx_word_idx = LastIdx(This))
        BY <1>7, <3>1
      <4>. QED
        BY <3>1, <4>1, <4>2, Zenon
    <3>3. Writes = At(Len(cmds), tx_word_idx)
      BY <3>1, WritesIs DEF InBody
    <3>4. tx_word_idx \in Int /\ tx_word_idx \in -2..LastIdx(This)
      BY <1>7, <3>1
    <3>5. CASE body_last
      <4>1. tx_word_idx = LastIdx(This) /\ Writes' = At(Len(cmds) + 1, -2)
        BY <1>2, <3>1, <3>5 DEF Writes
      <4>. QED
        BY <1>8, <3>1, <3>2, <3>3, <3>4, <4>1
    <3>6. CASE ~body_last
      <4>1. tx_word_idx < LastIdx(This) /\ tx_word_idx + 1 \in Nat /\ tx_word_idx + 1 < MemLen
        <5>1. tx_word_idx # LastIdx(This)
          BY <3>1, <3>6, Zenon
        <5>. QED
          BY <1>7, <3>1, <5>1, SizeFacts DEF Fits, This
      <4>2. tx_word_idx' = tx_word_idx + 1 /\ state' = "request_word"
        BY <3>1, <3>6, <4>1, WrapIs
      <4>3. Writes' = At(Len(cmds), tx_word_idx + 1)
        BY <1>2, <4>2 DEF Writes, InBody
      <4>. QED
        BY <1>8, <3>1, <3>2, <3>3, <3>4, <4>1, <4>3
    <3>. QED
      BY <3>5, <3>6
  <2>. QED
    BY <2>1, <2>2
<1>. QED
  BY <1>4, <1>5, <1>9, <1>10, <1>11 DEF WriteProcess

-----------------------------------------------------------------------------
(* Every step keeps the invariant. *)

LEMMA SInvInit == Init => SInv
<1>. SUFFICES ASSUME Init PROVE SInv
  OBVIOUS
<1>1. SType
  BY TypeInit
<1>2. /\ state = "idle" /\ o_done = FALSE /\ mem_addr = 0 /\ cmds = <<>> /\ fifo = <<>>
      /\ \A f \in Feb : sent[f] = <<>>
  BY DEF Init
<1>3. Stored /\ Addressed /\ Latched
  BY <1>2 DEF Stored, Addressed, Latched, InBody
<1>4. Len(cmds) = 0 /\ Len(fifo) = 0 /\ \A f \in Feb : Len(sent[f]) = 0
  BY <1>2, EmptySeq
<1>5. InOrder /\ WellFormed
  BY <1>2, <1>4 DEF InOrder, WellFormed
<1>6. PICK W : W = Writes /\ W \in Places /\ W.id = 1 /\ W.i = -2
  <2>1. Writes = At(1, -2)
    BY <1>2, <1>4, WritesIs
  <2>. QED
    BY <2>1 DEF At, Places
<1>7. PICK q : q \in [1..1 -> Places] /\ q[1] = W
  <2>. DEFINE r == [n \in 1..1 |-> W]
  <2>1. r \in [1..1 -> Places] /\ r[1] = W
    BY <1>6
  <2>. QED
    BY <2>1
<1>8. InFifo(q)
  BY <1>4, <1>6, <1>7 DEF InFifo, Places
<1>9. Reads(W)
  BY <1>2, <1>4, <1>6 DEF Reads
<1>. QED
  BY <1>1, <1>3, <1>5, <1>7, <1>8, <1>9 DEF SInv, Streams

LEMMA SInvNext == SInv /\ [Next]_vars => SInv'
<1>. SUFFICES ASSUME SInv, [Next]_vars PROVE SInv'
  OBVIOUS
<1>1. SType /\ Stored /\ Addressed /\ Latched /\ Streams /\ InOrder /\ WellFormed
  BY DEF SInv
<1>2. ASSUME NEW x \in Cmd, Issue(x) PROVE SInv'
  <2>1. SType' /\ Stored' /\ Addressed' /\ Latched'
    BY <1>1, <1>2, TypeOfIssue, IssueStores
  <2>2. Streams' /\ InOrder' /\ WellFormed'
    BY <1>1, <1>2, <2>1, IssueStreams
  <2>. QED
    BY <2>1, <2>2 DEF SInv
<1>3. CASE WriteProcess
  <2>1. SType' /\ Stored' /\ Addressed' /\ Latched'
    BY <1>1, <1>3, TypeOfWrite, WriteKnows
  <2>2. Streams'
    BY <1>1, <1>3, <2>1, WriteStreams
  <2>3. UNCHANGED <<cmds, sent, cut>>
    BY <1>3 DEF WriteProcess, Idle, CheckHeader, SetFpgaId, EmitHeader, LatchWord, EmitWord, Request,
                Push, Edge
  <2>4. Grows
    BY <1>1, <2>3, LenProperties DEF Grows, SType
  <2>5. InOrder' /\ WellFormed'
    BY <1>1, <2>3, <2>4, OrderStays
  <2>. QED
    BY <2>1, <2>2, <2>5 DEF SInv
<1>4. CASE FifoReadProcess
  <2>1. SType'
    BY <1>1, <1>4, TypeOfRead
  <2>2. UNCHANGED <<exited, cmds, mem, reads, writer>>
    BY <1>4 DEF FifoReadProcess
  <2>3. Stored' /\ Addressed' /\ Latched'
    BY <1>1, <2>2 DEF writer, Stored, Addressed, Latched, This, ThisWord, Fits
  <2>4. Streams' /\ InOrder' /\ WellFormed'
    BY <1>1, <1>4, <2>1, Popped
  <2>. QED
    BY <2>1, <2>3, <2>4 DEF SInv
<1>5. CASE Restart
  <2>1. SType'
    BY <1>1, <1>5, TypeOfRestart
  <2>2. state' = "idle" /\ o_done' = FALSE
    BY <1>5 DEF Restart
  <2>3. Stored' /\ Addressed' /\ Latched'
    BY <2>2 DEF Stored, Addressed, Latched, InBody
  <2>4. Streams' /\ InOrder' /\ WellFormed'
    BY <1>1, <1>5, <2>1, Restarted
  <2>. QED
    BY <2>1, <2>3, <2>4 DEF SInv
<1>6. CASE UNCHANGED vars
  <2>1. /\ UNCHANGED <<exited, restarts, cut, cmds, mem, reads, fifo, wren_mask, sent>>
        /\ UNCHANGED <<state, o_done, mem_addr, length, tx_word_idx, wren_mask_wr, header_word, body_word,
                       body_last>>
    BY <1>6 DEF vars, writer
  <2>2. SType' /\ Stored' /\ Addressed' /\ Latched'
    BY <1>1, <2>1 DEF SType, Stored, Addressed, Latched, This, ThisWord, Fits
  <2>3. Grows
    BY <1>1, <2>1, LenProperties DEF Grows, SType
  <2>4. InOrder' /\ WellFormed'
    BY <1>1, <2>1, <2>3, OrderStays
  <2>5. Writes' = Writes
    BY <2>1 DEF Writes
  <2>6. Streams'
    BY <1>1, <2>1, <2>2, <2>3, <2>5, Moved
  <2>. QED
    BY <2>2, <2>4, <2>6 DEF SInv
<1>. QED
  BY <1>2, <1>3, <1>4, <1>5, <1>6 DEF Next

\* The inductive invariant: what the write process has of its command, and that the entries of
\* the FIFO are what comes, in the commands, between the words on the links and that.
THEOREM Invariance == Spec => []SInv
<1>. QED
  BY SInvInit, SInvNext, PTL DEF Spec

-----------------------------------------------------------------------------
(* What the runs check of ScMain. *)

\* Type correctness of the memory, the processes, the FIFO and the links; the FIFO is never
\* asked to hold more than the room it has.
THEOREM TypeCorrect == Spec => []TypeOK
<1>1. SInv => TypeOK
  BY DEF SInv, SType, TypeOK
<1>. QED
  BY <1>1, Invariance, PTL

\* A link carries whole commands, one after the other and in the order they were issued, each
\* from its preamble to its trailer and with these two marked, unless a restart cut it: whatever
\* the sizes of the commands, of the memory and of the FIFO and however the two processes of
\* swb_sc_main interleave.
THEOREM WellFormedHolds == Spec => []WellFormed
<1>1. SInv => WellFormed
  BY DEF SInv
<1>. QED
  BY <1>1, Invariance, PTL

\* Where the memory holds every command that is issued, its trailer included, SC main drops
\* none: idle with an empty FIFO, each link has its commands up to the trailer, but for those
\* a restart cut. The code does not check the size; a command that overwrites its own preamble
\* is what the hypothesis leaves out.
THEOREM NothingDroppedHolds ==
  (\A s \in Size : s + 3 < MemLen) => (Spec => []NothingDropped)
<1>. SUFFICES ASSUME \A s \in Size : s + 3 < MemLen PROVE Spec => []NothingDropped
  OBVIOUS
<1>1. SInv => NothingDropped
  <2>. SUFFICES ASSUME SInv, state = "idle", fifo = <<>>
       PROVE  \A id \in 1..Len(cmds) \ cut : \A f \in cmds[id].to :
                \E n \in 1..Len(sent[f]) : sent[f][n].word = LastWord(id)
    BY DEF NothingDropped
  <2>1. SType /\ Streams
    BY DEF SInv
  <2>2. PICK q : InFifo(q) /\ Reads(q[1])
    BY <2>1 DEF Streams
  <2>3. q[1] = Writes
    <3>1. Len(fifo) = 0 /\ 0 + 1 = 1
      BY EmptySeq
    <3>. QED
      BY <2>2, <3>1 DEF InFifo
  <2>4. q[1].id = Len(cmds) + 1 /\ Len(cmds) \in Nat
    BY <2>1, <2>3, WritesIs, LenProperties DEF At, SType
  <2>5. ASSUME NEW id \in 1..Len(cmds) PROVE Fits(id) /\ id < q[1].id
    <3>1. cmds[id] \in Cmd
      BY <2>1, <2>5, CmdOf
    <3>2. cmds[id].size \in Size /\ cmds[id].size \in Nat /\ LastIdx(cmds[id]) = cmds[id].size + 3
      BY <3>1, CmdFacts, SizeFacts DEF Cmd
    <3>. QED
      BY <2>4, <2>5, <3>2, SizeFacts DEF Fits
  <2>. QED
    BY <2>2, <2>5 DEF Reads
<1>. QED
  BY <1>1, Invariance, PTL

=============================================================================
