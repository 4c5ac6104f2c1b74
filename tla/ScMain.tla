------------------------------ MODULE ScMain ------------------------------
(***************************************************************************)
(* How a command gets from FEB_write to the links, word by word: the RW    *)
(* memory of the PCIe card, swb_sc_main, which reads it back with the      *)
(* latency of the RAM and appends it to its FIFO, and the process behind   *)
(* the FIFO, which strips the link mask and drives the links.              *)
(***************************************************************************)
EXTENDS Integers, SequencesExt

CONSTANTS
  Feb,        \* links
  HighFeb,    \* those with a bit in the upper half of the mask
  MemLen,     \* words of RW memory (2^16): its addresses and i_length wrap there
  Size,       \* the data sizes FEB_write is called with; 0 stands for FEB_read
  RamStages,  \* clock cycles from o_mem_addr to i_mem_data (2: g_RDATA1_REG)
  FifoRoom,   \* words in the FIFO before o_almost_full
  MaxCmds,    \* bound: commands issued
  MaxRestarts \* bound: restarts of the program

ASSUME MemAssumption == MemLen \in Nat /\ MemLen >= 8
ASSUME SizeAssumption == Size \subseteq 0..MemLen-1
ASSUME FebAssumption == HighFeb \subseteq Feb
ASSUME RamAssumption == RamStages \in 1..2
ASSUME RoomAssumption == FifoRoom \in Nat \ {0}
ASSUME BoundAssumption == MaxCmds \in Nat /\ MaxRestarts \in Nat

VARIABLES
  exited,      \* write_memory_rw ended the program: invalid memory address
  restarts,    \* history: restarts of the program
  cut,         \* history: commands a reset interrupted
  cmds,        \* history: the commands issued
  mem,         \* RW memory
  reads,       \* addresses whose data are in the RAM pipeline, oldest first
  state,       \* of swb_sc_main
  o_done,
  mem_addr, length, tx_word_idx, wren_mask_wr, header_word, body_word, body_last,
  fifo,        \* between the write process and the read process
  wren_mask,   \* links the read process writes to
  sent         \* words each link has sent

writer == <<state, o_done, mem_addr, length, tx_word_idx, wren_mask_wr, header_word,
            body_word, body_last>>
vars == <<exited, restarts, cut, cmds, mem, reads, writer, fifo, wren_mask, sent>>

-----------------------------------------------------------------------------
Wrap(n) == n % MemLen

Cmd == [to : {{f} : f \in Feb} \cup {Feb}, size : Size]

\* Word i of command number id. kind "head" has 0xBC in its lowest byte, "tail"
\* is 0x9c, and "body" is the address, the size and the data.
Word == [kind : {"head", "body", "tail"}, id : 0..MaxCmds, i : Nat]
Stale == [kind |-> "body", id |-> 0, i |-> 0]
LastIdx(x) == 3 + x.size
CmdWord(x, id, i) ==
  [kind |-> IF i = 0 THEN "head" ELSE IF i = LastIdx(x) THEN "tail" ELSE "body",
   id |-> id, i |-> i]
LastWord(id) == CmdWord(cmds[id], id, LastIdx(cmds[id]))

\* Entries of the FIFO: one half of the mask, or a word with its K flag.
MaskEntry(half, m) == [half |-> half, mask |-> m]
WordEntry(w, k) == [half |-> {}, word |-> w, k |-> k]

Init ==
  /\ exited = FALSE /\ restarts = 0 /\ cut = {} /\ cmds = <<>>
  /\ mem = [a \in 0..MemLen-1 |-> Stale]
  /\ reads = [i \in 1..RamStages |-> 0]
  /\ state = "idle" /\ o_done = FALSE /\ mem_addr = 0 /\ length = 0 /\ tx_word_idx = 0
  /\ wren_mask_wr = {} /\ header_word = Stale /\ body_word = Stale
  /\ body_last = FALSE
  /\ fifo = <<>> /\ wren_mask = {}
  /\ sent = [f \in Feb |-> <<>>]

-----------------------------------------------------------------------------
(***************************************************************************)
(* Software: FEB_write and FEB_read between the busy check and the 0 -> 1  *)
(* transition of SC_MAIN_ENABLE, which SC main takes up before the next    *)
(* PCIe access. Indices are masked with the memory size, the length        *)
(* register wraps like an address, and an index above the memory size ends *)
(* the program with part of the command written.                           *)
(***************************************************************************)
Issue(x) ==
  LET id == Len(cmds) + 1
      top == IF LastIdx(x) > MemLen THEN MemLen ELSE LastIdx(x) IN
  /\ ~exited /\ state = "idle" /\ o_done /\ id <= MaxCmds
  /\ cmds' = Append(cmds, x)
  /\ mem' = [a \in 0..MemLen-1 |-> IF a + MemLen <= top THEN CmdWord(x, id, a + MemLen)
                                   ELSE IF a <= top THEN CmdWord(x, id, a) ELSE mem[a]]
  /\ exited' = (LastIdx(x) > MemLen)
  /\ IF exited' THEN UNCHANGED <<state, o_done, length, tx_word_idx, wren_mask_wr>>
     ELSE /\ state' = "request_header"
          /\ o_done' = FALSE
          /\ length' = Wrap(2 + x.size)
          /\ tx_word_idx' = 0
          /\ wren_mask_wr' = {}
  /\ mem_addr' = 0
  /\ reads' = Append(Tail(reads), mem_addr)
  /\ UNCHANGED <<restarts, cut, header_word, body_word, body_last, fifo, wren_mask, sent>>

\* The program is started again: the constructor resets SC main.
Restart ==
  /\ restarts < MaxRestarts
  /\ restarts' = restarts + 1
  /\ exited' = FALSE
  /\ cut' = cut \cup {id \in 1..Len(cmds) : \E f \in cmds[id].to :
                       ~\E n \in 1..Len(sent[f]) : sent[f][n].word = LastWord(id)}
  /\ state' = "idle" /\ o_done' = FALSE /\ mem_addr' = 0 /\ length' = 0
  /\ tx_word_idx' = 0 /\ wren_mask_wr' = {}
  /\ header_word' = Stale /\ body_word' = Stale /\ body_last' = FALSE
  /\ fifo' = <<>> /\ wren_mask' = {}
  /\ UNCHANGED <<cmds, mem, reads, sent>>

-----------------------------------------------------------------------------
(***************************************************************************)
(* swb_sc_main, write process: one action per state and clock edge.        *)
(***************************************************************************)
i_mem_data == mem[reads[1]]
\* Mutant: no backpressure.
never_full == FALSE
fifo_full == Len(fifo) >= FifoRoom

\* Every clock edge moves the RAM pipeline.
Edge(s) ==
  /\ state = s
  /\ reads' = Append(Tail(reads), mem_addr)
  /\ UNCHANGED <<exited, restarts, cut, cmds, mem, length, wren_mask, sent>>

Request(s, next) ==
  /\ Edge(s)
  /\ state' = next
  /\ UNCHANGED <<o_done, mem_addr, tx_word_idx, wren_mask_wr, header_word, body_word,
                 body_last, fifo>>

CheckHeader ==
  /\ Edge("check_header")
  /\ header_word' = i_mem_data
  /\ mem_addr' = 1
  /\ IF i_mem_data.kind = "head"
     THEN /\ state' = "set_fpga_id1"
          /\ tx_word_idx' = 1
          /\ wren_mask_wr' = cmds[i_mem_data.id].to
     ELSE /\ state' = "idle"
          /\ wren_mask_wr' = {}
          /\ UNCHANGED tx_word_idx
  /\ UNCHANGED <<o_done, body_word, body_last, fifo>>

\* The states that wait for room in the FIFO and append e to it.
Push(s, next, e) ==
  /\ Edge(s)
  /\ IF fifo_full THEN UNCHANGED <<state, fifo>>
     ELSE state' = next /\ fifo' = Append(fifo, e)
  /\ UNCHANGED o_done

\* Mutant: the second half of the mask overwrites the whole mask.
SetFpgaIdWhole ==
  /\ \/ Push("set_fpga_id1", "set_fpga_id2",
             MaskEntry(Feb \ HighFeb, wren_mask_wr \ HighFeb))
     \/ Push("set_fpga_id2", "emit_header", MaskEntry(Feb, wren_mask_wr \cap HighFeb))
  /\ UNCHANGED <<mem_addr, tx_word_idx, wren_mask_wr, header_word, body_word, body_last>>

SetFpgaId ==
  /\ \/ Push("set_fpga_id1", "set_fpga_id2",
             MaskEntry(Feb \ HighFeb, wren_mask_wr \ HighFeb))
     \/ Push("set_fpga_id2", "emit_header", MaskEntry(HighFeb, wren_mask_wr \cap HighFeb))
  /\ UNCHANGED <<mem_addr, tx_word_idx, wren_mask_wr, header_word, body_word, body_last>>

EmitHeader ==
  /\ Push("emit_header", "latch_word", WordEntry(header_word, TRUE))
  /\ UNCHANGED <<mem_addr, tx_word_idx, wren_mask_wr, header_word, body_word, body_last>>

\* Mutant: the next address is the one just read.
LatchWordLate ==
  /\ Edge("latch_word")
  /\ body_word' = i_mem_data
  /\ body_last' = (tx_word_idx = Wrap(length + 1))
  /\ mem_addr' = IF body_last' THEN 0 ELSE tx_word_idx
  /\ state' = "emit_word"
  /\ UNCHANGED <<o_done, tx_word_idx, wren_mask_wr, header_word, fifo>>

LatchWord ==
  /\ Edge("latch_word")
  /\ body_word' = i_mem_data
  /\ body_last' = (tx_word_idx = Wrap(length + 1))
  /\ mem_addr' = IF body_last' THEN 0 ELSE Wrap(tx_word_idx + 1)
  /\ state' = "emit_word"
  /\ UNCHANGED <<o_done, tx_word_idx, wren_mask_wr, header_word, fifo>>

EmitWord ==
  /\ Push("emit_word", IF body_last THEN "idle" ELSE "request_word",
          WordEntry(body_word, body_last))
  /\ IF fifo_full THEN UNCHANGED <<mem_addr, tx_word_idx, wren_mask_wr>>
     ELSE IF body_last
     THEN mem_addr' = 0 /\ wren_mask_wr' = {} /\ UNCHANGED tx_word_idx
     ELSE tx_word_idx' = Wrap(tx_word_idx + 1) /\ UNCHANGED <<mem_addr, wren_mask_wr>>
  /\ UNCHANGED <<header_word, body_word, body_last>>

Idle ==
  /\ Edge("idle")
  /\ o_done' = TRUE
  /\ mem_addr' = 0
  /\ UNCHANGED <<state, tx_word_idx, wren_mask_wr, header_word, body_word, body_last, fifo>>

WriteProcess ==
  \/ Idle \/ CheckHeader \/ SetFpgaId \/ EmitHeader \/ LatchWord \/ EmitWord
  \/ Request("request_header", "check_header") \/ Request("request_word", "latch_word")

\* Mutant: the links start only when the whole command is in the FIFO.
FifoReadProcessLate ==
  LET e == Head(fifo) IN
  /\ fifo # <<>> /\ state = "idle"
  /\ fifo' = Tail(fifo)
  /\ IF "mask" \in DOMAIN e
     THEN wren_mask' = (wren_mask \ e.half) \cup e.mask /\ UNCHANGED sent
     ELSE /\ sent' = [f \in Feb |-> IF f \in wren_mask THEN Append(sent[f], e) ELSE sent[f]]
          /\ UNCHANGED wren_mask
  /\ UNCHANGED <<exited, restarts, cut, cmds, mem, reads, writer>>

\* swb_sc_main, read process: a mask word switches links, any other word goes
\* to the links of the mask.
FifoReadProcess ==
  LET e == Head(fifo) IN
  /\ fifo # <<>>
  /\ fifo' = Tail(fifo)
  /\ IF "mask" \in DOMAIN e
     THEN wren_mask' = (wren_mask \ e.half) \cup e.mask /\ UNCHANGED sent
     ELSE /\ sent' = [f \in Feb |-> IF f \in wren_mask THEN Append(sent[f], e) ELSE sent[f]]
          /\ UNCHANGED wren_mask
  /\ UNCHANGED <<exited, restarts, cut, cmds, mem, reads, writer>>

-----------------------------------------------------------------------------
Next == (\E x \in Cmd : Issue(x)) \/ WriteProcess \/ FifoReadProcess \/ Restart

Spec == Init /\ [][Next]_vars

\* Both processes are clocked.
FairSpec == Spec /\ WF_vars(WriteProcess) /\ WF_vars(FifoReadProcess)

-----------------------------------------------------------------------------
States == {"idle", "request_header", "check_header", "set_fpga_id1", "set_fpga_id2",
           "emit_header", "request_word", "latch_word", "emit_word"}

TypeOK ==
  /\ exited \in BOOLEAN /\ restarts \in 0..MaxRestarts
  /\ cmds \in Seq(Cmd) /\ Len(cmds) <= MaxCmds /\ cut \subseteq 1..Len(cmds)
  /\ mem \in [0..MemLen-1 -> Word]
  /\ reads \in [1..RamStages -> 0..MemLen-1]
  /\ state \in States /\ o_done \in BOOLEAN
  /\ {mem_addr, length, tx_word_idx} \subseteq 0..MemLen-1
  /\ wren_mask_wr \subseteq Feb /\ wren_mask \subseteq Feb
  /\ {header_word, body_word} \subseteq Word /\ body_last \in BOOLEAN
  /\ Len(fifo) <= FifoRoom

\* Word v follows word u of the same command, or starts a later command after
\* the last word of u's, or after the word at which a reset cut it.
Follows(u, v) ==
  \/ u.kind # "tail" /\ v = CmdWord(cmds[u.id], u.id, u.i + 1)
  \/ (u.kind = "tail" \/ u.id \in cut) /\ v.kind = "head" /\ v.id > u.id

\* Every link carries its commands one after the other, each from preamble to
\* trailer in order, and marks exactly these two as K-characters: no word of an
\* older command left in RW memory, no word read too early or too late from the
\* RAM, and no word of a command for another link.
WellFormed ==
  \A f \in Feb :
    /\ sent[f] # <<>> => sent[f][1].word.kind = "head"
    /\ \A n \in 1..Len(sent[f]) :
         /\ f \in cmds[sent[f][n].word.id].to
         /\ sent[f][n].k = (sent[f][n].word.kind # "body")
    /\ \A n \in 1..Len(sent[f])-1 : Follows(sent[f][n].word, sent[f][n+1].word)

\* SC main reports done only for a command that is, or will be, on its links up
\* to the trailer.
NothingDropped ==
  state = "idle" /\ fifo = <<>> =>
    \A id \in 1..Len(cmds) \ cut : \A f \in cmds[id].to :
      \E n \in 1..Len(sent[f]) : sent[f][n].word = LastWord(id)

\* SC main becomes idle again: FEB_write does not find it busy for ever.
BecomesIdle == state # "idle" ~> state = "idle"
=============================================================================
