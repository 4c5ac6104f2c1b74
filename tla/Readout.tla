------------------------------ MODULE Readout ------------------------------
(***************************************************************************)
(* The data readout of one PCIe card: musip_event_builder collects hits    *)
(* (256-bit words) in a FIFO and on request writes a number of them and    *)
(* a block of padding to dma_engine, whose memory ring is sent block by    *)
(* block to dma_buf of the host; read_stream_thread requests, polls done,  *)
(* disables the engine, copies the buffer and makes a MIDAS event of it.   *)
(* begin_of_run, in the main thread, resets the data path.                 *)
(***************************************************************************)
EXTENDS Integers, FiniteSets, SequencesExt

CONSTANTS
  maxwords,     \* words requested per event (max_requested_words)
  BlockLen,     \* words of a DMA block (128: 4 kB)
  RamBlocks,    \* blocks in the memory of the engine (16)
  HostBlocks,   \* blocks in dma_buf
  Width,        \* bits of word_counter (32)
  HalfFull,     \* words in the FIFO from which on hits are dropped (8192)
  MaxHits,      \* bound: hits received
  MaxDisturbed  \* bound: polls that time out, run stops, early steps of the thread

ASSUME SizeAssumption ==
  /\ {maxwords, BlockLen, RamBlocks, HostBlocks, Width, HalfFull} \subseteq Nat \ {0}
  /\ BlockLen > 2 /\ RamBlocks % 2 = 0
  /\ maxwords > 2 /\ maxwords < 2^Width
  /\ maxwords + BlockLen <= HostBlocks * BlockLen
ASSUME BoundAssumption == {MaxHits, MaxDisturbed} \subseteq Nat

VARIABLES
  nhits,                                     \* history: hits received
  fifo, event_builder_state, word_counter, cnt_4kb, done,
  hit_cnt, hit_drop_cnt,
  wren_reg, data_reg, endofevent_reg,        \* dmamem_wren_reg, dma_data_reg, ...
  wen, dma_enabled,                          \* DMA_BIT_ENABLE, and a clock later
  state,                                     \* of dma_engine
  ram, memwriteaddr, memaddr_last_packet, memhalffull,
  start_dma,                                 \* the block completed in the last clock
  enoughdata, memoryblock_dma, overflow,
  memwriteaddr_long, memwriteaddreoe_long, memwriteaddreoedma_long,
  remote,                                    \* block of dma_buf written next
  dma_buf, ctrl,                             \* host memory; ctrl: end of event
  running, stops,
  pc, outcome, timeouts, dma_buf_local, event,   \* outcome: why polling ended
  stream,   \* history: words written to the engine since it was disabled
  words,    \* history: hits of the event the builder is working on
  copied, lost,                              \* history: hits copied, hits dropped
  slip,     \* history: the write address wrapped with the last packet at the half
  early     \* history: steps of the thread before the engine had sent everything

hits == <<nhits, fifo, hit_drop_cnt, lost>>
builder == <<event_builder_state, word_counter, cnt_4kb, done, hit_cnt, words>>
pipe == <<wren_reg, data_reg, endofevent_reg, dma_enabled>>
memory == <<ram, memwriteaddr, memwriteaddr_long, memwriteaddreoe_long, memhalffull, start_dma,
            stream, slip>>
engine == <<state, memaddr_last_packet, enoughdata, memoryblock_dma, overflow,
            memwriteaddreoedma_long, remote>>
host == <<dma_buf, ctrl>>
thread == <<pc, outcome, timeouts, dma_buf_local, event, copied, early>>
vars == <<hits, builder, pipe, wen, memory, engine, host, running, stops, thread>>

-----------------------------------------------------------------------------
Ones == 0     \* 0xffff...: padding, and the filling of dma_buf
Word == 0..MaxHits
RamLen == RamBlocks * BlockLen
HostLen == HostBlocks * BlockLen
Filled == [a \in 0..HostLen-1 |-> IF a < maxwords THEN Ones ELSE dma_buf[a]]

Init ==
  /\ nhits = 0 /\ fifo = <<>> /\ event_builder_state = "waiting"
  /\ word_counter = 0 /\ cnt_4kb = 0 /\ done = FALSE
  /\ hit_cnt = 0 /\ hit_drop_cnt = 0 /\ words = 0 /\ lost = {}
  /\ wren_reg = FALSE /\ data_reg = Ones /\ endofevent_reg = FALSE
  /\ wen = FALSE /\ dma_enabled = FALSE /\ state = "disabled"
  /\ ram = [a \in 0..RamLen-1 |-> Ones] /\ memwriteaddr = 0 /\ memaddr_last_packet = 0
  /\ memhalffull = FALSE /\ start_dma = {} /\ slip = FALSE /\ early = 0
  /\ enoughdata = {} /\ memoryblock_dma = 0 /\ overflow = FALSE
  /\ memwriteaddr_long = 0 /\ memwriteaddreoe_long = 0 /\ memwriteaddreoedma_long = 0
  /\ remote = 0 /\ dma_buf = [a \in 0..HostLen-1 |-> Ones] /\ ctrl = 0
  /\ running = TRUE /\ pc = "top" /\ outcome = "none" /\ timeouts = 0 /\ stops = 0
  /\ dma_buf_local = <<>> /\ event = <<>> /\ stream = <<>> /\ copied = {}

-----------------------------------------------------------------------------
(***************************************************************************)
(* musip_event_builder and the memory of the engine it writes to: both run *)
(* on the clock of the PCIe block, so a clock is one step of the two.      *)
(***************************************************************************)
fifo_en == fifo # <<>> /\ ~memhalffull /\ event_builder_state \in {"write_hits", "write_last_hit"}

\* Below the half there is always room: one word comes and one goes per cycle.
Receive ==
  /\ nhits < MaxHits /\ Len(fifo) <= HalfFull
  /\ nhits' = nhits + 1
  /\ fifo' = Append(fifo, nhits + 1)
  /\ UNCHANGED <<hit_drop_cnt, lost, builder, pipe, wen, memory, engine, host, running, stops,
                 thread>>

\* Mutant: a hit that is dropped between two events is not counted.
DropHitUncounted ==
  /\ ~fifo_en /\ Len(fifo) >= HalfFull
  /\ fifo' = Tail(fifo)
  /\ hit_drop_cnt' = IF event_builder_state = "waiting" THEN hit_drop_cnt ELSE hit_drop_cnt + 1
  /\ lost' = lost \cup {Head(fifo)}
  /\ UNCHANGED <<nhits, builder, pipe, wen, memory, engine, host, running, stops, thread>>

DropHit ==
  /\ ~fifo_en /\ Len(fifo) >= HalfFull
  /\ fifo' = Tail(fifo)
  /\ hit_drop_cnt' = hit_drop_cnt + 1
  /\ lost' = lost \cup {Head(fifo)}
  /\ UNCHANGED <<nhits, builder, pipe, wen, memory, engine, host, running, stops, thread>>

\* The registers in front of the memory.
Put(w, eoe) == wren_reg' = TRUE /\ data_reg' = w /\ endofevent_reg' = eoe
PutNothing == wren_reg' = FALSE /\ data_reg' = Ones /\ endofevent_reg' = FALSE

Request ==
  /\ event_builder_state = "waiting" /\ wen /\ ~done
  /\ word_counter' = maxwords
  /\ event_builder_state' = "write_hits"
  /\ words' = 0
  /\ PutNothing
  /\ UNCHANGED <<fifo, cnt_4kb, done, hit_cnt>>

\* word_counter wraps; while i_wen is low it is set to 0 in cycles without a hit.
WriteHit ==
  /\ fifo_en
  /\ fifo' = Tail(fifo) /\ hit_cnt' = hit_cnt + 1 /\ words' = words + 1
  /\ Put(Head(fifo), event_builder_state = "write_last_hit")
  /\ IF event_builder_state = "write_last_hit"
     THEN word_counter' = 0 /\ cnt_4kb' = 0 /\ event_builder_state' = "write_4kb_padding"
     ELSE /\ word_counter' = (word_counter - 1) % 2^Width
          /\ event_builder_state' = IF word_counter = 2 THEN "write_last_hit" ELSE "write_hits"
          /\ UNCHANGED cnt_4kb
  /\ done' = (done /\ wen)

\* Mutant: one word of padding too many.
PaddingLate ==
  /\ event_builder_state = "write_4kb_padding" /\ ~memhalffull
  /\ Put(Ones, FALSE)
  /\ IF cnt_4kb = BlockLen
     THEN done' = TRUE /\ event_builder_state' = "waiting" /\ UNCHANGED cnt_4kb
     ELSE cnt_4kb' = cnt_4kb + 1 /\ done' = (done /\ wen) /\ UNCHANGED event_builder_state
  /\ word_counter' = IF wen THEN word_counter ELSE 0
  /\ UNCHANGED <<fifo, hit_cnt, words>>

WritePadding ==
  /\ event_builder_state = "write_4kb_padding" /\ ~memhalffull
  /\ Put(Ones, FALSE)
  /\ IF cnt_4kb = BlockLen - 1
     THEN done' = TRUE /\ event_builder_state' = "waiting" /\ UNCHANGED cnt_4kb
     ELSE cnt_4kb' = cnt_4kb + 1 /\ done' = (done /\ wen) /\ UNCHANGED event_builder_state
  /\ word_counter' = IF wen THEN word_counter ELSE 0
  /\ UNCHANGED <<fifo, hit_cnt, words>>

\* Mutant: done of the last event survives the disabling.
IdleKeepsDone ==
  /\ CASE event_builder_state = "waiting" -> ~wen \/ done
       [] event_builder_state = "write_4kb_padding" -> memhalffull
       [] OTHER -> ~fifo_en
  /\ word_counter' = IF wen THEN word_counter ELSE 0
  /\ PutNothing
  /\ UNCHANGED <<fifo, event_builder_state, cnt_4kb, done, hit_cnt, words>>

\* Nothing to write, or back pressure; a low i_wen clears done and the count.
Idle ==
  /\ CASE event_builder_state = "waiting" -> ~wen \/ done
       [] event_builder_state = "write_4kb_padding" -> memhalffull
       [] OTHER -> ~fifo_en
  /\ word_counter' = (IF wen THEN word_counter ELSE 0) /\ done' = (done /\ wen)
  /\ PutNothing
  /\ UNCHANGED <<fifo, event_builder_state, cnt_4kb, hit_cnt, words>>

Builder == Request \/ WriteHit \/ WritePadding \/ Idle

diff == IF memwriteaddr >= memaddr_last_packet THEN memwriteaddr - memaddr_last_packet
        ELSE memaddr_last_packet - memwriteaddr
\* Mutant: back pressure when the memory is full, not half full.
full == diff >= RamLen - 1

\* Mutant: back pressure as long as anything is left to send, a part of a block included.
notempty == diff > 0

\* Back pressure: the top bit of the difference of the two addresses.
half == diff >= RamLen \div 2

\* datawren: the word put out in the clock before goes to the memory ring. The block
\* completed in the clock before is signalled to the PCIe side (start_dma). Back pressure is
\* based on the address of the last PCIe packet sent, and comes a clock after the word.
Store ==
  LET next == (memwriteaddr + 1) % RamLen
      block == memwriteaddr \div BlockLen IN
  /\ state # "disabled"
  /\ memhalffull' = half
  /\ enoughdata' = enoughdata \cup start_dma
  /\ overflow' = (overflow \/ start_dma \cap enoughdata # {})
  /\ IF ~wren_reg
     THEN start_dma' = {} /\ UNCHANGED <<memwriteaddr, memwriteaddr_long, stream, slip>>
     ELSE /\ memwriteaddr' = next
          /\ memwriteaddr_long' = memwriteaddr_long + 1
          /\ stream' = Append(stream, data_reg)
          /\ start_dma' = IF next \div BlockLen = block THEN {} ELSE {block}
          /\ slip' = (slip \/ (next = 0 /\ memaddr_last_packet = RamLen \div 2))
  /\ memwriteaddreoe_long' = IF endofevent_reg THEN memwriteaddr_long ELSE memwriteaddreoe_long
  /\ UNCHANGED <<state, memaddr_last_packet, memoryblock_dma, memwriteaddreoedma_long, remote>>

\* Mutant: the address on the host side is not reset.
ResetKeepsRemote ==
  /\ state = "disabled"
  /\ state' = IF dma_enabled THEN "waiting" ELSE "disabled"
  /\ memwriteaddr' = 0 /\ memwriteaddr_long' = 0 /\ memhalffull' = FALSE /\ start_dma' = {}
  /\ memaddr_last_packet' = 0 /\ memoryblock_dma' = 0 /\ enoughdata' = {} /\ overflow' = FALSE
  /\ memwriteaddreoedma_long' = 0 /\ stream' = <<>>
  /\ UNCHANGED <<memwriteaddreoe_long, slip, remote>>

\* Each clock of a disabled engine resets its addresses and flags; a word that still comes
\* is written, but not counted.
Reset ==
  /\ state = "disabled"
  /\ state' = IF dma_enabled THEN "waiting" ELSE "disabled"
  /\ memwriteaddr' = 0 /\ memwriteaddr_long' = 0 /\ memhalffull' = FALSE /\ start_dma' = {}
  /\ memaddr_last_packet' = 0 /\ memoryblock_dma' = 0 /\ enoughdata' = {} /\ overflow' = FALSE
  /\ memwriteaddreoedma_long' = 0 /\ remote' = 0 /\ stream' = <<>>
  /\ UNCHANGED <<memwriteaddreoe_long, slip>>

Clock ==
  /\ Builder
  /\ Store \/ Reset
  /\ ram' = IF wren_reg THEN [ram EXCEPT ![memwriteaddr] = data_reg] ELSE ram
  /\ dma_enabled' = wen
  /\ UNCHANGED <<nhits, hit_drop_cnt, lost, wen, host, running, stops, thread>>

-----------------------------------------------------------------------------
(***************************************************************************)
(* dma_engine, PCIe side: takes any number of clocks. The packets of a     *)
(* block are one step.                                                     *)
(***************************************************************************)
\* A complete block has priority over being disabled.
Disabled ==
  /\ state = "waiting" /\ ~dma_enabled /\ enoughdata = {}
  /\ state' = "disabled"
  /\ UNCHANGED <<memaddr_last_packet, enoughdata, memoryblock_dma, overflow,
                 memwriteaddreoedma_long, remote, hits, builder, pipe, wen, memory, host, running,
                 stops, thread>>

TakeBlock ==
  /\ state = "waiting" /\ enoughdata # {}
  /\ state' = "running"
  /\ enoughdata' = enoughdata \ {memoryblock_dma}
  /\ memoryblock_dma' = (memoryblock_dma + 1) % RamBlocks
  /\ memaddr_last_packet' = memoryblock_dma * BlockLen
  /\ memwriteaddreoedma_long' = memwriteaddreoe_long
  /\ UNCHANGED <<overflow, remote, hits, builder, pipe, wen, memory, host, running, stops, thread>>

SendBlock ==
  /\ state = "running"
  /\ state' = "controlinfoheader"
  /\ dma_buf' = [a \in 0..HostLen-1 |->
                   IF a \div BlockLen = remote THEN ram[memaddr_last_packet + (a % BlockLen)]
                   ELSE dma_buf[a]]
  /\ memaddr_last_packet' = (memaddr_last_packet + BlockLen) % RamLen
  /\ UNCHANGED <<enoughdata, memoryblock_dma, overflow, memwriteaddreoedma_long, remote, ctrl,
                 hits, builder, pipe, wen, memory, running, stops, thread>>

SendControl ==
  /\ state = "controlinfoheader"
  /\ state' = "waiting"
  /\ ctrl' = memwriteaddreoedma_long
  /\ remote' = (remote + 1) % HostBlocks
  /\ UNCHANGED <<memaddr_last_packet, enoughdata, memoryblock_dma, overflow,
                 memwriteaddreoedma_long, dma_buf, hits, builder, pipe, wen, memory, running,
                 stops, thread>>

Engine == Disabled \/ TakeBlock \/ SendBlock \/ SendControl

-----------------------------------------------------------------------------
(***************************************************************************)
(* read_stream_thread. Nothing makes it wait for the engine: early counts  *)
(* the times that it copied, filled or enabled before the engine came to   *)
(* rest, or disabled it while the last word was on its way.                *)
(***************************************************************************)
Firmware == <<hits, builder, pipe, memory, engine>>
EngineBusy == state # "disabled" \/ dma_enabled
Disturbable == timeouts + stops + early < MaxDisturbed
Early(busy) == (busy => Disturbable) /\ early' = early + (IF busy THEN 1 ELSE 0)

Fill ==
  /\ pc = "top" /\ running
  /\ pc' = "enable"
  /\ dma_buf' = Filled
  /\ Early(EngineBusy)
  /\ UNCHANGED <<Firmware, running, stops, wen, ctrl, outcome, timeouts, dma_buf_local, event,
                 copied>>

EnableReadout ==
  /\ pc = "enable"
  /\ pc' = "poll" /\ outcome' = "none"
  /\ wen' = TRUE
  /\ Early(EngineBusy)
  /\ UNCHANGED <<Firmware, running, stops, host, timeouts, dma_buf_local, event, copied>>

\* The loop on the done flag ends, after any time, and the engine is disabled.
Disable ==
  /\ pc = "poll"
  /\ outcome' \in IF done THEN {"done"}
                  ELSE (IF running THEN {} ELSE {"stopped"})
                       \cup (IF Disturbable THEN {"timeout"} ELSE {})
  /\ timeouts' = IF outcome' = "timeout" THEN timeouts + 1 ELSE timeouts
  /\ pc' = "copy"
  /\ wen' = FALSE
  /\ Early(done /\ (wren_reg \/ start_dma # {}))
  /\ UNCHANGED <<Firmware, running, stops, host, dma_buf_local, event, copied>>

\* Nothing is copied if the end of the event lies beyond dma_buf.
\* create_midas_events refuses a buffer whose end of event is below 2 and a run
\* that is over, and takes maxwords * 4 of the maxwords * 8 32-bit words.
Copy ==
  /\ pc = "copy"
  /\ pc' = "top"
  /\ IF ctrl > HostLen THEN UNCHANGED <<dma_buf_local, copied, event>>
     ELSE /\ dma_buf_local' = [i \in 1..maxwords |-> dma_buf[i-1]]
          /\ copied' = copied \cup (ToSet(dma_buf_local') \ {Ones})
          /\ event' = IF ctrl < 2 \/ ~running THEN <<>>
                      ELSE SubSeq(dma_buf_local', 1, maxwords \div 2)
  /\ Early(EngineBusy)
  /\ UNCHANGED <<Firmware, running, stops, wen, host, outcome, timeouts>>

Thread == Fill \/ EnableReadout \/ Disable \/ Copy

\* The main thread: end of run, and begin_of_run of the next one.
EndRun ==
  /\ running /\ Disturbable
  /\ running' = FALSE /\ stops' = stops + 1
  /\ UNCHANGED <<hits, builder, pipe, wen, memory, engine, host, thread>>

BeginRun ==
  /\ ~running
  /\ running' = TRUE
  /\ fifo' = <<>> /\ event_builder_state' = "waiting" /\ word_counter' = 0
  /\ cnt_4kb' = 0 /\ done' = FALSE /\ hit_cnt' = 0 /\ hit_drop_cnt' = 0
  /\ words' = 0 /\ lost' = 1..nhits \ copied
  /\ dma_buf' = Filled
  /\ UNCHANGED <<nhits, pipe, wen, memory, engine, ctrl, stops, thread>>

-----------------------------------------------------------------------------
Next == Receive \/ DropHit \/ Clock \/ Engine \/ Thread \/ EndRun \/ BeginRun

Spec == Init /\ [][Next]_vars

\* The firmware is clocked and the thread runs.
FairSpec ==
  Spec /\ WF_vars(Receive) /\ WF_vars(Clock) /\ WF_vars(Engine) /\ WF_vars(Thread)

-----------------------------------------------------------------------------
TypeOK ==
  /\ nhits \in 0..MaxHits /\ fifo \in Seq(1..MaxHits) /\ Len(fifo) <= HalfFull + 1
  /\ event_builder_state \in {"waiting", "write_hits", "write_last_hit", "write_4kb_padding"}
  /\ word_counter \in 0..2^Width-1 /\ cnt_4kb \in 0..BlockLen-1
  /\ {done, wren_reg, endofevent_reg, wen, dma_enabled} \subseteq BOOLEAN
  /\ {memhalffull, overflow, running, slip} \subseteq BOOLEAN
  /\ early \in 0..MaxDisturbed
  /\ data_reg \in Word
  /\ {hit_cnt, hit_drop_cnt, words} \subseteq 0..MaxHits
  /\ state \in {"disabled", "waiting", "running", "controlinfoheader"}
  /\ ram \in [0..RamLen-1 -> Word] /\ dma_buf \in [0..HostLen-1 -> Word]
  /\ {memwriteaddr, memaddr_last_packet} \subseteq 0..RamLen-1
  /\ start_dma \subseteq 0..RamBlocks-1
  /\ enoughdata \subseteq 0..RamBlocks-1 /\ memoryblock_dma \in 0..RamBlocks-1
  /\ remote \in 0..HostBlocks-1
  /\ pc \in {"top", "enable", "poll", "copy"}
  /\ outcome \in {"none", "done", "timeout", "stopped"}

\* The memory ring is never overrun, although back pressure is the plain difference of two
\* addresses that go round and comes one or two words late: complete blocks are signalled and
\* taken in order, and sent before they are written again. The one way to overrun it is slip,
\* a write address that goes round while the last packet sent ends exactly at the half: one
\* word further on the difference is below the half again, and back pressure drops.
Pending == (memwriteaddr \div BlockLen - memoryblock_dma) % RamBlocks
RingInOrder ==
  ~slip =>
    /\ ~overflow
    /\ enoughdata \cup start_dma = {(memoryblock_dma + i) % RamBlocks : i \in 0..Pending-1}

\* dma_buf holds what the builder wrote since the engine was enabled, word by word
\* from the start, for as much as was sent, over timeouts, run stops and starts:
\* nothing of an earlier event is left in the part that is copied. Not so if the thread
\* was early: it does not wait for the engine.
HostInOrder ==
  early = 0 /\ ~slip =>
  \A a \in 0..maxwords-1 :
    dma_buf[a] # Ones /\ stream # <<>> =>
      \E n \in 1..Len(stream) : stream[n] = dma_buf[a] /\ (n - 1) % HostLen = a

\* No hit gets lost silently: each is in the FIFO, on its way to the memory ring, in it, in
\* dma_buf, copied, or was dropped and counted, as long as no poll times out, no run stops,
\* the thread is not early and the ring does not slip.
InRing ==
  LET n == (memwriteaddr - memaddr_last_packet) % RamLen IN
  {stream[k] : k \in (Len(stream) - n + 1)..Len(stream)}
Undisturbed == timeouts = 0 /\ stops = 0 /\ early = 0 /\ ~slip
NothingLost ==
  Undisturbed =>
    /\ 1..nhits = (ToSet(fifo) \cup {data_reg} \cup InRing \cup Range(dma_buf) \cup copied
                    \cup lost) \ {Ones}
    /\ Cardinality(lost) = hit_drop_cnt

\* When the thread has seen done, the buffer it copies holds a whole event, in the
\* order of the hits.
CopiedIsEvent ==
  Undisturbed /\ pc = "top" /\ outcome = "done" =>
    \A i \in 1..maxwords :
      dma_buf_local[i] # Ones /\ (i > 1 => dma_buf_local[i] > dma_buf_local[i-1])

\* A requested event completes, unless the hits run out or the ring slips: back pressure
\* never stops the builder for good.
EventCompletes == pc = "poll" ~> pc # "poll" \/ slip \/ (nhits = MaxHits /\ fifo = <<>>)
=============================================================================
