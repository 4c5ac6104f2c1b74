----------------------------- MODULE ReplyRing -----------------------------
(***************************************************************************)
(* How the answers of the FEBs get into the software, word by word: a FIFO *)
(* per link, swb_sc_secondary, which copies one packet after the other     *)
(* into the RO memory and publishes its end in o_mem_addr_finished, and    *)
(* FEBsc_read_packets, which parses what lies between its own pointer and  *)
(* that address. Both sides go round the memory independently.             *)
(***************************************************************************)
EXTENDS Integers, FiniteSets, SequencesExt

CONSTANTS
  NLINKS,      \* links 0..NLINKS-1; SC secondary prefers the last one
  MemLen,      \* words of RO memory (MUDAQ_MEM_RO_LEN)
  DataLen,     \* data words an answer may carry
  FifoDepth,   \* words a link FIFO holds (256)
  MaxUnread,   \* answers under way at a time: what the callers leave unread
  MaxPackets,  \* bound: answers of each link
  MaxResets    \* bound: FEBsc_resetSecondary

ASSUME LinksAssumption == NLINKS \in Nat \ {0}
ASSUME DataAssumption == DataLen \subseteq Nat
ASSUME FifoAssumption == FifoDepth \in Nat \ {0}
ASSUME BoundAssumption == MaxUnread \in Nat \ {0} /\ MaxPackets \in Nat /\ MaxResets \in Nat
\* No lap: SC secondary does not know where the software reads.
ASSUME MemAssumption == MemLen \in Nat \ {0} /\ \A n \in DataLen : MaxUnread * (n + 4) < MemLen

VARIABLES
  sending,     \* per link: the packet being transmitted and its next word
  count,       \* per link: packets begun
  fifo,        \* per link: words, oldest first
  state, current_link, captured_link,      \* of swb_sc_secondary
  mem, mem_addr_o, o_mem_addr_finished,
  m_FEBsc_rmem_addr,
  fpga_rmem_addr,                          \* sampled when parsing starts
  sw,          \* "idle", "parsing" or "resetting"
  failed,      \* a parse returned -1
  resets,
  out, ring, got   \* history: where each answer is; got is also the deque

secondary == <<state, current_link, captured_link, mem, mem_addr_o, o_mem_addr_finished>>
software == <<m_FEBsc_rmem_addr, fpga_rmem_addr, sw, failed, resets, got>>
links == <<sending, count>>
vars == <<links, fifo, secondary, software, out, ring>>

-----------------------------------------------------------------------------
Link == 0..NLINKS-1
MIN_SC_MESSAGE_SIZE == 4
Packet == [link : Link, n : 1..MaxPackets, data : DataLen]
Garbage == [link |-> NLINKS, n |-> 0, data |-> 0]

\* Words of p: preamble, address, length, data, trailer.
PacketLen(p) == MIN_SC_MESSAGE_SIZE + p.data
Word(p, i) == [of |-> p, pos |-> i, sop |-> i = 1, eop |-> i = PacketLen(p)]
Cleared == [of |-> Garbage, pos |-> 0, sop |-> FALSE, eop |-> FALSE]

\* Mutant: addresses do not wrap.
PlusNoWrap(a, n) == a + n
Plus(a, n) == (a + n) % MemLen

Init ==
  /\ sending = [l \in Link |-> <<>>]
  /\ count = [l \in Link |-> 0]
  /\ fifo = [l \in Link |-> <<>>]
  /\ state = "waiting" /\ current_link = 0 /\ captured_link = Cleared
  /\ mem = [a \in 0..MemLen-1 |-> Cleared]
  /\ mem_addr_o = MemLen - 1 /\ o_mem_addr_finished = MemLen - 1
  /\ m_FEBsc_rmem_addr = 0 /\ fpga_rmem_addr = 0
  /\ sw = "idle" /\ failed = FALSE /\ resets = 0
  /\ out = [l \in Link |-> <<>>] /\ ring = <<>> /\ got = <<>>

-----------------------------------------------------------------------------
(* Links. A word that meets a full FIFO is lost. *)

UnderWay == Len(ring) + Cardinality(UNION {{l} \X (1..Len(out[l])) : l \in Link})

ToFifo(l, w) ==
  fifo' = IF Len(fifo[l]) < FifoDepth THEN [fifo EXCEPT ![l] = Append(@, w)] ELSE fifo

\* External: a board begins an answer.
Begin(l, n) ==
  LET p == [link |-> l, n |-> count[l] + 1, data |-> n] IN
  /\ sending[l] = <<>> /\ count[l] < MaxPackets /\ UnderWay < MaxUnread
  /\ sending' = [sending EXCEPT ![l] = <<[packet |-> p, next |-> 2]>>]
  /\ count' = [count EXCEPT ![l] = @ + 1]
  /\ ToFifo(l, Word(p, 1))
  /\ out' = [out EXCEPT ![l] = Append(@, p)]
  /\ UNCHANGED <<secondary, software, ring>>

\* External: and goes on with it.
Continue(l) ==
  LET s == sending[l][1] IN
  /\ sending[l] # <<>>
  /\ ToFifo(l, Word(s.packet, s.next))
  /\ sending' = [sending EXCEPT ![l] = IF s.next = PacketLen(s.packet) THEN <<>>
                                       ELSE <<[s EXCEPT !.next = @ + 1]>>]
  /\ UNCHANGED <<count, secondary, software, out, ring>>

-----------------------------------------------------------------------------
(***************************************************************************)
(* swb_sc_secondary. pop_word and the wait for the FIFO output behind it   *)
(* belong to the step that pops; drop_word is never reached, since nobody  *)
(* else reads the FIFO whose sop waiting or rearm_wait has seen.           *)
(***************************************************************************)
Ready(l) == fifo[l] # <<>> /\ Head(fifo[l]).sop

Goto(s) ==
  /\ state' = s
  /\ UNCHANGED <<mem, mem_addr_o, o_mem_addr_finished, links, software, out, ring>>

\* The link multiplexer: the last link with a packet wins.
Waiting ==
  /\ state = "waiting"
  /\ \E l \in Link : /\ Ready(l) /\ \A k \in Link : Ready(k) => k <= l
                     /\ current_link' = l
  /\ Goto("capture_head")
  /\ UNCHANGED <<captured_link, fifo>>

\* Mutant: the next packet is only looked for on the same link.
RearmWaitSame ==
  /\ state = "rearm_wait" /\ Ready(current_link)
  /\ Goto("capture_head")
  /\ UNCHANGED <<current_link, captured_link, fifo>>

\* After a packet: look at the same link once more. A word that is neither sop nor
\* eop (a FIFO that overflowed) would stop it for ever.
RearmWait ==
  LET q == fifo[current_link] IN
  /\ state = "rearm_wait"
  /\ IF q = <<>> THEN Goto("waiting") /\ UNCHANGED fifo
     ELSE IF Head(q).sop THEN Goto("capture_head") /\ UNCHANGED fifo
     ELSE /\ Head(q).eop
          /\ Goto("rearm_wait")
          /\ fifo' = [fifo EXCEPT ![current_link] = Tail(q)]
  /\ UNCHANGED <<current_link, captured_link>>

CaptureWord ==
  /\ state \in {"capture_head", "capture_body"}
  /\ fifo[current_link] # <<>>
  /\ captured_link' = Head(fifo[current_link])
  /\ Goto("write_word")
  /\ UNCHANGED <<current_link, fifo>>

WriteWord ==
  /\ state = "write_word"
  /\ state' = "wait_word"
  /\ mem_addr_o' = Plus(mem_addr_o, 1)
  /\ mem' = [mem EXCEPT ![mem_addr_o'] = captured_link]
  /\ fifo' = [fifo EXCEPT ![current_link] = Tail(@)]
  /\ UNCHANGED <<current_link, captured_link, o_mem_addr_finished, links, software, out, ring>>

\* Mutant: every word is published at once.
WaitWordEach ==
  /\ state = "wait_word"
  /\ o_mem_addr_finished' = mem_addr_o
  /\ IF captured_link.eop
     THEN /\ state' = "rearm_wait"
          /\ ring' = Append(ring, captured_link.of)
          /\ out' = [out EXCEPT ![current_link] = Tail(@)]
     ELSE state' = "capture_body" /\ UNCHANGED <<ring, out>>
  /\ UNCHANGED <<current_link, captured_link, mem, mem_addr_o, links, software, fifo>>

WaitWord ==
  /\ state = "wait_word"
  /\ IF captured_link.eop
     THEN /\ state' = "rearm_wait"
          /\ o_mem_addr_finished' = mem_addr_o
          /\ ring' = Append(ring, captured_link.of)
          /\ out' = [out EXCEPT ![current_link] = Tail(@)]
     ELSE /\ state' = "capture_body"
          /\ UNCHANGED <<o_mem_addr_finished, ring, out>>
  /\ UNCHANGED <<current_link, captured_link, mem, mem_addr_o, links, software, fifo>>

\* The memory is cleared word by word, and the addresses end where they began.
InitDone ==
  /\ state = "init"
  /\ state' = "waiting"
  /\ mem' = [a \in 0..MemLen-1 |-> Cleared]
  /\ UNCHANGED <<current_link, captured_link, mem_addr_o, o_mem_addr_finished,
                 links, software, fifo, out, ring>>

Secondary == Waiting \/ RearmWait \/ CaptureWord \/ WriteWord \/ WaitWord \/ InitDone

-----------------------------------------------------------------------------
(* Software. *)

ReadStart ==
  /\ sw = "idle" /\ m_FEBsc_rmem_addr # Plus(o_mem_addr_finished, 1)
  /\ sw' = "parsing"
  /\ fpga_rmem_addr' = Plus(o_mem_addr_finished, 1)
  /\ UNCHANGED <<m_FEBsc_rmem_addr, failed, resets, got, links, fifo, secondary, out, ring>>

\* One turn of the loop in FEBsc_read_packets. left: words up to the published
\* end. The length is taken from the third word, whatever that is.
ReadPacket ==
  LET at(i) == mem[Plus(m_FEBsc_rmem_addr, i)]
      left == (fpga_rmem_addr - m_FEBsc_rmem_addr) % MemLen
      Fail(n) == /\ sw' = "idle" /\ failed' = TRUE
                 /\ m_FEBsc_rmem_addr' = Plus(m_FEBsc_rmem_addr, n)
                 /\ UNCHANGED <<got, ring>> IN
  /\ sw = "parsing" /\ left # 0
  /\ IF at(0).pos # 1 \/ left < MIN_SC_MESSAGE_SIZE THEN Fail(0)
     ELSE \E n \in IF at(2).pos = 3 THEN {at(2).of.data} ELSE DataLen :
            IF left - 3 < n + 1 THEN Fail(3)
            ELSE IF ~at(n + 3).eop THEN Fail(n + 4)
            ELSE LET p == at(0).of IN
                 /\ m_FEBsc_rmem_addr' = Plus(m_FEBsc_rmem_addr, n + 4)
                 /\ got' = Append(got, IF \A i \in 0..n+3 : at(i) = Word(p, i + 1)
                                       THEN p ELSE Garbage)
                 /\ ring' = IF ring = <<>> THEN ring ELSE Tail(ring)
                 /\ UNCHANGED <<sw, failed>>
  /\ UNCHANGED <<fpga_rmem_addr, resets, links, fifo, secondary, out>>

ReadEnd ==
  /\ sw = "parsing" /\ m_FEBsc_rmem_addr = fpga_rmem_addr
  /\ sw' = "idle"
  /\ UNCHANGED <<m_FEBsc_rmem_addr, fpga_rmem_addr, failed, resets, got, links, fifo,
                 secondary, out, ring>>

\* Mutant: only the software pointer is reset.
ResetPointerOnly ==
  /\ sw = "idle" /\ resets < MaxResets
  /\ resets' = resets + 1
  /\ m_FEBsc_rmem_addr' = 0
  /\ UNCHANGED <<sw, fpga_rmem_addr, failed, got, links, fifo, secondary, out, ring>>

\* FEBsc_resetSecondary. Answers that have begun are lost.
ResetSecondary ==
  /\ sw = "idle" /\ resets < MaxResets
  /\ sw' = "resetting" /\ resets' = resets + 1
  /\ m_FEBsc_rmem_addr' = 0
  /\ state' = "init" /\ current_link' = 0 /\ captured_link' = Cleared
  /\ mem_addr_o' = MemLen - 1 /\ o_mem_addr_finished' = MemLen - 1
  /\ fifo' = [l \in Link |-> <<>>]
  /\ out' = [l \in Link |-> <<>>] /\ ring' = <<>>
  /\ UNCHANGED <<links, mem, fpga_rmem_addr, failed, got>>

\* It returns when it sees bit 1 of the state code: waiting (2), capture_head (3),
\* or a pop (7 behind write_word, A in rearm_wait), but neither init nor a body word.
ResetDone ==
  /\ sw = "resetting" /\ state \in {"waiting", "capture_head", "wait_word", "rearm_wait"}
  /\ sw' = "idle"
  /\ UNCHANGED <<m_FEBsc_rmem_addr, fpga_rmem_addr, failed, resets, got, links, fifo,
                 secondary, out, ring>>

Software == ReadStart \/ ReadPacket \/ ReadEnd \/ ResetDone

-----------------------------------------------------------------------------
Next ==
  \/ \E l \in Link : Continue(l) \/ \E n \in DataLen : Begin(l, n)
  \/ Secondary
  \/ Software
  \/ ResetSecondary

Spec == Init /\ [][Next]_vars

\* The firmware is clocked, a board finishes the answer it has begun, and the
\* callers keep polling.
FairSpec ==
  /\ Spec /\ WF_vars(Secondary) /\ WF_vars(Software)
  /\ \A l \in Link : WF_vars(Continue(l))

-----------------------------------------------------------------------------
AnyWord == {Cleared} \cup UNION {{Word(p, i) : i \in 1..PacketLen(p)} : p \in Packet}

TypeOK ==
  /\ \A l \in Link : fifo[l] \in Seq(AnyWord) /\ Len(fifo[l]) <= FifoDepth
  /\ count \in [Link -> 0..MaxPackets]
  /\ state \in {"init", "waiting", "rearm_wait", "capture_head", "capture_body",
                "write_word", "wait_word"}
  /\ current_link \in Link /\ captured_link \in AnyWord
  /\ mem \in [0..MemLen-1 -> AnyWord]
  /\ {mem_addr_o, o_mem_addr_finished, m_FEBsc_rmem_addr, fpga_rmem_addr} \subseteq 0..MemLen-1
  /\ sw \in {"idle", "parsing", "resetting"}
  /\ failed \in BOOLEAN /\ resets \in 0..MaxResets

\* FEBsc_read_packets never returns -1 on an undamaged link: what lies between
\* its pointer and the published end is always a sequence of whole packets, also
\* across the end of the memory, while SC secondary writes the next one, and
\* after a reset in the middle of an answer.
NeverBroken == ~failed

\* Answers reach the deque whole, once and in link order.
Channel == INSTANCE ReplyChannel
ImplementsChannel == Channel!Spec

\* Every answer that a board begins reaches the deque, as long as nobody resets
\* SC secondary.
Fetched(p) == \E i \in 1..Len(got) : got[i] = p
EveryAnswerFetched ==
  \A l \in Link, n \in 1..MaxPackets :
    count[l] >= n ~> resets > 0 \/ \E i \in 1..Len(got) : got[i].link = l /\ got[i].n = n

\* A reset brings SC secondary back into service: every answer that a board
\* begins after the last reset is over reaches the deque.
ServesAfterReset ==
  \A p \in Packet :
    (resets = MaxResets /\ sw # "resetting" /\ \E i \in 1..Len(out[p.link]) : out[p.link][i] = p)
      ~> Fetched(p)
=============================================================================
