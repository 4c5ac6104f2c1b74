--------------------------- MODULE ReplyRingProofs ---------------------------
(***************************************************************************)
(* Proofs about ReplyRing, for any number of links, any lengths of the     *)
(* answers, of the memory and of the FIFOs, and any number of resets.      *)
(***************************************************************************)
EXTENDS ReplyRing, FiniteSetTheorems, SequenceTheorems, TLAPS

-----------------------------------------------------------------------------
(* Types. *)

Transmission == [packet : Packet, next : Nat]
States == {"init", "waiting", "rearm_wait", "capture_head", "capture_body", "write_word", "wait_word"}
Addr == 0..MemLen-1

RType ==
  /\ sending \in [Link -> Seq(Transmission)]
  /\ \A l \in Link : sending[l] # <<>> => sending[l][1].next \in 2..PacketLen(sending[l][1].packet)
  /\ count \in [Link -> 0..MaxPackets]
  /\ fifo \in [Link -> Seq(AnyWord)] /\ \A l \in Link : Len(fifo[l]) <= FifoDepth
  /\ state \in States /\ current_link \in Link /\ captured_link \in AnyWord
  /\ mem \in [Addr -> AnyWord] /\ mem_addr_o \in Addr /\ o_mem_addr_finished \in Addr
  /\ m_FEBsc_rmem_addr \in Addr /\ fpga_rmem_addr \in Addr
  /\ sw \in {"idle", "parsing", "resetting"} /\ failed \in BOOLEAN /\ resets \in 0..MaxResets

LEMMA SizeFacts ==
  /\ NLINKS \in Nat \ {0} /\ 0 \in Link /\ MemLen \in Nat \ {0} /\ FifoDepth \in Nat \ {0}
  /\ MaxUnread \in Nat \ {0} /\ MaxPackets \in Nat /\ MaxResets \in Nat
  /\ 0 \in Addr /\ MemLen - 1 \in Addr
  BY LinksAssumption, MemAssumption, FifoAssumption, BoundAssumption DEF Link, Addr

LEMMA PacketFacts ==
  ASSUME NEW p \in Packet
  PROVE  /\ p.link \in Link /\ p.n \in 1..MaxPackets /\ p.data \in DataLen /\ p.data \in Nat
         /\ PacketLen(p) \in Nat /\ PacketLen(p) = p.data + 4 /\ PacketLen(p) >= 4
<1>1. p.link \in Link /\ p.n \in 1..MaxPackets /\ p.data \in DataLen
  BY DEF Packet
<1>2. p.data \in Nat
  BY <1>1, DataAssumption
<1>. QED
  BY <1>1, <1>2 DEF PacketLen, MIN_SC_MESSAGE_SIZE

LEMMA WordIs ==
  ASSUME NEW p, NEW i
  PROVE  /\ Word(p, i).of = p /\ Word(p, i).pos = i
         /\ Word(p, i).sop <=> i = 1
         /\ Word(p, i).eop <=> i = PacketLen(p)
  BY DEF Word

LEMMA WordTyped ==
  ASSUME NEW p \in Packet, NEW i \in 1..PacketLen(p)
  PROVE  Word(p, i) \in AnyWord
  BY DEF AnyWord

LEMMA AnyWordIs ==
  /\ Cleared \in AnyWord
  /\ \A w \in AnyWord : w = Cleared \/ \E p \in Packet : \E i \in 1..PacketLen(p) : w = Word(p, i)
<1>1. Cleared \in AnyWord
  BY Zenon DEF AnyWord
<1>2. ASSUME NEW w \in AnyWord, w # Cleared
      PROVE  \E p \in Packet : \E i \in 1..PacketLen(p) : w = Word(p, i)
  BY <1>2 DEF AnyWord
<1>. QED
  BY <1>1, <1>2

LEMMA WordData ==
  ASSUME NEW w \in AnyWord
  PROVE  w.of.data \in Nat /\ w.pos \in Nat
<1>1. CASE w = Cleared
  BY <1>1 DEF Cleared, Garbage
<1>2. CASE w # Cleared
  <2>1. PICK p \in Packet : \E i \in 1..PacketLen(p) : w = Word(p, i)
    BY <1>2, AnyWordIs
  <2>2. PICK i \in 1..PacketLen(p) : w = Word(p, i)
    BY <2>1
  <2>3. p.data \in Nat /\ i \in Nat
    BY PacketFacts
  <2>. QED
    BY <2>2, <2>3, WordIs
<1>. QED
  BY <1>1, <1>2

LEMMA PlusTyped ==
  ASSUME NEW a \in Int, NEW n \in Int
  PROVE  Plus(a, n) \in Addr
  BY SizeFacts DEF Plus, Addr

LEMMA TypeInit == Init => RType
<1>. SUFFICES ASSUME Init PROVE RType
  OBVIOUS
<1>1. \A l \in Link : sending[l] = <<>> /\ fifo[l] = <<>> /\ Len(fifo[l]) = 0
  BY EmptySeq DEF Init
<1>2. /\ sending \in [Link -> Seq(Transmission)] /\ fifo \in [Link -> Seq(AnyWord)]
      /\ count \in [Link -> 0..MaxPackets]
  BY EmptySeq, SizeFacts DEF Init
<1>3. mem \in [Addr -> AnyWord]
  BY AnyWordIs DEF Init, Addr
<1>. QED
  BY <1>1, <1>2, <1>3, AnyWordIs, SizeFacts DEF Init, RType, States

\* A word reaches a FIFO or is lost.
LEMMA ToFifoTyped ==
  ASSUME RType, NEW l \in Link, NEW w \in AnyWord, ToFifo(l, w)
  PROVE  fifo' \in [Link -> Seq(AnyWord)] /\ \A k \in Link : Len(fifo'[k]) <= FifoDepth
<1>1. fifo[l] \in Seq(AnyWord) /\ Len(fifo[l]) \in Nat /\ fifo \in [Link -> Seq(AnyWord)]
      /\ \A k \in Link : Len(fifo[k]) <= FifoDepth
  BY LenProperties DEF RType
<1>2. CASE Len(fifo[l]) < FifoDepth
  <2>1. PICK q : q = Append(fifo[l], w) /\ q \in Seq(AnyWord) /\ Len(q) = Len(fifo[l]) + 1
    <3>1. Append(fifo[l], w) \in Seq(AnyWord) /\ Len(Append(fifo[l], w)) = Len(fifo[l]) + 1
      BY <1>1, AppendProperties
    <3>. QED
      BY <3>1
  <2>2. fifo' = [fifo EXCEPT ![l] = q]
    BY <1>2, <2>1 DEF ToFifo
  <2>3. Len(q) <= FifoDepth
    BY <1>1, <1>2, <2>1, SizeFacts
  <2>. QED
    BY <1>1, <2>1, <2>2, <2>3
<1>3. CASE ~(Len(fifo[l]) < FifoDepth)
  BY <1>1, <1>3 DEF ToFifo
<1>. QED
  BY <1>2, <1>3

LEMMA One ==
  ASSUME NEW x \in Transmission
  PROVE  <<x>> \in Seq(Transmission) /\ <<x>> # <<>> /\ <<x>>[1] = x
  OBVIOUS

LEMMA TypeOfBegin ==
  ASSUME RType, NEW l \in Link, NEW n \in DataLen, Begin(l, n)
  PROVE  RType'
<1>. DEFINE p == [link |-> l, n |-> count[l] + 1, data |-> n]
            x == [packet |-> p, next |-> 2]
<1>1. /\ count[l] < MaxPackets /\ sending' = [sending EXCEPT ![l] = <<x>>]
      /\ count' = [count EXCEPT ![l] = @ + 1] /\ ToFifo(l, Word(p, 1))
      /\ UNCHANGED <<secondary, software>>
  BY DEF Begin
<1>2. p \in Packet
  BY <1>1, SizeFacts DEF RType, Packet
<1>3. x \in Transmission /\ x.packet = p /\ x.next = 2 /\ PacketLen(p) \in Nat /\ PacketLen(p) >= 4
  BY <1>2, PacketFacts DEF Transmission
<1>4. Word(p, 1) \in AnyWord
  BY <1>2, <1>3, WordTyped
<1>. HIDE DEF p, x
<1>5. fifo' \in [Link -> Seq(AnyWord)] /\ \A k \in Link : Len(fifo'[k]) <= FifoDepth
  BY <1>1, <1>4, ToFifoTyped
<1>6. PICK s : s = <<x>> /\ s \in Seq(Transmission) /\ s[1] = x /\ sending' = [sending EXCEPT ![l] = s]
  BY <1>1, <1>3, One
<1>7. /\ sending' \in [Link -> Seq(Transmission)]
      /\ \A k \in Link : sending'[k] # <<>> => sending'[k][1].next \in 2..PacketLen(sending'[k][1].packet)
  BY <1>3, <1>6 DEF RType
<1>8. count' \in [Link -> 0..MaxPackets]
  BY <1>1, SizeFacts, SMTT(30) DEF RType
<1>. QED
  BY <1>1, <1>5, <1>7, <1>8 DEF RType, secondary, software

LEMMA SendingIs ==
  ASSUME RType, NEW l \in Link, sending[l] # <<>>
  PROVE  /\ sending[l][1] \in Transmission /\ sending[l][1].packet \in Packet
         /\ sending[l][1].next \in 2..PacketLen(sending[l][1].packet)
         /\ PacketLen(sending[l][1].packet) \in Nat
<1>1. sending[l] \in Seq(Transmission) /\ 1 \in 1..Len(sending[l])
  BY EmptySeq DEF RType
<1>2. sending[l][1] \in Transmission
  BY <1>1, ElementOfSeq
<1>3. sending[l][1].packet \in Packet
  BY <1>2 DEF Transmission
<1>. QED
  BY <1>2, <1>3, PacketFacts DEF RType

LEMMA TypeOfContinue ==
  ASSUME RType, NEW l \in Link, Continue(l)
  PROVE  RType'
<1>1. PICK s : s = sending[l][1] /\ sending[l] # <<>>
  BY DEF Continue
<1>2. /\ s \in Transmission /\ s.packet \in Packet /\ s.next \in 2..PacketLen(s.packet)
      /\ PacketLen(s.packet) \in Nat
  BY <1>1, SendingIs
<1>3. /\ ToFifo(l, Word(s.packet, s.next))
      /\ sending' = [sending EXCEPT ![l] = IF s.next = PacketLen(s.packet) THEN <<>>
                                           ELSE <<[s EXCEPT !.next = @ + 1]>>]
      /\ UNCHANGED <<count, secondary, software>>
  BY <1>1 DEF Continue
<1>4. Word(s.packet, s.next) \in AnyWord
  BY <1>2, WordTyped
<1>5. fifo' \in [Link -> Seq(AnyWord)] /\ \A k \in Link : Len(fifo'[k]) <= FifoDepth
  BY <1>3, <1>4, ToFifoTyped
<1>6. PICK q : /\ q \in Seq(Transmission) /\ sending' = [sending EXCEPT ![l] = q]
               /\ q # <<>> => q[1].next \in 2..PacketLen(q[1].packet)
  <2>1. CASE s.next = PacketLen(s.packet)
    BY <1>3, <2>1, EmptySeq
  <2>2. CASE s.next # PacketLen(s.packet)
    <3>1. PICK x : /\ x = [s EXCEPT !.next = @ + 1] /\ x \in Transmission
                   /\ x.next \in 2..PacketLen(x.packet)
      <4>. DEFINE y == [s EXCEPT !.next = @ + 1]
      <4>1. y \in Transmission /\ y.packet = s.packet /\ y.next = s.next + 1
        BY <1>2 DEF Transmission
      <4>2. s.next + 1 \in 2..PacketLen(s.packet)
        BY <1>2, <2>2
      <4>3. y.next \in 2..PacketLen(y.packet)
        BY <4>1, <4>2
      <4>. QED
        BY <4>1, <4>3
    <3>. QED
      BY <1>3, <2>2, <3>1, One
  <2>. QED
    BY <2>1, <2>2
<1>7. /\ sending' \in [Link -> Seq(Transmission)]
      /\ \A k \in Link : sending'[k] # <<>> => sending'[k][1].next \in 2..PacketLen(sending'[k][1].packet)
  BY <1>6 DEF RType
<1>. QED
  BY <1>3, <1>5, <1>7 DEF RType, secondary, software

\* The head of a FIFO and what is left without it.
LEMMA HeadOf ==
  ASSUME RType, NEW l \in Link, fifo[l] # <<>>
  PROVE  /\ Head(fifo[l]) = fifo[l][1] /\ Head(fifo[l]) \in AnyWord
         /\ Tail(fifo[l]) \in Seq(AnyWord)
         /\ Len(Tail(fifo[l])) = Len(fifo[l]) - 1 /\ Len(fifo[l]) \in Nat \ {0}
         /\ \A i \in 1..Len(fifo[l])-1 : Tail(fifo[l])[i] = fifo[l][i+1]
<1>1. fifo[l] \in Seq(AnyWord)
  BY DEF RType
<1>. QED
  BY <1>1, HeadTailProperties, EmptySeq

LEMMA TypeOfPop ==
  ASSUME RType, NEW l \in Link, fifo[l] # <<>>, fifo' = [fifo EXCEPT ![l] = Tail(@)]
  PROVE  fifo' \in [Link -> Seq(AnyWord)] /\ \A k \in Link : Len(fifo'[k]) <= FifoDepth
<1>1. PICK q : q = Tail(fifo[l]) /\ q \in Seq(AnyWord) /\ Len(q) <= FifoDepth
  <2>1. Tail(fifo[l]) \in Seq(AnyWord) /\ Len(Tail(fifo[l])) <= FifoDepth
    BY HeadOf, SizeFacts DEF RType
  <2>. QED
    BY <2>1
<1>2. fifo' = [fifo EXCEPT ![l] = q]
  BY <1>1
<1>. QED
  BY <1>1, <1>2 DEF RType

LEMMA TypeOfSecondary ==
  ASSUME RType, Secondary
  PROVE  RType'
<1>1. CASE Waiting
  BY <1>1 DEF Waiting, Goto, RType, States, links, software
<1>2. CASE RearmWait
  <2>1. /\ state' \in States
        /\ UNCHANGED <<current_link, captured_link, mem, mem_addr_o, o_mem_addr_finished, links, software>>
    BY <1>2 DEF RearmWait, Goto, States
  <2>2. fifo' \in [Link -> Seq(AnyWord)] /\ \A k \in Link : Len(fifo'[k]) <= FifoDepth
    <3>1. CASE UNCHANGED fifo
      BY <3>1 DEF RType
    <3>2. CASE ~UNCHANGED fifo
      <4>1. fifo[current_link] # <<>> /\ fifo' = [fifo EXCEPT ![current_link] = Tail(@)]
        BY <1>2, <3>2 DEF RearmWait
      <4>. QED
        BY <4>1, TypeOfPop DEF RType
    <3>. QED
      BY <3>1, <3>2
  <2>. QED
    BY <2>1, <2>2 DEF RType, links, software
<1>3. CASE CaptureWord
  <2>1. captured_link' \in AnyWord
    BY <1>3, HeadOf DEF CaptureWord, RType
  <2>. QED
    BY <1>3, <2>1 DEF CaptureWord, Goto, RType, States, links, software
<1>4. CASE WriteWord
  <2>1. /\ state' = "wait_word" /\ mem_addr_o' = Plus(mem_addr_o, 1)
        /\ mem' = [mem EXCEPT ![mem_addr_o'] = captured_link]
        /\ fifo' = [fifo EXCEPT ![current_link] = Tail(@)]
        /\ UNCHANGED <<current_link, captured_link, o_mem_addr_finished, links, software>>
    BY <1>4 DEF WriteWord
  <2>2. fifo' \in [Link -> Seq(AnyWord)] /\ \A k \in Link : Len(fifo'[k]) <= FifoDepth
    <3>1. PICK q : /\ q = Tail(fifo[current_link]) /\ q \in Seq(AnyWord) /\ Len(q) <= FifoDepth
      <4>1. CASE fifo[current_link] # <<>>
        <5>1. Tail(fifo[current_link]) \in Seq(AnyWord) /\ Len(Tail(fifo[current_link])) <= FifoDepth
          BY <4>1, HeadOf, SizeFacts DEF RType
        <5>. QED
          BY <5>1
      <4>2. CASE fifo[current_link] = <<>>
        <5>1. Tail(fifo[current_link]) \in Seq(AnyWord) /\ Len(Tail(fifo[current_link])) <= FifoDepth
          BY <4>2, SizeFacts
        <5>. QED
          BY <5>1
      <4>. QED
        BY <4>1, <4>2
    <3>2. fifo' = [fifo EXCEPT ![current_link] = q]
      BY <2>1, <3>1
    <3>. QED
      BY <3>1, <3>2 DEF RType
  <2>3. mem_addr_o' \in Addr
    <3>1. mem_addr_o \in Int
      BY SizeFacts DEF RType, Addr
    <3>. QED
      BY <2>1, <3>1, PlusTyped
  <2>4. mem' \in [Addr -> AnyWord]
    BY <2>1, <2>3 DEF RType
  <2>. QED
    BY <2>1, <2>2, <2>3, <2>4 DEF RType, States, links, software
<1>5. CASE WaitWord
  BY <1>5 DEF WaitWord, RType, States, links, software
<1>6. CASE InitDone
  BY <1>6, AnyWordIs DEF InitDone, RType, States, Addr, links, software
<1>. QED
  BY <1>1, <1>2, <1>3, <1>4, <1>5, <1>6 DEF Secondary

LEMMA TypeOfSoftware ==
  ASSUME RType, Software \/ ResetSecondary
  PROVE  RType'
<1>0. /\ m_FEBsc_rmem_addr \in Int /\ o_mem_addr_finished \in Int
      /\ \A i \in Int : Plus(m_FEBsc_rmem_addr, i) \in Addr /\ Plus(o_mem_addr_finished, i) \in Addr
  <2>1. m_FEBsc_rmem_addr \in Int /\ o_mem_addr_finished \in Int
    BY SizeFacts DEF RType, Addr
  <2>. QED
    BY <2>1, PlusTyped
<1>1. CASE ReadStart
  BY <1>0, <1>1 DEF ReadStart, RType, links, secondary
<1>2. CASE ReadPacket
  <2>1. /\ UNCHANGED <<fpga_rmem_addr, resets, links, fifo, secondary>>
        /\ sw' \in {sw, "idle"} /\ failed' \in {failed, TRUE}
        /\ m_FEBsc_rmem_addr' \in Addr
    <3>. DEFINE w == mem[Plus(m_FEBsc_rmem_addr, 2)]
    <3>0. Plus(m_FEBsc_rmem_addr, 2) \in Addr
      BY <1>0
    <3>1. w \in AnyWord
      BY <3>0 DEF RType
    <3>2. w.of.data \in Nat /\ DataLen \subseteq Nat
      BY <3>1, WordData, DataAssumption
    <3>. HIDE DEF w
    <3>3. UNCHANGED <<fpga_rmem_addr, resets, links, fifo, secondary>> /\ sw' \in {sw, "idle"}
          /\ failed' \in {failed, TRUE}
      BY <1>2 DEF ReadPacket
    <3>4. \/ m_FEBsc_rmem_addr' = Plus(m_FEBsc_rmem_addr, 0) \/ m_FEBsc_rmem_addr' = Plus(m_FEBsc_rmem_addr, 3)
          \/ \E n \in Nat : m_FEBsc_rmem_addr' = Plus(m_FEBsc_rmem_addr, n + 4)
      BY <1>2, <3>2 DEF ReadPacket, w
    <3>5. /\ Plus(m_FEBsc_rmem_addr, 0) \in Addr /\ Plus(m_FEBsc_rmem_addr, 3) \in Addr
          /\ \A n \in Nat : Plus(m_FEBsc_rmem_addr, n + 4) \in Addr
      BY <1>0
    <3>. QED
      BY <3>3, <3>4, <3>5
  <2>. QED
    BY <2>1 DEF RType, links, secondary
<1>3. CASE ReadEnd
  BY <1>3 DEF ReadEnd, RType, links, secondary
<1>4. CASE ResetDone
  BY <1>4 DEF ResetDone, RType, links, secondary
<1>5. CASE ResetSecondary
  <2>1. fifo' = [l \in Link |-> <<>>]
    BY <1>5 DEF ResetSecondary
  <2>2. fifo' \in [Link -> Seq(AnyWord)] /\ \A k \in Link : Len(fifo'[k]) <= FifoDepth
    <3>1. <<>> \in Seq(AnyWord) /\ Len(<<>>) <= FifoDepth
      BY EmptySeq, SizeFacts
    <3>. QED
      BY <2>1, <3>1
  <2>. QED
    BY <1>5, <2>2, SizeFacts, AnyWordIs DEF ResetSecondary, RType, States, links
<1>. QED
  BY <1>1, <1>2, <1>3, <1>4, <1>5 DEF Software

LEMMA TypeNext == RType /\ [Next]_vars => RType'
<1>. SUFFICES ASSUME RType, [Next]_vars PROVE RType'
  OBVIOUS
<1>1. CASE \E l \in Link : Continue(l) \/ \E n \in DataLen : Begin(l, n)
  BY <1>1, TypeOfBegin, TypeOfContinue
<1>2. CASE Secondary
  BY <1>2, TypeOfSecondary
<1>3. CASE Software \/ ResetSecondary
  BY <1>3, TypeOfSoftware
<1>4. CASE UNCHANGED vars
  BY <1>4 DEF vars, RType, links, secondary, software
<1>. QED
  BY <1>1, <1>2, <1>3, <1>4 DEF Next

LEMMA Typed == Spec => []RType
<1>. QED
  BY TypeInit, TypeNext, PTL DEF Spec

\* Type correctness of the links, both state machines, the memory and the addresses.
THEOREM TypeCorrect == Spec => []TypeOK
<1>1. RType => TypeOK
  BY DEF RType, TypeOK, States, Addr
<1>. QED
  BY <1>1, Typed, PTL

-----------------------------------------------------------------------------
(* Lengths and addresses. *)

\* The link FIFOs hold all answers that may be under way: no word is lost.
Room == \A n \in DataLen : MaxUnread * (n + 4) <= FifoDepth

\* A bound of the lengths of the answers.
IsLongest(x) ==
  /\ x \in Nat /\ \A n \in DataLen : n + 4 <= x
  /\ MaxUnread * x < MemLen /\ MaxUnread * x <= FifoDepth
Longest == CHOOSE x : IsLongest(x)
Times(i) == i * Longest

LEMMA MulMono ==
  ASSUME NEW u \in Nat, NEW a \in Nat, NEW b \in Nat, a <= b
  PROVE  u * a <= u * b /\ u * a \in Nat
<1>1. PICK c \in Nat : b = a + c
  <2>1. b - a \in Nat /\ b = a + (b - a)
    OBVIOUS
  <2>. QED
    BY <2>1
<1>2. u * b = u * a + u * c /\ u * c >= 0 /\ u * a >= 0
  BY <1>1
<1>. QED
  BY <1>2

LEMMA DivMod ==
  ASSUME NEW m \in Int, NEW u \in Nat \ {0}
  PROVE  \E q \in Int, r \in 0..u-1 : m = u * q + r /\ r = m % u
<1>1. m \div u \in Int /\ m % u \in 0..u-1 /\ m = u * (m \div u) + (m % u)
  OBVIOUS
<1>. QED
  BY <1>1

LEMMA LongestExists ==
  ASSUME Room
  PROVE  IsLongest(Longest)
<1>1. PICK m \in Nat : m < MemLen /\ m <= FifoDepth /\ (m = MemLen - 1 \/ m = FifoDepth)
  <2>1. CASE MemLen - 1 < FifoDepth
    BY <2>1, SizeFacts
  <2>2. CASE ~(MemLen - 1 < FifoDepth)
    BY <2>2, SizeFacts
  <2>. QED
    BY <2>1, <2>2
<1>2. \A n \in DataLen : n \in Nat /\ MaxUnread * (n + 4) <= m
  <2>. SUFFICES ASSUME NEW n \in DataLen PROVE n \in Nat /\ MaxUnread * (n + 4) <= m
    OBVIOUS
  <2>1. n \in Nat /\ MaxUnread * (n + 4) <= FifoDepth /\ MaxUnread * (n + 4) < MemLen
    BY DataAssumption, MemAssumption DEF Room
  <2>2. PICK y \in Nat : y = MaxUnread * (n + 4)
    <3>1. MaxUnread * (n + 4) \in Nat
      BY <2>1, SizeFacts
    <3>. QED
      BY <3>1
  <2>. QED
    BY <1>1, <2>1, <2>2, SizeFacts
<1>3. PICK q \in Int, r \in 0..MaxUnread-1 : m = MaxUnread * q + r
  <2>1. MaxUnread \in Nat \ {0} /\ m \in Int
    BY SizeFacts
  <2>. QED
    BY <2>1, DivMod
<1>4. q \in Nat
  <2>. SUFFICES ASSUME q <= 0 - 1 PROVE FALSE
    BY <1>3
  <2>1. MaxUnread * (0 - q) >= MaxUnread * 1
    <3>1. 0 - q \in Nat /\ 1 <= 0 - q
      OBVIOUS
    <3>. QED
      BY <3>1, MulMono, SizeFacts
  <2>2. MaxUnread * (0 - q) = 0 - MaxUnread * q
    BY SizeFacts
  <2>. QED
    BY <1>1, <1>3, <2>1, <2>2, SizeFacts
<1>5. ASSUME NEW n \in DataLen PROVE n + 4 <= q
  <2>. SUFFICES ASSUME q + 1 <= n + 4 PROVE FALSE
    BY <1>2, <1>4
  <2>1. MaxUnread * (q + 1) <= MaxUnread * (n + 4)
    <3>1. q + 1 \in Nat /\ n + 4 \in Nat /\ MaxUnread \in Nat
      BY <1>2, <1>4, SizeFacts
    <3>. QED
      BY <3>1, MulMono
  <2>2. MaxUnread * (q + 1) = MaxUnread * q + MaxUnread
    BY <1>4, SizeFacts
  <2>3. MaxUnread * (n + 4) <= m
    BY <1>2
  <2>4. PICK y \in Nat : y = MaxUnread * (n + 4)
    <3>1. MaxUnread * (n + 4) \in Nat
      BY <1>2, SizeFacts
    <3>. QED
      BY <3>1
  <2>5. PICK z \in Nat : z = MaxUnread * q
    <3>1. MaxUnread * q \in Nat
      BY <1>4, SizeFacts
    <3>. QED
      BY <3>1
  <2>. QED
    BY <1>1, <1>3, <2>1, <2>2, <2>3, <2>4, <2>5, SizeFacts
<1>6. IsLongest(q)
  <2>1. PICK z \in Nat : z = MaxUnread * q
    <3>1. MaxUnread * q \in Nat
      BY <1>4, SizeFacts
    <3>. QED
      BY <3>1
  <2>2. z < MemLen /\ z <= FifoDepth
    BY <1>1, <1>3, <2>1, SizeFacts
  <2>. QED
    BY <1>4, <1>5, <2>1, <2>2 DEF IsLongest
<1>. QED
  BY <1>6 DEF Longest

\* All that is known of Longest and its multiples.
LEMMA TimesFacts ==
  ASSUME Room
  PROVE  /\ Longest \in Nat /\ \A p \in Packet : PacketLen(p) <= Longest
         /\ \A i \in Nat : /\ Times(i) \in Nat /\ Times(i + 1) = Times(i) + Longest
                           /\ i <= MaxUnread => Times(i) < MemLen /\ Times(i) <= FifoDepth
         /\ Times(0) = 0 /\ Times(1) = Longest
         /\ \A i, j \in Nat : i <= j => Times(i) <= Times(j)
<1>1. Longest \in Nat /\ (\A n \in DataLen : n + 4 <= Longest)
      /\ MaxUnread * Longest < MemLen /\ MaxUnread * Longest <= FifoDepth
  BY LongestExists DEF IsLongest
<1>2. \A p \in Packet : PacketLen(p) <= Longest
  BY <1>1, PacketFacts
<1>3. \A i, j \in Nat : i <= j => Times(i) <= Times(j) /\ Times(i) \in Nat
  <2>. SUFFICES ASSUME NEW i \in Nat, NEW j \in Nat, i <= j
                PROVE  i * Longest <= j * Longest /\ i * Longest \in Nat
    BY DEF Times
  <2>1. Longest * i <= Longest * j /\ Longest * i \in Nat
    BY <1>1, MulMono
  <2>2. Longest * i = i * Longest /\ Longest * j = j * Longest
    BY <1>1
  <2>. QED
    BY <2>1, <2>2
<1>4. \A i \in Nat : Times(i) \in Nat /\ Times(i + 1) = Times(i) + Longest
  <2>1. \A i \in Nat : (i + 1) * Longest = i * Longest + Longest
    BY <1>1
  <2>. QED
    BY <1>3, <2>1 DEF Times
<1>5. Times(0) = 0 /\ Times(1) = Longest
  BY <1>1 DEF Times
<1>6. Times(MaxUnread) < MemLen /\ Times(MaxUnread) <= FifoDepth
  BY <1>1 DEF Times
<1>7. ASSUME NEW i \in Nat, i <= MaxUnread PROVE Times(i) < MemLen /\ Times(i) <= FifoDepth
  <2>1. Times(i) <= Times(MaxUnread) /\ Times(i) \in Nat /\ Times(MaxUnread) \in Nat
    BY <1>3, <1>7, SizeFacts
  <2>. QED
    BY <1>6, <2>1, SizeFacts
<1>. QED
  BY <1>1, <1>2, <1>3, <1>4, <1>5, <1>7

LEMMA ModForm ==
  ASSUME NEW a \in Int
  PROVE  \E q \in Int, r \in 0..MemLen-1 : a = MemLen * q + r /\ r = a % MemLen
<1>1. MemLen \in Nat \ {0}
  BY SizeFacts
<1>. QED
  BY <1>1, DivMod

LEMMA ModIs ==
  ASSUME NEW r \in 0..MemLen-1, NEW q \in Int, NEW a \in Int, a = MemLen * q + r
  PROVE  a % MemLen = r
<1>1. PICK q2 \in Int, r2 \in 0..MemLen-1 : a = MemLen * q2 + r2 /\ r2 = a % MemLen
  BY ModForm
<1>2. MemLen * (q - q2) = r2 - r
  BY <1>1, SizeFacts
<1>3. ~(q - q2 >= 1)
  <2>. SUFFICES ASSUME q - q2 >= 1 PROVE FALSE
    OBVIOUS
  <2>1. MemLen * 1 <= MemLen * (q - q2)
    BY MulMono, SizeFacts
  <2>. QED
    BY <1>1, <1>2, <2>1, SizeFacts
<1>4. ~(q2 - q >= 1)
  <2>. SUFFICES ASSUME q2 - q >= 1 PROVE FALSE
    OBVIOUS
  <2>1. MemLen * 1 <= MemLen * (q2 - q)
    BY MulMono, SizeFacts
  <2>2. MemLen * (q2 - q) = r - r2
    BY <1>1, SizeFacts
  <2>. QED
    BY <1>1, <2>1, <2>2, SizeFacts
<1>5. q = q2
  BY <1>3, <1>4
<1>6. PICK z \in Int : z = MemLen * q /\ z = MemLen * q2
  <2>1. MemLen * q \in Int
    BY SizeFacts
  <2>. QED
    BY <1>5, <2>1
<1>7. r = r2
  <2>1. a = z + r /\ a = z + r2 /\ r \in Int /\ r2 \in Int
    BY <1>1, <1>6, SizeFacts
  <2>. QED
    BY <2>1
<1>. QED
  BY <1>1, <1>7

\* Advancing an address, the distance of two addresses, and two less than a lap apart.
LEMMA ModAdd ==
  ASSUME NEW a \in Int, NEW n \in Int
  PROVE  Plus(a % MemLen, n) = (a + n) % MemLen /\ a % MemLen \in Addr
<1>1. PICK q \in Int, r \in 0..MemLen-1 : a = MemLen * q + r /\ r = a % MemLen
  BY ModForm
<1>2. PICK q2 \in Int, r2 \in 0..MemLen-1 : r + n = MemLen * q2 + r2 /\ r2 = (r + n) % MemLen
  <2>1. r + n \in Int
    BY SizeFacts
  <2>. QED
    BY <2>1, ModForm
<1>3. a + n = MemLen * (q + q2) + r2
  <2>1. MemLen * (q + q2) = MemLen * q + MemLen * q2 /\ MemLen * q \in Int /\ MemLen * q2 \in Int
    BY SizeFacts
  <2>2. r \in Int /\ r2 \in Int
    BY SizeFacts
  <2>3. a = MemLen * q + r /\ r + n = MemLen * q2 + r2
    BY <1>1, <1>2
  <2>. QED
    BY <2>1, <2>2, <2>3
<1>4. (a + n) % MemLen = r2
  BY <1>3, ModIs
<1>. QED
  BY <1>1, <1>2, <1>4 DEF Plus, Addr

LEMMA ModTyped ==
  ASSUME NEW a \in Int
  PROVE  a % MemLen \in Addr
  BY SizeFacts DEF Addr

LEMMA ModDiff ==
  ASSUME NEW a \in Int, NEW d \in 0..MemLen-1
  PROVE  (((a + d) % MemLen) - (a % MemLen)) % MemLen = d
<1>1. PICK q \in Int, r \in 0..MemLen-1 : a = MemLen * q + r /\ r = a % MemLen
  BY ModForm
<1>2. PICK q2 \in Int, r2 \in 0..MemLen-1 : a + d = MemLen * q2 + r2 /\ r2 = (a + d) % MemLen
  <2>1. a + d \in Int
    BY SizeFacts
  <2>. QED
    BY <2>1, ModForm
<1>3. r2 - r = MemLen * (q - q2) + d
  BY <1>1, <1>2, SizeFacts
<1>4. (r2 - r) % MemLen = d
  BY <1>3, ModIs
<1>. QED
  BY <1>1, <1>2, <1>4

LEMMA Apart ==
  ASSUME NEW a \in Int, NEW b \in Int, a < b, b - a < MemLen
  PROVE  b % MemLen # a % MemLen
<1>1. b - a \in 0..MemLen-1 /\ b = a + (b - a)
  BY SizeFacts
<1>2. ((b % MemLen) - (a % MemLen)) % MemLen = b - a
  BY <1>1, ModDiff
<1>3. 0 % MemLen = 0
  <2>1. 0 \in 0..MemLen-1 /\ 0 = MemLen * 0 + 0
    BY SizeFacts
  <2>. QED
    BY <2>1, ModIs
<1>4. a % MemLen \in Int
  BY SizeFacts
<1>5. ASSUME b % MemLen = a % MemLen PROVE FALSE
  <2>1. (b % MemLen) - (a % MemLen) = 0
    BY <1>4, <1>5
  <2>. QED
    BY <1>2, <1>3, <2>1
<1>. QED
  BY <1>5

-----------------------------------------------------------------------------
(* The answers on the links, counted. *)

Outs == [Link -> Seq(Packet)]
InFlight(o) == UNION {{l} \X (1..Len(o[l])) : l \in Link}

LEMMA OutLen ==
  ASSUME NEW o \in Outs, NEW l \in Link
  PROVE  o[l] \in Seq(Packet) /\ Len(o[l]) \in Nat
<1>1. o[l] \in Seq(Packet)
  BY DEF Outs
<1>. QED
  BY <1>1, LenProperties

LEMMA InFlightIs ==
  ASSUME NEW o
  PROVE  \A x : x \in InFlight(o) <=> \E l \in Link : \E i \in 1..Len(o[l]) : x = <<l, i>>
<1>1. ASSUME NEW x, x \in InFlight(o) PROVE \E l \in Link : \E i \in 1..Len(o[l]) : x = <<l, i>>
  <2>1. PICK l \in Link : x \in {l} \X (1..Len(o[l]))
    BY <1>1 DEF InFlight
  <2>2. PICK k \in {l}, i \in 1..Len(o[l]) : x = <<k, i>>
    BY <2>1
  <2>. QED
    BY <2>2
<1>2. ASSUME NEW l \in Link, NEW i \in 1..Len(o[l]) PROVE <<l, i>> \in InFlight(o)
  BY DEF InFlight
<1>. QED
  BY <1>1, <1>2

LEMMA InFlightAt ==
  ASSUME NEW o, NEW x \in InFlight(o)
  PROVE  \E l \in Link : \E i \in 1..Len(o[l]) : x = <<l, i>>
  BY InFlightIs

LEMMA InFlightFinite ==
  ASSUME NEW o \in Outs
  PROVE  IsFiniteSet(InFlight(o)) /\ Cardinality(InFlight(o)) \in Nat
<1>. DEFINE f == [l \in Link |-> {l} \X (1..Len(o[l]))]
            T == {{l} \X (1..Len(o[l])) : l \in Link}
<1>1. f \in Surjection(Link, T)
  BY DEF Surjection
<1>2. IsFiniteSet(Link)
  <2>1. 0 \in Int /\ NLINKS - 1 \in Int
    BY SizeFacts
  <2>. QED
    BY <2>1, FS_Interval DEF Link
<1>3. IsFiniteSet(T)
  <2>. HIDE DEF f, T
  <2>. QED
    BY <1>1, <1>2, FS_Surjection
<1>4. ASSUME NEW t \in T PROVE IsFiniteSet(t)
  <2>1. PICK l \in Link : t = {l} \X (1..Len(o[l]))
    BY <1>4
  <2>2. IsFiniteSet({l}) /\ IsFiniteSet(1..Len(o[l]))
    <3>1. 1 \in Int /\ Len(o[l]) \in Int
      BY OutLen
    <3>. QED
      BY <3>1, FS_Interval, FS_Singleton
  <2>. QED
    BY <2>1, <2>2, FS_Product
<1>5. IsFiniteSet(UNION T)
  <2>. HIDE DEF f, T
  <2>. QED
    BY <1>3, <1>4, FS_UNION
<1>6. IsFiniteSet(InFlight(o))
  BY <1>5 DEF InFlight
<1>. QED
  BY <1>6, FS_CardinalityType

LEMMA FlightAppend ==
  ASSUME NEW o \in Outs, NEW l \in Link, NEW p \in Packet, NEW q
  PROVE  q = [o EXCEPT ![l] = Append(@, p)] =>
           q \in Outs /\ Cardinality(InFlight(q)) = Cardinality(InFlight(o)) + 1
<1>0. SUFFICES ASSUME q = [o EXCEPT ![l] = Append(@, p)]
               PROVE  q \in Outs /\ Cardinality(InFlight(q)) = Cardinality(InFlight(o)) + 1
  OBVIOUS
<1>1. PICK a : a = Append(o[l], p) /\ a \in Seq(Packet) /\ Len(a) = Len(o[l]) + 1
  <2>1. Append(o[l], p) \in Seq(Packet) /\ Len(Append(o[l], p)) = Len(o[l]) + 1
    BY OutLen, AppendProperties
  <2>. QED
    BY <2>1
<1>2. q = [o EXCEPT ![l] = a]
  BY <1>0, <1>1
<1>3. q \in Outs /\ q[l] = a /\ \A k \in Link : k # l => q[k] = o[k]
  BY <1>1, <1>2 DEF Outs
<1>. DEFINE x == <<l, Len(o[l]) + 1>>
<1>4. ASSUME NEW y PROVE y \in InFlight(q) <=> y \in InFlight(o) \cup {x}
  <2>1. ASSUME y \in InFlight(q) PROVE y \in InFlight(o) \cup {x}
    <3>1. PICK k \in Link : \E i \in 1..Len(q[k]) : y = <<k, i>>
      BY <2>1, InFlightAt
    <3>2. PICK i \in 1..Len(q[k]) : y = <<k, i>>
      BY <3>1
    <3>3. i \in 1..Len(o[k]) \/ (k = l /\ i = Len(o[l]) + 1)
      BY <1>1, <1>3, OutLen
    <3>. QED
      BY <3>2, <3>3, InFlightIs
  <2>2. ASSUME y \in InFlight(o) PROVE y \in InFlight(q)
    <3>1. PICK k \in Link : \E i \in 1..Len(o[k]) : y = <<k, i>>
      BY <2>2, InFlightIs
    <3>2. PICK i \in 1..Len(o[k]) : y = <<k, i>>
      BY <3>1
    <3>3. i \in 1..Len(q[k])
      BY <1>1, <1>3, OutLen
    <3>. QED
      BY <3>2, <3>3, InFlightIs
  <2>3. x \in InFlight(q)
    <3>1. Len(o[l]) + 1 \in 1..Len(q[l])
      BY <1>1, <1>3, OutLen
    <3>. QED
      BY <3>1, InFlightIs
  <2>. QED
    BY <2>1, <2>2, <2>3
<1>5. x \notin InFlight(o)
  <2>1. ASSUME NEW k \in Link, NEW i \in 1..Len(o[k]), x = <<k, i>> PROVE FALSE
    <3>1. k = l /\ i = Len(o[l]) + 1
      BY <2>1
    <3>. QED
      BY <3>1, OutLen
  <2>. QED
    BY <2>1, InFlightIs
<1>. HIDE DEF x
<1>6. InFlight(q) = InFlight(o) \cup {x}
  BY <1>4
<1>. QED
  BY <1>3, <1>5, <1>6, InFlightFinite, FS_AddElement

LEMMA FlightTail ==
  ASSUME NEW o \in Outs, NEW l \in Link, o[l] # <<>>, NEW q
  PROVE  q = [o EXCEPT ![l] = Tail(@)] =>
           q \in Outs /\ Cardinality(InFlight(q)) = Cardinality(InFlight(o)) - 1
<1>0. SUFFICES ASSUME q = [o EXCEPT ![l] = Tail(@)]
               PROVE  q \in Outs /\ Cardinality(InFlight(q)) = Cardinality(InFlight(o)) - 1
  OBVIOUS
<1>1. PICK a : a = Tail(o[l]) /\ a \in Seq(Packet) /\ Len(a) = Len(o[l]) - 1
  <2>1. Tail(o[l]) \in Seq(Packet) /\ Len(Tail(o[l])) = Len(o[l]) - 1
    BY OutLen, HeadTailProperties
  <2>. QED
    BY <2>1
<1>2. q = [o EXCEPT ![l] = a]
  BY <1>0, <1>1
<1>3. q \in Outs /\ q[l] = a /\ \A k \in Link : k # l => q[k] = o[k]
  BY <1>1, <1>2 DEF Outs
<1>. DEFINE x == <<l, Len(o[l])>>
<1>4. ASSUME NEW y PROVE y \in InFlight(q) <=> y \in InFlight(o) \ {x}
  <2>1. ASSUME y \in InFlight(q) PROVE y \in InFlight(o) \ {x}
    <3>1. PICK k \in Link : \E i \in 1..Len(q[k]) : y = <<k, i>>
      BY <2>1, InFlightAt
    <3>2. PICK i \in 1..Len(q[k]) : y = <<k, i>>
      BY <3>1
    <3>3. i \in 1..Len(o[k]) /\ (k = l => i # Len(o[l]))
      <4>1. CASE k = l
        <5>1. Len(o[l]) \in Nat /\ Len(q[k]) = Len(o[l]) - 1
          BY <1>1, <1>3, <4>1, OutLen
        <5>. QED
          BY <4>1, <5>1
      <4>2. CASE k # l
        <5>1. q[k] = o[k]
          BY <1>3, <4>2
        <5>. QED
          BY <4>2, <5>1
      <4>. QED
        BY <4>1, <4>2
    <3>. QED
      BY <3>2, <3>3, InFlightIs
  <2>2. ASSUME y \in InFlight(o), y # x PROVE y \in InFlight(q)
    <3>1. PICK k \in Link : \E i \in 1..Len(o[k]) : y = <<k, i>>
      BY <2>2, InFlightIs
    <3>2. PICK i \in 1..Len(o[k]) : y = <<k, i>>
      BY <3>1
    <3>3. i \in 1..Len(q[k])
      <4>1. CASE k = l
        <5>1. Len(o[l]) \in Nat /\ Len(q[k]) = Len(o[l]) - 1 /\ i \in 1..Len(o[l])
          BY <1>1, <1>3, <4>1, OutLen
        <5>2. i # Len(o[l])
          BY <2>2, <3>2, <4>1
        <5>. QED
          BY <5>1, <5>2
      <4>2. CASE k # l
        <5>1. q[k] = o[k]
          BY <1>3, <4>2
        <5>. QED
          BY <5>1
      <4>. QED
        BY <4>1, <4>2
    <3>. QED
      BY <3>2, <3>3, InFlightIs
  <2>. QED
    BY <2>1, <2>2
<1>5. x \in InFlight(o)
  <2>1. Len(o[l]) \in 1..Len(o[l])
    BY OutLen, EmptySeq
  <2>. QED
    BY <2>1, InFlightIs
<1>. HIDE DEF x
<1>6. InFlight(q) = InFlight(o) \ {x}
  BY <1>4
<1>. QED
  BY <1>3, <1>5, <1>6, InFlightFinite, FS_RemoveElement

LEMMA FlightAt ==
  ASSUME NEW o \in Outs, NEW l \in Link
  PROVE  Len(o[l]) <= Cardinality(InFlight(o))
<1>. DEFINE S == {l} \X (1..Len(o[l]))
<1>1. S \subseteq InFlight(o)
  BY DEF InFlight
<1>2. Cardinality(S) = Len(o[l])
  <2>1. IsFiniteSet({l}) /\ Cardinality({l}) = 1
    BY FS_Singleton
  <2>2. IsFiniteSet(1..Len(o[l])) /\ Cardinality(1..Len(o[l])) = Len(o[l])
    <3>1. 1 \in Int /\ Len(o[l]) \in Int /\ Len(o[l]) \in Nat
      BY OutLen
    <3>. QED
      BY <3>1, FS_Interval
  <2>3. Cardinality(S) = Cardinality({l}) * Cardinality(1..Len(o[l]))
    BY <2>1, <2>2, FS_Product
  <2>. QED
    BY <2>1, <2>2, <2>3, OutLen
<1>. HIDE DEF S
<1>. QED
  BY <1>1, <1>2, InFlightFinite, FS_Subset

LEMMA FlightNone ==
  ASSUME NEW o, o = [l \in Link |-> <<>>]
  PROVE  o \in Outs /\ Cardinality(InFlight(o)) = 0
<1>1. o \in Outs
  BY EmptySeq DEF Outs
<1>2. ASSUME NEW x \in InFlight(o) PROVE FALSE
  <2>1. PICK l \in Link : \E i \in 1..Len(o[l]) : x = <<l, i>>
    BY InFlightIs
  <2>2. Len(o[l]) = 0
    BY EmptySeq
  <2>. QED
    BY <2>1, <2>2
<1>. QED
  BY <1>1, <1>2, FS_EmptySet

-----------------------------------------------------------------------------
(* Where the answers of a sequence begin, if they lie one behind the other. *)

Starts(s, P) ==
  /\ s \in [1..Len(P)+1 -> Int]
  /\ \A k \in 1..Len(P) : s[k+1] = s[k] + PacketLen(P[k])
  /\ \A j, k \in 1..Len(P)+1 : j <= k => s[j] <= s[k] /\ s[k] - s[j] <= Times(k - j)

LEMMA StartsAt ==
  ASSUME NEW P \in Seq(Packet), NEW s, Starts(s, P), NEW k \in 1..Len(P)
  PROVE  /\ Len(P) \in Nat /\ P[k] \in Packet /\ PacketLen(P[k]) \in Nat /\ PacketLen(P[k]) >= 4
         /\ {s[1], s[k], s[k+1], s[Len(P)+1]} \subseteq Int
         /\ s[k+1] = s[k] + PacketLen(P[k])
         /\ s[1] <= s[k] /\ s[k+1] <= s[Len(P)+1]
<1>1. Len(P) \in Nat /\ P[k] \in Packet
  BY LenProperties, ElementOfSeq
<1>2. {1, k, k + 1, Len(P) + 1} \subseteq 1..Len(P)+1 /\ 1 <= k /\ k + 1 <= Len(P) + 1
  BY <1>1
<1>. QED
  BY <1>1, <1>2, PacketFacts DEF Starts

LEMMA StartsEnds ==
  ASSUME NEW P \in Seq(Packet), NEW s, Starts(s, P)
  PROVE  /\ Len(P) \in Nat /\ s[1] \in Int /\ s[Len(P)+1] \in Int
         /\ s[1] <= s[Len(P)+1] /\ s[Len(P)+1] - s[1] <= Times(Len(P))
<1>1. Len(P) \in Nat
  BY LenProperties
<1>2. 1 \in 1..Len(P)+1 /\ Len(P) + 1 \in 1..Len(P)+1 /\ 1 <= Len(P) + 1 /\ Len(P) + 1 - 1 = Len(P)
  BY <1>1
<1>. QED
  BY <1>1, <1>2 DEF Starts

LEMMA StartsNone ==
  ASSUME Room, NEW a \in Int
  PROVE  \E s : Starts(s, <<>>) /\ s[1] = a
<1>. DEFINE s == [k \in 1..1 |-> a]
<1>1. Len(<<>>) = 0
  BY EmptySeq
<1>2. \A k \in 1..0 : FALSE
  OBVIOUS
<1>3. \A j, k \in 1..1 : s[j] <= s[k] /\ s[k] - s[j] <= Times(k - j)
  <2>. SUFFICES ASSUME NEW j \in 1..1, NEW k \in 1..1 PROVE s[j] <= s[k] /\ s[k] - s[j] <= Times(k - j)
    OBVIOUS
  <2>1. j = 1 /\ k = 1 /\ k - j = 0 /\ s[j] = a /\ s[k] = a
    OBVIOUS
  <2>. QED
    BY <2>1, TimesFacts
<1>4. s \in [1..1 -> Int] /\ s[1] = a
  OBVIOUS
<1>. HIDE DEF s
<1>5. Starts(s, <<>>)
  <2>1. Len(<<>>) + 1 = 1
    BY <1>1
  <2>. QED
    BY <1>1, <1>2, <1>3, <1>4, <2>1 DEF Starts
<1>. QED
  BY <1>4, <1>5

LEMMA StartsShift ==
  ASSUME NEW P \in Seq(Packet), NEW s, Starts(s, P), NEW a \in Int
  PROVE  \E r : Starts(r, P) /\ \A k \in 1..Len(P)+1 : r[k] = s[k] + a
<1>. DEFINE r == [k \in 1..Len(P)+1 |-> s[k] + a]
<1>1. Len(P) \in Nat /\ s \in [1..Len(P)+1 -> Int]
  BY LenProperties DEF Starts
<1>2. r \in [1..Len(P)+1 -> Int] /\ \A k \in 1..Len(P)+1 : r[k] = s[k] + a
  BY <1>1
<1>. HIDE DEF r
<1>3. ASSUME NEW k \in 1..Len(P) PROVE r[k+1] = r[k] + PacketLen(P[k])
  <2>1. r[k] = s[k] + a /\ r[k+1] = s[k+1] + a
    BY <1>1, <1>2
  <2>. QED
    BY <2>1, StartsAt
<1>4. ASSUME NEW j \in 1..Len(P)+1, NEW k \in 1..Len(P)+1, j <= k
      PROVE  r[j] <= r[k] /\ r[k] - r[j] <= Times(k - j)
  <2>1. s[j] \in Int /\ s[k] \in Int /\ s[j] <= s[k] /\ s[k] - s[j] <= Times(k - j)
    BY <1>1, <1>4 DEF Starts
  <2>2. r[k] - r[j] = s[k] - s[j] /\ r[j] <= r[k]
    BY <1>2, <2>1
  <2>. QED
    BY <2>1, <2>2
<1>5. Starts(r, P)
  BY <1>2, <1>3, <1>4 DEF Starts
<1>. QED
  BY <1>2, <1>5

LEMMA StartsTail ==
  ASSUME NEW P \in Seq(Packet), P # <<>>, NEW s, Starts(s, P)
  PROVE  \E r : Starts(r, Tail(P)) /\ \A k \in 1..Len(P) : r[k] = s[k+1]
<1>1. PICK n \in Nat : Len(P) = n + 1
  <2>1. Len(P) \in Nat \ {0}
    BY EmptySeq
  <2>2. Len(P) - 1 \in Nat /\ Len(P) = (Len(P) - 1) + 1
    BY <2>1
  <2>. QED
    BY <2>2
<1>2. Tail(P) \in Seq(Packet) /\ Len(Tail(P)) = n /\ \A k \in 1..n : Tail(P)[k] = P[k+1]
  BY <1>1, HeadTailProperties
<1>. DEFINE r == [k \in 1..n+1 |-> s[k+1]]
<1>3. s \in [1..n+2 -> Int]
  BY <1>1 DEF Starts
<1>4. r \in [1..n+1 -> Int] /\ \A k \in 1..n+1 : r[k] = s[k+1]
  BY <1>3
<1>. HIDE DEF r
<1>5. ASSUME NEW k \in 1..n PROVE r[k+1] = r[k] + PacketLen(Tail(P)[k])
  <2>1. k + 1 \in 1..Len(P) /\ Tail(P)[k] = P[k+1] /\ r[k] = s[k+1] /\ r[k+1] = s[(k+1)+1]
    BY <1>1, <1>2, <1>4
  <2>. QED
    BY <2>1, StartsAt
<1>6. ASSUME NEW j \in 1..n+1, NEW k \in 1..n+1, j <= k
      PROVE  r[j] <= r[k] /\ r[k] - r[j] <= Times(k - j)
  <2>1. j + 1 \in 1..Len(P)+1 /\ k + 1 \in 1..Len(P)+1 /\ j + 1 <= k + 1 /\ (k + 1) - (j + 1) = k - j
    BY <1>1, <1>6
  <2>2. s[j+1] <= s[k+1] /\ s[k+1] - s[j+1] <= Times((k + 1) - (j + 1))
    BY <2>1 DEF Starts
  <2>. QED
    BY <1>4, <2>1, <2>2
<1>7. Starts(r, Tail(P))
  BY <1>2, <1>4, <1>5, <1>6 DEF Starts
<1>. QED
  BY <1>1, <1>4, <1>7

LEMMA StartsAppend ==
  ASSUME Room, NEW P \in Seq(Packet), NEW s, Starts(s, P), NEW p \in Packet
  PROVE  \E r : /\ Starts(r, Append(P, p)) /\ \A k \in 1..Len(P)+1 : r[k] = s[k]
                /\ r[Len(P)+2] = s[Len(P)+1] + PacketLen(p)
<1>1. PICK n \in Nat : Len(P) = n
  BY LenProperties
<1>2. PICK Q : /\ Q = Append(P, p) /\ Len(Q) = n + 1 /\ Q[n+1] = p /\ \A k \in 1..n : Q[k] = P[k]
  <2>1. /\ Len(Append(P, p)) = n + 1 /\ Append(P, p)[n+1] = p
        /\ \A k \in 1..n : Append(P, p)[k] = P[k]
    BY <1>1, AppendProperties
  <2>. QED
    BY <2>1
<1>3. PacketLen(p) \in Nat /\ PacketLen(p) <= Longest /\ Longest \in Nat
  BY PacketFacts, TimesFacts
<1>. DEFINE r == [k \in 1..n+2 |-> IF k = n + 2 THEN s[n+1] + PacketLen(p) ELSE s[k]]
<1>4. s \in [1..n+1 -> Int]
  BY <1>1 DEF Starts
<1>5. /\ r \in [1..n+2 -> Int] /\ \A k \in 1..n+1 : r[k] = s[k]
      /\ r[n+2] = s[n+1] + PacketLen(p)
  <2>1. n + 2 \in 1..n+2 /\ n + 1 \in 1..n+1 /\ \A k \in 1..n+2 : k # n + 2 => k \in 1..n+1
    BY <1>1
  <2>2. \A k \in 1..n+1 : k \in 1..n+2 /\ k # n + 2
    BY <1>1
  <2>3. s[n+1] + PacketLen(p) \in Int
    BY <1>3, <1>4, <2>1
  <2>. QED
    BY <1>4, <2>1, <2>2, <2>3
<1>. HIDE DEF r
<1>6. ASSUME NEW k \in 1..n+1 PROVE r[k+1] = r[k] + PacketLen(Q[k])
  <2>1. CASE k = n + 1
    BY <1>2, <1>5, <2>1
  <2>2. CASE k # n + 1
    <3>1. k \in 1..Len(P) /\ Q[k] = P[k] /\ r[k] = s[k] /\ r[k+1] = s[k+1]
      BY <1>1, <1>2, <1>5, <2>2
    <3>. QED
      BY <3>1, StartsAt
  <2>. QED
    BY <2>1, <2>2
<1>7. ASSUME NEW j \in 1..n+2, NEW k \in 1..n+2, j <= k
      PROVE  r[j] <= r[k] /\ r[k] - r[j] <= Times(k - j)
  <2>1. CASE k # n + 2
    <3>1. j \in 1..Len(P)+1 /\ k \in 1..Len(P)+1 /\ r[j] = s[j] /\ r[k] = s[k]
      BY <1>1, <1>5, <1>7, <2>1
    <3>. QED
      BY <1>7, <3>1 DEF Starts
  <2>2. CASE k = n + 2 /\ j = n + 2
    <3>1. r[k] \in Int /\ r[k] = r[j] /\ k - j = 0 /\ r[k] - r[j] = 0 /\ r[j] <= r[k]
      BY <1>5, <2>2
    <3>2. Times(0) = 0
      BY TimesFacts
    <3>3. Times(k - j) = 0
      BY <3>1, <3>2
    <3>. QED
      BY <3>1, <3>3
  <2>3. CASE k = n + 2 /\ j # n + 2
    <3>1. PICK i \in Nat : i = n + 1 - j /\ k - j = i + 1
      <4>1. n + 1 - j \in Nat /\ k - j = (n + 1 - j) + 1
        BY <2>3
      <4>. QED
        BY <4>1
    <3>2. /\ j \in 1..Len(P)+1 /\ n + 1 \in 1..Len(P)+1 /\ j <= n + 1
          /\ r[j] = s[j] /\ r[k] = s[n+1] + PacketLen(p)
      BY <1>1, <1>5, <2>3
    <3>3. s[j] <= s[n+1] /\ s[n+1] - s[j] <= Times(i)
      BY <3>1, <3>2 DEF Starts
    <3>4. Times(i + 1) = Times(i) + Longest /\ Times(i) \in Nat
      BY TimesFacts
    <3>5. s[j] \in Int /\ s[n+1] \in Int
      BY <1>1, <1>4, <3>2
    <3>. QED
      BY <1>3, <3>1, <3>2, <3>3, <3>4, <3>5, SMTT(30)
  <2>. QED
    BY <2>1, <2>2, <2>3
<1>8. Starts(r, Q)
  <2>1. Len(Q) + 1 = n + 2
    BY <1>2
  <2>. QED
    BY <1>2, <1>5, <1>6, <1>7, <2>1 DEF Starts
<1>. QED
  BY <1>1, <1>2, <1>5, <1>8

-----------------------------------------------------------------------------
(***************************************************************************)
(* A FIFO and the answers of its link: from the w+1st word of the first    *)
(* answer on, f holds the words of P one behind the other, as far as the   *)
(* board has sent the last of them.                                        *)
(***************************************************************************)
Laid(t, f, P, s, w) ==
  /\ t[1] = 1 - w
  /\ s = <<>> => Len(f) = t[Len(P)+1] - 1
  /\ s # <<>> => P # <<>> /\ s[1].packet = P[Len(P)] /\ Len(f) = t[Len(P)] + s[1].next - 2
  /\ \A k \in 1..Len(P) : \A i \in 1..PacketLen(P[k]) :
       t[k] + i - 1 \in 1..Len(f) => f[t[k] + i - 1] = Word(P[k], i)
Whole(f, P, s, w) == \E t : Starts(t, P) /\ Laid(t, f, P, s, w)

\* What a reset in the middle of an answer leaves: no word begins an answer here.
Headless(f, s) == IF f = <<>> THEN s # <<>> ELSE ~Head(f).sop

LEMMA Appended ==
  ASSUME NEW f \in Seq(AnyWord), NEW x \in AnyWord
  PROVE  \E g : /\ g = Append(f, x) /\ g \in Seq(AnyWord) /\ g # <<>> /\ Len(f) \in Nat
                /\ Len(g) = Len(f) + 1 /\ g[Len(f)+1] = x /\ \A i \in 1..Len(f) : g[i] = f[i]
<1>1. /\ Append(f, x) \in Seq(AnyWord) /\ Len(f) \in Nat /\ Len(Append(f, x)) = Len(f) + 1
      /\ Append(f, x)[Len(f)+1] = x /\ \A i \in 1..Len(f) : Append(f, x)[i] = f[i]
  BY AppendProperties, LenProperties
<1>2. Append(f, x) # <<>>
  BY <1>1, EmptySeq
<1>. QED
  BY <1>1, <1>2

LEMMA HeadlessAppend ==
  ASSUME NEW f \in Seq(AnyWord), NEW x \in AnyWord, NEW s, NEW r, Headless(f, s), f = <<>> => ~x.sop
  PROVE  Headless(Append(f, x), r)
<1>1. PICK g : /\ g = Append(f, x) /\ g \in Seq(AnyWord) /\ g # <<>> /\ Len(f) \in Nat
               /\ Len(g) = Len(f) + 1 /\ g[Len(f)+1] = x /\ \A i \in 1..Len(f) : g[i] = f[i]
  BY Appended
<1>2. Head(g) = g[1]
  BY <1>1, HeadTailProperties
<1>3. CASE f = <<>>
  <2>1. Len(f) = 0
    BY <1>3, EmptySeq
  <2>. QED
    BY <1>1, <1>2, <1>3, <2>1 DEF Headless
<1>4. CASE f # <<>>
  <2>1. 1 \in 1..Len(f) /\ Head(f) = f[1]
    BY <1>4, EmptySeq, HeadTailProperties
  <2>. QED
    BY <1>1, <1>2, <1>4, <2>1 DEF Headless
<1>. QED
  BY <1>3, <1>4

LEMMA WholeNone ==
  ASSUME Room
  PROVE  Whole(<<>>, <<>>, <<>>, 0)
<1>1. PICK t : Starts(t, <<>>) /\ t[1] = 1
  BY StartsNone
<1>2. Len(<<>>) = 0 /\ 0 + 1 = 1 /\ 1 - 1 = 0 /\ 1 - 0 = 1
  BY EmptySeq
<1>3. \A k \in 1..0 : FALSE
  OBVIOUS
<1>. QED
  BY <1>1, <1>2, <1>3 DEF Whole, Laid

LEMMA WholeBegin ==
  ASSUME Room, NEW f \in Seq(AnyWord), NEW P \in Seq(Packet), NEW w \in Int, Whole(f, P, <<>>, w),
         NEW p \in Packet, NEW s, s # <<>>, s[1].packet = p, s[1].next = 2
  PROVE  Whole(Append(f, Word(p, 1)), Append(P, p), s, w)
<1>1. PICK t : Starts(t, P) /\ Laid(t, f, P, <<>>, w)
  BY DEF Whole
<1>2. Word(p, 1) \in AnyWord
  <2>1. 1 \in 1..PacketLen(p)
    BY PacketFacts
  <2>. QED
    BY <2>1, WordTyped
<1>3. PICK g : /\ g = Append(f, Word(p, 1)) /\ g \in Seq(AnyWord) /\ g # <<>> /\ Len(f) \in Nat
               /\ Len(g) = Len(f) + 1 /\ g[Len(f)+1] = Word(p, 1) /\ \A i \in 1..Len(f) : g[i] = f[i]
  BY <1>2, Appended
<1>4. PICK n \in Nat : Len(P) = n
  BY LenProperties
<1>5. PICK r : /\ Starts(r, Append(P, p)) /\ \A k \in 1..n+1 : r[k] = t[k]
               /\ r[n+2] = t[n+1] + PacketLen(p)
  <2>1. Starts(t, P)
    BY <1>1
  <2>2. \E r : /\ Starts(r, Append(P, p)) /\ \A k \in 1..Len(P)+1 : r[k] = t[k]
               /\ r[Len(P)+2] = t[Len(P)+1] + PacketLen(p)
    BY <2>1, StartsAppend
  <2>. QED
    BY <1>4, <2>2
<1>6. PICK Q : /\ Q = Append(P, p) /\ Len(Q) = n + 1 /\ Q[n+1] = p /\ Q # <<>>
               /\ \A k \in 1..n : Q[k] = P[k]
  <2>1. /\ Append(P, p) \in Seq(Packet) /\ Len(Append(P, p)) = n + 1 /\ Append(P, p)[n+1] = p
        /\ \A k \in 1..n : Append(P, p)[k] = P[k]
    BY <1>4, AppendProperties
  <2>2. Append(P, p) # <<>>
    BY <2>1, EmptySeq
  <2>. QED
    BY <2>1, <2>2
<1>7. t[1] = 1 - w /\ Len(f) = t[n+1] - 1 /\ t[n+1] \in Int
  BY <1>1, <1>4, StartsEnds DEF Laid
<1>8. r[1] = 1 - w /\ r[n+1] = t[n+1]
  BY <1>5, <1>7
<1>9. s[1].packet = Q[Len(Q)] /\ Len(g) = r[Len(Q)] + s[1].next - 2
  BY <1>3, <1>6, <1>7, <1>8
<1>10. ASSUME NEW k \in 1..Len(Q), NEW i \in 1..PacketLen(Q[k]), r[k] + i - 1 \in 1..Len(g)
       PROVE  g[r[k] + i - 1] = Word(Q[k], i)
  <2>1. CASE k = n + 1
    <3>1. PacketLen(p) \in Nat /\ i \in 1..PacketLen(p)
      BY <1>6, <1>10, <2>1, PacketFacts
    <3>2. r[k] = t[n+1]
      BY <1>8, <2>1
    <3>3. i = 1 /\ r[k] + i - 1 = Len(f) + 1
      <4>1. t[n+1] + i - 1 <= Len(g) /\ i \in Nat /\ i >= 1
        BY <1>10, <3>1, <3>2
      <4>2. i = 1 /\ t[n+1] + i - 1 = Len(f) + 1
        BY <1>3, <1>7, <4>1, SMTT(30)
      <4>. QED
        BY <3>2, <4>2
    <3>. QED
      BY <1>3, <1>6, <2>1, <3>3
  <2>2. CASE k # n + 1
    <3>1. k \in 1..Len(P) /\ k \in 1..n+1 /\ Q[k] = P[k] /\ r[k] = t[k]
      BY <1>4, <1>5, <1>6, <2>2
    <3>2. t[k] \in Int /\ PacketLen(P[k]) \in Nat /\ t[k] + PacketLen(P[k]) <= t[n+1]
      BY <1>1, <1>4, <3>1, StartsAt
    <3>3. i \in 1..PacketLen(P[k]) /\ t[k] + i - 1 \in 1..Len(f)
      <4>1. i \in 1..PacketLen(P[k]) /\ 1 <= t[k] + i - 1
        BY <1>10, <3>1
      <4>2. t[k] + i - 1 <= Len(f)
        <5>1. i \in Int /\ i <= PacketLen(P[k])
          BY <3>2, <4>1
        <5>2. t[k] + i - 1 <= t[n+1] - 1
          BY <1>7, <3>2, <5>1, SMTT(30)
        <5>. QED
          BY <1>7, <5>2
      <4>. QED
        BY <1>3, <3>2, <4>1, <4>2
    <3>4. f[t[k] + i - 1] = Word(P[k], i)
      BY <1>1, <3>1, <3>3 DEF Laid
    <3>. QED
      BY <1>3, <3>1, <3>3, <3>4
  <2>. QED
    BY <2>1, <2>2
<1>11. Laid(r, g, Q, s, w)
  BY <1>6, <1>8, <1>9, <1>10 DEF Laid
<1>. QED
  BY <1>3, <1>5, <1>6, <1>11 DEF Whole

Sends(s) == s # <<>> => s[1].packet \in Packet /\ s[1].next \in 2..PacketLen(s[1].packet)

LEMMA WholeContinue ==
  ASSUME NEW f \in Seq(AnyWord), NEW P \in Seq(Packet), NEW w \in Int, NEW s, s # <<>>, Sends(s),
         Whole(f, P, s, w), NEW r,
         IF s[1].next = PacketLen(s[1].packet) THEN r = <<>>
         ELSE r # <<>> /\ r[1].packet = s[1].packet /\ r[1].next = s[1].next + 1
  PROVE  Whole(Append(f, Word(s[1].packet, s[1].next)), P, r, w)
<1>1. PICK t : Starts(t, P) /\ Laid(t, f, P, s, w)
  BY DEF Whole
<1>2. PICK p \in Packet, n \in Nat : p = s[1].packet /\ n = s[1].next /\ n \in 2..PacketLen(p)
  <2>1. s[1].packet \in Packet /\ s[1].next \in 2..PacketLen(s[1].packet)
    BY DEF Sends
  <2>. QED
    BY <2>1
<1>3. PacketLen(p) \in Nat /\ n >= 2 /\ n <= PacketLen(p)
  BY <1>2, PacketFacts
<1>4. Word(p, n) \in AnyWord
  BY <1>2, <1>3, WordTyped
<1>5. PICK g : /\ g = Append(f, Word(p, n)) /\ g \in Seq(AnyWord) /\ g # <<>> /\ Len(f) \in Nat
               /\ Len(g) = Len(f) + 1 /\ g[Len(f)+1] = Word(p, n) /\ \A i \in 1..Len(f) : g[i] = f[i]
  BY <1>4, Appended
<1>6. PICK m \in Nat : m = Len(P) /\ m \in 1..Len(P) /\ P # <<>> /\ P[m] = p
  <2>1. P # <<>> /\ P[Len(P)] = p
    BY <1>1, <1>2 DEF Laid
  <2>2. Len(P) \in Nat \ {0}
    BY <2>1, EmptySeq
  <2>. QED
    BY <2>1, <2>2
<1>7. /\ t[1] = 1 - w /\ Len(f) = t[m] + n - 2 /\ t[m] \in Int /\ t[m+1] \in Int
      /\ t[m+1] = t[m] + PacketLen(p)
  <2>1. t[1] = 1 - w /\ Len(f) = t[m] + n - 2
    BY <1>1, <1>2, <1>6 DEF Laid
  <2>. QED
    BY <1>1, <1>6, <2>1, StartsAt
<1>8. /\ r = <<>> => Len(g) = t[m+1] - 1
      /\ r # <<>> => r[1].packet = P[m] /\ Len(g) = t[m] + r[1].next - 2
  <2>1. CASE n = PacketLen(p)
    <3>1. r = <<>>
      BY <1>2, <2>1
    <3>2. Len(g) = t[m+1] - 1
      BY <1>3, <1>5, <1>7, <2>1, SMTT(30)
    <3>. QED
      BY <3>1, <3>2
  <2>2. CASE n # PacketLen(p)
    <3>1. r # <<>> /\ r[1].packet = p /\ r[1].next = n + 1
      BY <1>2, <2>2
    <3>2. Len(g) = t[m] + (n + 1) - 2
      BY <1>2, <1>5, <1>7, SMTT(30)
    <3>. QED
      BY <1>6, <3>1, <3>2
  <2>. QED
    BY <2>1, <2>2
<1>9. ASSUME NEW k \in 1..Len(P), NEW i \in 1..PacketLen(P[k]), t[k] + i - 1 \in 1..Len(g)
      PROVE  g[t[k] + i - 1] = Word(P[k], i)
  <2>1. t[k] \in Int /\ i \in Int /\ PacketLen(P[k]) \in Nat /\ i <= PacketLen(P[k])
    BY <1>1, <1>9, StartsAt
  <2>2. CASE t[k] + i - 1 \in 1..Len(f)
    <3>1. f[t[k] + i - 1] = Word(P[k], i)
      BY <1>1, <2>2 DEF Laid
    <3>. QED
      BY <1>5, <2>2, <3>1
  <2>3. CASE ~(t[k] + i - 1 \in 1..Len(f))
    <3>1. t[k] + i - 1 = Len(f) + 1
      BY <1>5, <1>9, <2>1, <2>3
    <3>2. k = m
      <4>. SUFFICES ASSUME k # m PROVE FALSE
        OBVIOUS
      <4>1. k + 1 \in 1..Len(P)+1 /\ m \in 1..Len(P)+1 /\ k + 1 <= m
        BY <1>6
      <4>2. t[k+1] <= t[m] /\ t[k+1] = t[k] + PacketLen(P[k])
        BY <1>1, <4>1 DEF Starts
      <4>3. t[m] \in Int /\ t[m] <= Len(f)
        BY <1>3, <1>7, SMTT(30)
      <4>4. t[k] + i - 1 <= t[m] - 1
        BY <2>1, <4>2, <4>3, SMTT(30)
      <4>5. t[k] + i - 1 <= Len(f)
        BY <1>5, <2>1, <4>3, <4>4, SMTT(30)
      <4>. QED
        BY <1>5, <2>1, <3>1, <4>5
    <3>3. i = n
      <4>1. Len(f) = t[m] + n - 2 /\ t[m] \in Int /\ n \in Nat /\ i \in Int
        BY <1>2, <1>7, <2>1
      <4>2. t[m] + i - 1 = Len(f) + 1
        BY <3>1, <3>2
      <4>. QED
        BY <4>1, <4>2, SMTT(30)
    <3>. QED
      BY <1>5, <1>6, <3>1, <3>2, <3>3
  <2>. QED
    BY <2>2, <2>3
<1>10. Laid(t, g, P, r, w)
  BY <1>6, <1>7, <1>8, <1>9 DEF Laid
<1>. QED
  BY <1>1, <1>2, <1>5, <1>10 DEF Whole

\* The next word finds room in the FIFO.
LEMMA WholeRoom ==
  ASSUME Room, NEW f \in Seq(AnyWord), NEW P \in Seq(Packet), NEW w \in Nat, NEW s, Sends(s),
         Whole(f, P, s, w), NEW p \in Packet, IF s = <<>> THEN Len(P) < MaxUnread ELSE Len(P) <= MaxUnread
  PROVE  Len(f) < FifoDepth
<1>1. PICK t : Starts(t, P) /\ Laid(t, f, P, s, w)
  BY DEF Whole
<1>2. PICK m \in Nat : m = Len(P)
  BY LenProperties
<1>3. PICK a \in Int, b \in Int : /\ a = t[1] /\ b = t[m+1] /\ b - a <= Times(m) /\ a <= 1
  <2>1. t[1] \in Int /\ t[m+1] \in Int /\ t[m+1] - t[1] <= Times(m)
    BY <1>1, <1>2, StartsEnds
  <2>2. t[1] <= 1
    BY <1>1 DEF Laid
  <2>. QED
    BY <2>1, <2>2
<1>4. PICK e \in Nat : e = Len(f)
  BY LenProperties
<1>5. PICK x \in Nat, y \in Nat : x = Times(m) /\ y = Times(m + 1) /\ y >= x + 4
  <2>1. PacketLen(p) <= Longest /\ Longest \in Nat /\ Times(m) \in Nat
        /\ Times(m + 1) = Times(m) + Longest
    BY TimesFacts
  <2>2. Longest >= 4
    BY <2>1, PacketFacts
  <2>. QED
    BY <2>1, <2>2
<1>6. b - a <= x /\ a <= 1 /\ FifoDepth \in Int
  BY <1>3, <1>5, SizeFacts
<1>7. CASE s = <<>>
  <2>1. e = b - 1
    BY <1>1, <1>2, <1>3, <1>4, <1>7 DEF Laid
  <2>2. m + 1 \in Nat /\ m + 1 <= MaxUnread
    BY <1>2, <1>7, SizeFacts
  <2>3. y <= FifoDepth
    BY <1>5, <2>2, TimesFacts
  <2>4. y >= x + 4
    BY <1>5
  <2>5. e < FifoDepth
    BY <1>6, <2>1, <2>3, <2>4
  <2>. QED
    BY <1>4, <2>5
<1>8. CASE s # <<>>
  <2>1. P # <<>> /\ s[1].packet = P[m] /\ e = t[m] + s[1].next - 2
    BY <1>1, <1>2, <1>4, <1>8 DEF Laid
  <2>2. m \in 1..Len(P)
    BY <1>2, <2>1, EmptySeq
  <2>3. PICK d \in Int : d = t[m] /\ b = d + PacketLen(P[m]) /\ PacketLen(P[m]) \in Nat
    BY <1>1, <1>3, <2>2, StartsAt
  <2>4. PICK n \in Nat, q \in Nat : n = s[1].next /\ q = PacketLen(P[m]) /\ n <= q
    <3>1. s[1].next \in 2..PacketLen(P[m])
      BY <1>8, <2>1 DEF Sends
    <3>2. s[1].next \in Nat /\ s[1].next <= PacketLen(P[m])
      BY <2>3, <3>1
    <3>. QED
      BY <2>3, <3>2
  <2>5. e <= b - 2
    <3>1. e = d + n - 2 /\ b = d + q
      BY <2>1, <2>3, <2>4
    <3>. QED
      BY <2>4, <3>1, SMTT(30)
  <2>6. x <= FifoDepth
    BY <1>2, <1>5, <1>8, TimesFacts
  <2>7. e < FifoDepth
    BY <1>6, <2>5, <2>6
  <2>. QED
    BY <1>4, <2>7
<1>. QED
  BY <1>7, <1>8

LEMMA WholePop ==
  ASSUME NEW f \in Seq(AnyWord), f # <<>>, NEW P \in Seq(Packet), NEW w \in Int, NEW s, Sends(s),
         Whole(f, P, s, w)
  PROVE  Whole(Tail(f), P, s, w + 1)
<1>1. PICK t : Starts(t, P) /\ Laid(t, f, P, s, w)
  BY DEF Whole
<1>2. PICK r : Starts(r, P) /\ \A k \in 1..Len(P)+1 : r[k] = t[k] - 1
  <2>1. PICK r : Starts(r, P) /\ \A k \in 1..Len(P)+1 : r[k] = t[k] + (0 - 1)
    <3>1. 0 - 1 \in Int
      OBVIOUS
    <3>. QED
      BY <1>1, <3>1, StartsShift
  <2>2. \A k \in 1..Len(P)+1 : t[k] \in Int
    BY <1>1 DEF Starts
  <2>. QED
    BY <2>1, <2>2
<1>3. PICK e \in Nat : /\ Len(f) = e + 1 /\ Len(Tail(f)) = e
                       /\ \A i \in 1..e : Tail(f)[i] = f[i+1]
  <2>1. Len(f) \in Nat \ {0}
    BY EmptySeq
  <2>2. Len(f) - 1 \in Nat /\ Len(f) = (Len(f) - 1) + 1
    BY <2>1
  <2>3. Len(Tail(f)) = Len(f) - 1 /\ \A i \in 1..Len(f)-1 : Tail(f)[i] = f[i+1]
    BY HeadTailProperties
  <2>. QED
    BY <2>2, <2>3
<1>. DEFINE g == Tail(f)
<1>. HIDE DEF g
<1>11. Len(g) = e /\ \A i \in 1..e : g[i] = f[i+1]
  BY <1>3 DEF g
<1>4. PICK m \in Nat : m = Len(P)
  BY LenProperties
<1>5. r[1] = t[1] - 1 /\ t[1] = 1 - w /\ r[m+1] = t[m+1] - 1 /\ t[m+1] \in Int
  <2>1. 1 \in 1..Len(P)+1 /\ m + 1 \in 1..Len(P)+1
    BY <1>4
  <2>2. t[1] = 1 - w
    BY <1>1 DEF Laid
  <2>. QED
    BY <1>1, <1>2, <1>4, <2>1, <2>2, StartsEnds
<1>6. s = <<>> => Len(g) = r[m+1] - 1
  <2>. SUFFICES ASSUME s = <<>> PROVE Len(g) = r[m+1] - 1
    OBVIOUS
  <2>1. e + 1 = t[m+1] - 1
    BY <1>1, <1>3, <1>4 DEF Laid
  <2>. QED
    BY <1>11, <1>5, <2>1
<1>7. s # <<>> => P # <<>> /\ s[1].packet = P[m] /\ Len(g) = r[m] + s[1].next - 2
  <2>. SUFFICES ASSUME s # <<>> PROVE P # <<>> /\ s[1].packet = P[m] /\ Len(g) = r[m] + s[1].next - 2
    OBVIOUS
  <2>1. P # <<>> /\ s[1].packet = P[m] /\ e + 1 = t[m] + s[1].next - 2
    BY <1>1, <1>3, <1>4 DEF Laid
  <2>2. m \in 1..Len(P) /\ m \in 1..Len(P)+1
    BY <1>4, <2>1, EmptySeq
  <2>3. t[m] \in Int /\ r[m] = t[m] - 1
    BY <1>1, <1>2, <2>2, StartsAt
  <2>4. s[1].next \in Int
    <3>1. s[1].packet \in Packet /\ s[1].next \in 2..PacketLen(s[1].packet)
      BY DEF Sends
    <3>. QED
      BY <3>1, PacketFacts
  <2>5. PICK d \in Int, n \in Int : d = t[m] /\ n = s[1].next
    BY <2>3, <2>4
  <2>6. e + 1 = d + n - 2 /\ r[m] = d - 1
    BY <2>1, <2>3, <2>5
  <2>7. e = (d - 1) + n - 2
    BY <2>6
  <2>. QED
    BY <1>11, <2>1, <2>5, <2>6, <2>7
<1>8. ASSUME NEW k \in 1..Len(P), NEW i \in 1..PacketLen(P[k]), r[k] + i - 1 \in 1..Len(g)
      PROVE  g[r[k] + i - 1] = Word(P[k], i)
  <2>1. t[k] \in Int /\ PacketLen(P[k]) \in Nat
    BY <1>1, StartsAt
  <2>2. i \in Int /\ r[k] = t[k] - 1
    BY <1>2, <1>4, <2>1
  <2>3. t[k] + i - 1 \in 1..Len(f) /\ (r[k] + i - 1) + 1 = t[k] + i - 1
    <3>1. PICK d \in Int : d = t[k] /\ r[k] = d - 1
      BY <2>1, <2>2
    <3>2. (d - 1) + i - 1 \in 1..e
      BY <1>11, <1>8, <3>1
    <3>3. d + i - 1 \in 1..e+1 /\ ((d - 1) + i - 1) + 1 = d + i - 1
      BY <2>2, <3>2
    <3>. QED
      BY <1>3, <3>1, <3>3
  <2>4. f[t[k] + i - 1] = Word(P[k], i)
    BY <1>1, <2>3 DEF Laid
  <2>5. g[r[k] + i - 1] = f[(r[k] + i - 1) + 1]
    BY <1>11, <1>8
  <2>. QED
    BY <2>3, <2>4, <2>5
<1>9. r[1] = 1 - (w + 1)
  BY <1>5
<1>10. Laid(r, g, P, s, w + 1)
  BY <1>4, <1>6, <1>7, <1>8, <1>9 DEF Laid
<1>. QED
  BY <1>2, <1>10 DEF Whole, g

\* A FIFO that holds a word has an answer on its link, and the head is its next word.
LEMMA WholeHead ==
  ASSUME NEW f \in Seq(AnyWord), f # <<>>, NEW P \in Seq(Packet), NEW w \in Nat, NEW s, Whole(f, P, s, w)
  PROVE  /\ w = 0 => P # <<>>
         /\ P # <<>> /\ w < PacketLen(P[1]) => Head(f) = Word(P[1], w + 1) /\ w + 1 \in 1..PacketLen(P[1])
<1>1. PICK t : Starts(t, P) /\ Laid(t, f, P, s, w)
  BY DEF Whole
<1>2. Len(f) \in Nat \ {0} /\ Head(f) = f[1] /\ 1 \in 1..Len(f)
  BY EmptySeq, HeadTailProperties
<1>3. ASSUME w = 0, P = <<>> PROVE FALSE
  <2>1. Len(P) = 0 /\ Len(P) + 1 = 1
    BY <1>3, EmptySeq
  <2>2. t[1] = 1 /\ Len(f) = t[1] - 1
    BY <1>1, <1>3, <2>1 DEF Laid
  <2>. QED
    BY <1>2, <2>2
<1>4. ASSUME P # <<>>, w < PacketLen(P[1])
      PROVE  Head(f) = Word(P[1], w + 1) /\ w + 1 \in 1..PacketLen(P[1])
  <2>1. 1 \in 1..Len(P)
    BY <1>4, EmptySeq
  <2>2. PacketLen(P[1]) \in Nat
    BY <1>1, <2>1, StartsAt
  <2>3. w + 1 \in 1..PacketLen(P[1]) /\ t[1] = 1 - w /\ t[1] + (w + 1) - 1 = 1
    BY <1>1, <1>4, <2>2 DEF Laid
  <2>4. f[t[1] + (w + 1) - 1] = Word(P[1], w + 1)
    BY <1>1, <1>2, <2>1, <2>3 DEF Laid
  <2>. QED
    BY <1>2, <2>3, <2>4
<1>. QED
  BY <1>3, <1>4

\* SC secondary has taken the first answer over.
LEMMA WholeDone ==
  ASSUME NEW f \in Seq(AnyWord), NEW P \in Seq(Packet), P # <<>>, NEW s, Sends(s),
         Whole(f, P, s, PacketLen(P[1]))
  PROVE  Whole(f, Tail(P), s, 0)
<1>1. PICK t : Starts(t, P) /\ Laid(t, f, P, s, PacketLen(P[1]))
  BY DEF Whole
<1>2. PICK m \in Nat : Len(P) = m + 1
  <2>1. Len(P) \in Nat \ {0}
    BY EmptySeq
  <2>2. Len(P) - 1 \in Nat /\ Len(P) = (Len(P) - 1) + 1
    BY <2>1
  <2>. QED
    BY <2>2
<1>3. PICK Q : /\ Q = Tail(P) /\ Q \in Seq(Packet) /\ Len(Q) = m /\ \A k \in 1..m : Q[k] = P[k+1]
  <2>1. Tail(P) \in Seq(Packet) /\ Len(Tail(P)) = m /\ \A k \in 1..m : Tail(P)[k] = P[k+1]
    BY <1>2, HeadTailProperties
  <2>. QED
    BY <2>1
<1>4. PICK r : Starts(r, Q) /\ \A k \in 1..m+1 : r[k] = t[k+1]
  BY <1>1, <1>2, <1>3, StartsTail
<1>5. 1 \in 1..Len(P) /\ m + 1 \in 1..Len(P)
  BY <1>2
<1>6. PICK n \in Nat : n = PacketLen(P[1]) /\ t[1] = 1 - n /\ r[1] = 1
  <2>1. PacketLen(P[1]) \in Nat /\ t[1+1] = t[1] + PacketLen(P[1])
    BY <1>1, <1>5, StartsAt
  <2>2. t[1] = 1 - PacketLen(P[1])
    BY <1>1 DEF Laid
  <2>3. t[1+1] = 1 /\ 1 \in 1..m+1
    BY <2>1, <2>2
  <2>4. r[1] = t[1+1]
    BY <1>4, <2>3
  <2>. QED
    BY <2>1, <2>2, <2>3, <2>4
<1>7. s = <<>> => Len(f) = r[Len(Q)+1] - 1
  <2>. SUFFICES ASSUME s = <<>> PROVE Len(f) = r[m+1] - 1
    BY <1>3
  <2>1. Len(f) = t[m+1+1] - 1 /\ r[m+1] = t[m+1+1]
    BY <1>1, <1>2, <1>4 DEF Laid
  <2>. QED
    BY <2>1
<1>8. s # <<>> => Q # <<>> /\ s[1].packet = Q[Len(Q)] /\ Len(f) = r[Len(Q)] + s[1].next - 2
  <2>. SUFFICES ASSUME s # <<>>
       PROVE  Q # <<>> /\ s[1].packet = Q[m] /\ Len(f) = r[m] + s[1].next - 2
    BY <1>3
  <2>1. s[1].packet = P[m+1] /\ Len(f) = t[m+1] + s[1].next - 2
    BY <1>1, <1>2 DEF Laid
  <2>2. m # 0
    <3>. SUFFICES ASSUME m = 0 PROVE FALSE
      OBVIOUS
    <3>1. s[1].packet = P[1] /\ Len(f) = t[1] + s[1].next - 2
      BY <2>1
    <3>2. s[1].next \in 2..n
      BY <1>6, <3>1 DEF Sends
    <3>3. Len(f) = 1 - n + s[1].next - 2 /\ Len(f) \in Nat
      BY <1>6, <3>1, LenProperties
    <3>. QED
      BY <3>2, <3>3
  <2>3. m \in 1..m /\ m \in 1..m+1
    BY <2>2
  <2>4. Q # <<>>
    BY <1>3, <2>2, EmptySeq
  <2>5. Q[m] = P[m+1] /\ r[m] = t[m+1]
    BY <1>3, <1>4, <2>3
  <2>. QED
    BY <2>1, <2>4, <2>5
<1>9. ASSUME NEW k \in 1..Len(Q), NEW i \in 1..PacketLen(Q[k]), r[k] + i - 1 \in 1..Len(f)
      PROVE  f[r[k] + i - 1] = Word(Q[k], i)
  <2>1. k + 1 \in 1..Len(P) /\ Q[k] = P[k+1] /\ r[k] = t[k+1]
    BY <1>2, <1>3, <1>4
  <2>2. f[t[k+1] + i - 1] = Word(P[k+1], i)
    BY <1>1, <1>9, <2>1 DEF Laid
  <2>. QED
    BY <2>1, <2>2
<1>10. Laid(r, f, Q, s, 0)
  BY <1>6, <1>7, <1>8, <1>9 DEF Laid
<1>. QED
  BY <1>3, <1>4, <1>10 DEF Whole

-----------------------------------------------------------------------------
(***************************************************************************)
(* The inductive invariant. Now: the answer SC secondary copies; Written:  *)
(* how many of its words are in the memory.                                *)
(***************************************************************************)
Now == out[current_link][1]
Written ==
  IF state \in {"capture_body", "wait_word"} THEN captured_link.pos
  ELSE IF state = "write_word" THEN captured_link.pos - 1 ELSE 0
Popped(l) == IF l = current_link THEN Written ELSE 0

Counted == out \in Outs /\ ring \in Seq(Packet) /\ UnderWay <= MaxUnread

Clean(l) == Whole(fifo[l], out[l], sending[l], Popped(l))
Stuck(l) == (l # current_link \/ state \in {"init", "waiting"}) /\ Headless(fifo[l], sending[l])
LinksOk == \A l \in Link : Clean(l) \/ Stuck(l)

Copying ==
  /\ state \in {"capture_head", "capture_body", "write_word", "wait_word"} => out[current_link] # <<>>
  /\ state \in {"capture_head", "write_word"} => fifo[current_link] # <<>>
  /\ state = "write_word" => captured_link = Head(fifo[current_link])
  /\ state \in {"capture_body", "write_word", "wait_word"} =>
       captured_link.pos \in 1..PacketLen(Now) /\ captured_link = Word(Now, captured_link.pos)
  /\ state = "capture_body" => captured_link.pos < PacketLen(Now)
  /\ state = "init" => ring = <<>>

\* The RO memory: the answers of ring behind each other from the pointer of the software to the
\* published end, and behind it what SC secondary has written of the next one.
Stored(s) ==
  /\ m_FEBsc_rmem_addr = s[1] % MemLen
  /\ Plus(o_mem_addr_finished, 1) = s[Len(ring)+1] % MemLen
  /\ \A k \in 1..Len(ring) : \A i \in 1..PacketLen(ring[k]) :
       mem[(s[k] + i - 1) % MemLen] = Word(ring[k], i)
Halfway(s) ==
  /\ Plus(mem_addr_o, 1) = (s[Len(ring)+1] + Written) % MemLen
  /\ \A i \in 1..Written : mem[(s[Len(ring)+1] + i - 1) % MemLen] = Word(Now, i)
Sampled(s) == sw = "parsing" => \E j \in 1..Len(ring)+1 : fpga_rmem_addr = s[j] % MemLen
RingOk == \E s : Starts(s, ring) /\ Stored(s) /\ Halfway(s) /\ Sampled(s)

RInv == RType /\ Counted /\ LinksOk /\ Copying /\ RingOk /\ ~failed

LEMMA Counts ==
  ASSUME Counted, NEW l \in Link
  PROVE  /\ out[l] \in Seq(Packet) /\ Len(out[l]) \in Nat /\ Len(ring) \in Nat /\ UnderWay \in Nat
         /\ Len(ring) + Len(out[l]) <= UnderWay /\ UnderWay <= MaxUnread
<1>1. out \in Outs /\ ring \in Seq(Packet) /\ UnderWay <= MaxUnread
  BY DEF Counted
<1>2. Len(ring) \in Nat /\ out[l] \in Seq(Packet) /\ Len(out[l]) \in Nat
  BY <1>1, LenProperties, OutLen
<1>3. /\ Cardinality(InFlight(out)) \in Nat /\ Len(out[l]) <= Cardinality(InFlight(out))
      /\ UnderWay = Len(ring) + Cardinality(InFlight(out))
  BY <1>1, InFlightFinite, FlightAt DEF UnderWay, InFlight
<1>. QED
  BY <1>1, <1>2, <1>3

\* The answer being copied, and how far.
LEMMA NowFacts ==
  ASSUME RType, Counted, Copying,
         state \in {"capture_head", "capture_body", "write_word", "wait_word"}
  PROVE  /\ Now \in Packet /\ PacketLen(Now) \in Nat /\ PacketLen(Now) >= 4
         /\ out[current_link] \in Seq(Packet) /\ out[current_link] # <<>> /\ current_link \in Link
         /\ Head(out[current_link]) = Now /\ Len(out[current_link]) \in Nat \ {0}
<1>1. current_link \in Link /\ out[current_link] # <<>>
  BY DEF RType, Copying
<1>2. out[current_link] \in Seq(Packet) /\ Len(out[current_link]) \in Nat \ {0}
  BY <1>1, Counts, EmptySeq
<1>3. Now \in Packet
  <2>1. 1 \in 1..Len(out[current_link])
    BY <1>2
  <2>. QED
    BY <1>2, <2>1, ElementOfSeq DEF Now
<1>4. Head(out[current_link]) = Now
  BY <1>1, <1>2, HeadTailProperties DEF Now
<1>. QED
  BY <1>1, <1>2, <1>3, <1>4, PacketFacts

LEMMA WrittenFacts ==
  ASSUME RType, Counted, Copying
  PROVE  /\ Written \in Nat
         /\ state \in {"init", "waiting", "rearm_wait", "capture_head"} => Written = 0
         /\ state \in {"capture_body", "write_word"} => Written < PacketLen(Now)
         /\ Written > 0 => /\ state \in {"capture_body", "write_word", "wait_word"}
                           /\ Written <= PacketLen(Now)
<1>1. CASE state \in {"init", "waiting", "rearm_wait", "capture_head"}
  BY <1>1 DEF Written
<1>2. CASE state \in {"capture_body", "write_word", "wait_word"}
  <2>1. PICK n \in Nat, m \in Nat : n = captured_link.pos /\ m = PacketLen(Now) /\ n \in 1..m
    BY <1>2, NowFacts DEF Copying
  <2>2. state = "capture_body" => n < m
    BY <2>1 DEF Copying
  <2>. QED
    BY <1>2, <2>1, <2>2 DEF Written
<1>. QED
  BY <1>1, <1>2 DEF RType, States

LEMMA LinkFacts ==
  ASSUME RType, Counted, Copying, NEW l \in Link
  PROVE  /\ fifo[l] \in Seq(AnyWord) /\ out[l] \in Seq(Packet) /\ Sends(sending[l]) /\ Popped(l) \in Nat
         /\ Len(fifo[l]) \in Nat
<1>1. Sends(sending[l])
  BY SendingIs DEF Sends
<1>2. fifo[l] \in Seq(AnyWord) /\ Len(fifo[l]) \in Nat
  BY LenProperties DEF RType
<1>. QED
  BY <1>1, <1>2, Counts, WrittenFacts DEF Popped

\* A link whose FIFO, board and answers a step leaves alone.
LEMMA LinkStays ==
  ASSUME NEW l \in Link, Clean(l) \/ Stuck(l), fifo'[l] = fifo[l], out'[l] = out[l],
         sending'[l] = sending[l], Popped(l)' = Popped(l),
         l # current_link \/ state \in {"init", "waiting"} =>
           l # current_link' \/ state' \in {"init", "waiting"}
  PROVE  (Clean(l) \/ Stuck(l))'
  BY DEF Clean, Stuck

LEMMA RingStays ==
  ASSUME RingOk, UNCHANGED <<mem, mem_addr_o, o_mem_addr_finished, m_FEBsc_rmem_addr, ring>>,
         Written' = Written, Written \in Nat, Written > 0 => Now' = Now,
         sw' = "parsing" => sw = "parsing" /\ fpga_rmem_addr' = fpga_rmem_addr
  PROVE  RingOk'
<1>1. PICK s : Starts(s, ring) /\ Stored(s) /\ Halfway(s) /\ Sampled(s)
  BY DEF RingOk
<1>2. Starts(s, ring')
  BY <1>1
<1>3. Stored(s)'
  BY <1>1 DEF Stored, Plus
<1>4. Halfway(s)'
  <2>1. Plus(mem_addr_o, 1)' = Plus(mem_addr_o, 1)
    BY DEF Plus
  <2>2. ASSUME NEW i \in 1..Written
        PROVE  mem[(s[Len(ring)+1] + i - 1) % MemLen] = Word(Now', i)
    <3>1. Now' = Now
      BY <2>2
    <3>. QED
      BY <1>1, <3>1 DEF Halfway
  <2>3. Plus(mem_addr_o, 1)' = (s[Len(ring')+1] + Written') % MemLen
    BY <1>1, <2>1 DEF Halfway
  <2>. QED
    BY <2>2, <2>3 DEF Halfway, Word
<1>5. Sampled(s)'
  BY <1>1 DEF Sampled
<1>6. Starts(s, ring)'
  BY <1>2 DEF Starts, PacketLen, Times, Longest, IsLongest, MIN_SC_MESSAGE_SIZE
<1>. QED
  BY <1>3, <1>4, <1>5, <1>6 DEF RingOk

-----------------------------------------------------------------------------
(* The boards. *)

\* A word goes into a FIFO or is lost; what is at its head stays there.
LEMMA ToFifoIs ==
  ASSUME RType, NEW l \in Link, NEW x \in AnyWord, ToFifo(l, x)
  PROVE  /\ \A k \in Link : k # l => fifo'[k] = fifo[k]
         /\ fifo'[l] = IF Len(fifo[l]) < FifoDepth THEN Append(fifo[l], x) ELSE fifo[l]
         /\ \A k \in Link : fifo[k] # <<>> => fifo'[k] # <<>> /\ Head(fifo'[k]) = Head(fifo[k])
         /\ \A s, r : Headless(fifo[l], s) /\ (fifo[l] = <<>> => ~x.sop) => Headless(fifo'[l], r)
<1>1. fifo \in [Link -> Seq(AnyWord)] /\ fifo[l] \in Seq(AnyWord)
  BY DEF RType
<1>2. PICK g : /\ g = Append(fifo[l], x) /\ g \in Seq(AnyWord) /\ g # <<>> /\ Len(fifo[l]) \in Nat
               /\ Len(g) = Len(fifo[l]) + 1 /\ g[Len(fifo[l])+1] = x
               /\ \A i \in 1..Len(fifo[l]) : g[i] = fifo[l][i]
  BY <1>1, Appended, ZenonT(30)
<1>3. (\A k \in Link : k # l => fifo'[k] = fifo[k])
      /\ fifo'[l] = IF Len(fifo[l]) < FifoDepth THEN g ELSE fifo[l]
  BY <1>1, <1>2 DEF ToFifo
<1>4. fifo[l] # <<>> => Head(g) = Head(fifo[l])
  <2>. SUFFICES ASSUME fifo[l] # <<>> PROVE Head(g) = Head(fifo[l])
    OBVIOUS
  <2>1. Head(g) = g[1] /\ Head(fifo[l]) = fifo[l][1] /\ 1 \in 1..Len(fifo[l])
    BY <1>1, <1>2, HeadTailProperties, EmptySeq
  <2>. QED
    BY <1>2, <2>1
<1>5. \A k \in Link : fifo[k] # <<>> => fifo'[k] # <<>> /\ Head(fifo'[k]) = Head(fifo[k])
  BY <1>2, <1>3, <1>4
<1>6. ASSUME NEW s, NEW r, Headless(fifo[l], s), fifo[l] = <<>> => ~x.sop
      PROVE  Headless(fifo'[l], r)
  <2>1. CASE Len(fifo[l]) < FifoDepth
    BY <1>1, <1>2, <1>3, <1>6, <2>1, HeadlessAppend
  <2>2. CASE ~(Len(fifo[l]) < FifoDepth)
    <3>1. fifo[l] # <<>>
      BY <2>2, EmptySeq, SizeFacts
    <3>. QED
      BY <1>3, <1>6, <2>2, <3>1 DEF Headless
  <2>. QED
    BY <2>1, <2>2
<1>. QED
  BY <1>2, <1>3, <1>5, <1>6

LEMMA InvOfBegin ==
  ASSUME Room, RInv, NEW l \in Link, NEW n \in DataLen, Begin(l, n)
  PROVE  RInv'
<1>0. RType /\ Counted /\ LinksOk /\ Copying /\ RingOk /\ ~failed
  BY DEF RInv
<1>1. PICK p : p = [link |-> l, n |-> count[l] + 1, data |-> n]
  OBVIOUS
<1>2. /\ sending[l] = <<>> /\ count[l] < MaxPackets /\ UnderWay < MaxUnread
      /\ sending' = [sending EXCEPT ![l] = <<[packet |-> p, next |-> 2]>>]
      /\ ToFifo(l, Word(p, 1)) /\ out' = [out EXCEPT ![l] = Append(@, p)]
      /\ UNCHANGED <<secondary, software, ring>>
  BY <1>1 DEF Begin
<1>3. p \in Packet
  BY <1>0, <1>1, <1>2, SizeFacts DEF RType, Packet
<1>4. Word(p, 1) \in AnyWord /\ Word(p, 1).sop
  <2>1. 1 \in 1..PacketLen(p)
    BY <1>3, PacketFacts
  <2>. QED
    BY <1>3, <2>1, WordTyped, WordIs
<1>5. PICK s : /\ s = <<[packet |-> p, next |-> 2]>> /\ s # <<>> /\ s[1].packet = p /\ s[1].next = 2
  <2>1. [packet |-> p, next |-> 2] \in Transmission
    BY <1>3 DEF Transmission
  <2>. QED
    BY <2>1, One
<1>6. sending'[l] = s /\ \A k \in Link : k # l => sending'[k] = sending[k]
  BY <1>0, <1>2, <1>5 DEF RType
<1>7. /\ out' \in Outs /\ out'[l] = Append(out[l], p) /\ \A k \in Link : k # l => out'[k] = out[k]
      /\ Cardinality(InFlight(out')) = Cardinality(InFlight(out)) + 1
  <2>1. out \in Outs
    BY <1>0 DEF Counted
  <2>2. out' \in Outs /\ Cardinality(InFlight(out')) = Cardinality(InFlight(out)) + 1
    BY <1>2, <1>3, <2>1, FlightAppend
  <2>3. out'[l] = Append(out[l], p) /\ \A k \in Link : k # l => out'[k] = out[k]
    BY <1>2, <2>1 DEF Outs
  <2>. QED
    BY <2>2, <2>3
<1>8. RType'
  BY <1>0, TypeOfBegin
<1>9. Counted'
  <2>1. /\ UnderWay = Len(ring) + Cardinality(InFlight(out))
        /\ UnderWay' = Len(ring) + Cardinality(InFlight(out'))
    BY <1>2 DEF UnderWay, InFlight
  <2>2. UnderWay \in Nat /\ Len(ring) \in Nat
    BY <1>0, Counts
  <2>3. Cardinality(InFlight(out)) \in Nat
    BY <1>0, InFlightFinite DEF Counted
  <2>4. UnderWay' <= MaxUnread
    BY <1>2, <1>7, <2>1, <2>2, <2>3, SizeFacts
  <2>. QED
    BY <1>0, <1>2, <1>7, <2>4 DEF Counted
<1>10. /\ Written' = Written /\ current_link' = current_link /\ state' = state
       /\ captured_link' = captured_link
  BY <1>2 DEF secondary, Written
<1>11. out[current_link] # <<>> => out'[current_link] # <<>> /\ Now' = Now
  <2>. SUFFICES ASSUME out[current_link] # <<>> PROVE out'[current_link] # <<>> /\ Now' = Now
    OBVIOUS
  <2>1. CASE current_link # l
    <3>1. current_link \in Link
      BY <1>0 DEF RType
    <3>. QED
      BY <1>7, <1>10, <2>1, <3>1 DEF Now
  <2>2. CASE current_link = l
    <3>1. out[l] \in Seq(Packet) /\ 1 \in 1..Len(out[l])
      BY <1>0, <2>2, Counts, EmptySeq
    <3>2. Append(out[l], p)[1] = out[l][1] /\ Append(out[l], p) # <<>>
      BY <1>3, <3>1, AppendProperties
    <3>. QED
      BY <1>7, <1>10, <2>2, <3>2 DEF Now
  <2>. QED
    BY <2>1, <2>2
<1>12. ASSUME NEW k \in Link PROVE (Clean(k) \/ Stuck(k))'
  <2>1. Popped(k)' = Popped(k)
    BY <1>10 DEF Popped
  <2>2. CASE k # l
    <3>1. fifo'[k] = fifo[k]
      BY <1>0, <1>2, <1>4, <2>2, ToFifoIs
    <3>. QED
      BY <1>0, <1>6, <1>7, <1>10, <2>1, <2>2, <3>1, LinkStays DEF LinksOk
  <2>3. CASE k = l /\ Clean(l)
    <3>1. Len(out[l]) < MaxUnread
      <4>1. Len(ring) + Len(out[l]) <= UnderWay /\ Len(ring) \in Nat /\ Len(out[l]) \in Nat /\ UnderWay \in Nat
        BY <1>0, Counts
      <4>. QED
        BY <1>2, <4>1, SizeFacts
    <3>2. /\ fifo[l] \in Seq(AnyWord) /\ out[l] \in Seq(Packet) /\ Popped(l) \in Nat
          /\ Whole(fifo[l], out[l], <<>>, Popped(l))
      BY <1>0, <1>2, <2>3, LinkFacts DEF Clean
    <3>3. Len(fifo[l]) < FifoDepth
      <4>1. Sends(<<>>)
        BY DEF Sends
      <4>. QED
        BY <1>3, <3>1, <3>2, <4>1, WholeRoom
    <3>4. fifo'[l] = Append(fifo[l], Word(p, 1))
      BY <1>0, <1>2, <1>4, <3>3, ToFifoIs
    <3>5. Whole(Append(fifo[l], Word(p, 1)), Append(out[l], p), s, Popped(l))
      BY <1>3, <1>5, <3>2, WholeBegin
    <3>6. Clean(l)'
      BY <1>6, <1>7, <2>1, <2>3, <3>4, <3>5 DEF Clean
    <3>. QED
      BY <2>3, <3>6
  <2>4. CASE k = l /\ Stuck(l)
    <3>1. Headless(fifo[l], sending[l]) /\ fifo[l] # <<>>
      BY <1>2, <2>4 DEF Stuck, Headless
    <3>2. Headless(fifo'[l], sending'[l])
      BY <1>0, <1>2, <1>4, <3>1, ToFifoIs
    <3>3. Stuck(l)'
      BY <1>10, <2>4, <3>2 DEF Stuck
    <3>. QED
      BY <2>4, <3>3
  <2>. QED
    BY <1>0, <2>2, <2>3, <2>4 DEF LinksOk
<1>13. LinksOk'
  BY <1>12 DEF LinksOk
<1>14. Copying'
  <2>1. current_link \in Link
    BY <1>0 DEF RType
  <2>2. fifo[current_link] # <<>> => fifo'[current_link] # <<>> /\ Head(fifo'[current_link]) = Head(fifo[current_link])
    BY <1>0, <1>2, <1>4, <2>1, ToFifoIs
  <2>3. UNCHANGED <<state, current_link, captured_link, ring>>
    BY <1>2, <1>10
  <2>4. state \in {"capture_head", "capture_body", "write_word", "wait_word"} =>
          out'[current_link] # <<>> /\ Now' = Now
    BY <1>0, <1>11 DEF Copying
  <2>5. state \in {"capture_head", "write_word"} =>
          fifo'[current_link] # <<>> /\ Head(fifo'[current_link]) = Head(fifo[current_link])
    BY <1>0, <2>2 DEF Copying
  <2>. QED
    BY <1>0, <2>3, <2>4, <2>5 DEF Copying, PacketLen, Word, MIN_SC_MESSAGE_SIZE
<1>15. RingOk'
  <2>1. Written \in Nat /\ (Written > 0 => Now' = Now)
    BY <1>0, <1>11, WrittenFacts DEF Copying
  <2>2. UNCHANGED <<mem, mem_addr_o, o_mem_addr_finished, m_FEBsc_rmem_addr, ring, sw, fpga_rmem_addr>>
    BY <1>2 DEF secondary, software
  <2>. QED
    BY <1>0, <1>10, <2>1, <2>2, RingStays
<1>16. ~failed'
  BY <1>0, <1>2 DEF software
<1>. QED
  BY <1>8, <1>9, <1>13, <1>14, <1>15, <1>16 DEF RInv

LEMMA InvOfContinue ==
  ASSUME Room, RInv, NEW l \in Link, Continue(l)
  PROVE  RInv'
<1>0. RType /\ Counted /\ LinksOk /\ Copying /\ RingOk /\ ~failed
  BY DEF RInv
<1>1. PICK s : s = sending[l] /\ s # <<>>
  BY DEF Continue
<1>2. /\ s[1] \in Transmission /\ s[1].packet \in Packet /\ s[1].next \in 2..PacketLen(s[1].packet)
      /\ PacketLen(s[1].packet) \in Nat /\ Sends(s)
  BY <1>0, <1>1, SendingIs DEF Sends
<1>3. PICK x : x = Word(s[1].packet, s[1].next)
  OBVIOUS
<1>4. x \in AnyWord /\ ~x.sop
  <2>1. s[1].next \in 1..PacketLen(s[1].packet) /\ s[1].next # 1
    BY <1>2
  <2>. QED
    BY <1>2, <1>3, <2>1, WordTyped, WordIs
<1>5. PICK r : /\ r = sending'[l]
               /\ IF s[1].next = PacketLen(s[1].packet) THEN r = <<>>
                  ELSE r # <<>> /\ r[1].packet = s[1].packet /\ r[1].next = s[1].next + 1
  <2>1. sending'[l] = IF s[1].next = PacketLen(s[1].packet) THEN <<>>
                      ELSE <<[s[1] EXCEPT !.next = @ + 1]>>
    BY <1>0, <1>1 DEF Continue, RType
  <2>2. PICK y \in Transmission : /\ y = [s[1] EXCEPT !.next = @ + 1] /\ y.packet = s[1].packet
                                  /\ y.next = s[1].next + 1
    <3>1. /\ [s[1] EXCEPT !.next = @ + 1] \in Transmission
          /\ [s[1] EXCEPT !.next = @ + 1].packet = s[1].packet
          /\ [s[1] EXCEPT !.next = @ + 1].next = s[1].next + 1
      BY <1>2 DEF Transmission
    <3>. QED
      BY <3>1
  <2>3. <<y>> # <<>> /\ <<y>>[1] = y
    BY One
  <2>. QED
    BY <2>1, <2>2, <2>3
<1>6. /\ ToFifo(l, x) /\ \A k \in Link : k # l => sending'[k] = sending[k]
      /\ UNCHANGED <<secondary, software, out, ring>>
  BY <1>0, <1>1, <1>3 DEF Continue, RType
<1>7. RType'
  BY <1>0, TypeOfContinue
<1>8. Counted'
  BY <1>0, <1>6 DEF Counted, UnderWay
<1>9. /\ Written' = Written /\ current_link' = current_link /\ state' = state /\ Now' = Now
      /\ captured_link' = captured_link
  BY <1>6 DEF secondary, Written, Now
<1>10. ASSUME NEW k \in Link PROVE (Clean(k) \/ Stuck(k))'
  <2>1. Popped(k)' = Popped(k) /\ out'[k] = out[k]
    BY <1>6, <1>9 DEF Popped
  <2>2. CASE k # l
    <3>1. fifo'[k] = fifo[k] /\ sending'[k] = sending[k]
      BY <1>0, <1>4, <1>6, <2>2, ToFifoIs
    <3>. QED
      BY <1>0, <1>9, <2>1, <3>1, LinkStays DEF LinksOk
  <2>3. CASE k = l /\ Clean(l)
    <3>1. Len(out[l]) <= MaxUnread
      <4>1. Len(ring) + Len(out[l]) <= UnderWay /\ Len(ring) \in Nat /\ Len(out[l]) \in Nat
            /\ UnderWay \in Nat /\ UnderWay <= MaxUnread
        BY <1>0, Counts
      <4>. QED
        BY <4>1, SizeFacts
    <3>2. /\ fifo[l] \in Seq(AnyWord) /\ out[l] \in Seq(Packet) /\ Popped(l) \in Nat
          /\ Whole(fifo[l], out[l], s, Popped(l))
      BY <1>0, <1>1, <2>3, LinkFacts DEF Clean
    <3>3. Len(fifo[l]) < FifoDepth
      BY <1>1, <1>2, <3>1, <3>2, WholeRoom
    <3>4. fifo'[l] = Append(fifo[l], x)
      BY <1>0, <1>4, <1>6, <3>3, ToFifoIs
    <3>5. Whole(Append(fifo[l], x), out[l], r, Popped(l))
      <4>1. PICK w \in Int : w = Popped(l)
        BY <3>2
      <4>2. Whole(fifo[l], out[l], s, w)
        BY <3>2, <4>1
      <4>3. Whole(Append(fifo[l], Word(s[1].packet, s[1].next)), out[l], r, w)
        BY <1>1, <1>2, <1>5, <3>2, <4>2, WholeContinue
      <4>. QED
        BY <1>3, <4>1, <4>3
    <3>6. Clean(l)'
      BY <1>5, <2>1, <2>3, <3>4, <3>5 DEF Clean
    <3>. QED
      BY <2>3, <3>6
  <2>4. CASE k = l /\ Stuck(l)
    <3>1. Headless(fifo[l], sending[l])
      BY <2>4 DEF Stuck
    <3>2. Headless(fifo'[l], sending'[l])
      BY <1>0, <1>4, <1>6, <3>1, ToFifoIs
    <3>3. Stuck(l)'
      BY <1>9, <2>4, <3>2 DEF Stuck
    <3>. QED
      BY <2>4, <3>3
  <2>. QED
    BY <1>0, <2>2, <2>3, <2>4 DEF LinksOk
<1>11. LinksOk'
  BY <1>10 DEF LinksOk
<1>12. Copying'
  <2>1. current_link \in Link
    BY <1>0 DEF RType
  <2>2. fifo[current_link] # <<>> => fifo'[current_link] # <<>> /\ Head(fifo'[current_link]) = Head(fifo[current_link])
    BY <1>0, <1>4, <1>6, <2>1, ToFifoIs
  <2>3. UNCHANGED <<state, current_link, captured_link, ring, out>> /\ Now' = Now
    BY <1>6, <1>9
  <2>. QED
    BY <1>0, <2>2, <2>3 DEF Copying, PacketLen, Word, MIN_SC_MESSAGE_SIZE
<1>13. RingOk'
  <2>1. Written \in Nat
    BY <1>0, WrittenFacts
  <2>2. UNCHANGED <<mem, mem_addr_o, o_mem_addr_finished, m_FEBsc_rmem_addr, ring, sw, fpga_rmem_addr>>
    BY <1>6 DEF secondary, software
  <2>. QED
    BY <1>0, <1>9, <2>1, <2>2, RingStays
<1>14. ~failed'
  BY <1>0, <1>6 DEF software
<1>. QED
  BY <1>7, <1>8, <1>11, <1>12, <1>13, <1>14 DEF RInv

-----------------------------------------------------------------------------
(* SC secondary. *)

\* In front of an answer, a FIFO that is not stuck begins with one.
LEMMA NextAnswer ==
  ASSUME RType, Counted, Copying, NEW l \in Link, Clean(l), Popped(l) = 0, fifo[l] # <<>>
  PROVE  /\ out[l] # <<>> /\ out[l][1] \in Packet /\ PacketLen(out[l][1]) >= 4
         /\ Head(fifo[l]) = Word(out[l][1], 1) /\ Head(fifo[l]).sop
<1>1. fifo[l] \in Seq(AnyWord) /\ out[l] \in Seq(Packet) /\ Whole(fifo[l], out[l], sending[l], 0)
  BY LinkFacts DEF Clean
<1>2. 0 \in Nat
  OBVIOUS
<1>3. out[l] # <<>>
  BY <1>1, <1>2, WholeHead
<1>4. out[l][1] \in Packet
  <2>1. 1 \in 1..Len(out[l])
    BY <1>1, <1>3, EmptySeq
  <2>. QED
    BY <1>1, <2>1, ElementOfSeq
<1>5. PacketLen(out[l][1]) >= 4 /\ PacketLen(out[l][1]) \in Nat
  BY <1>4, PacketFacts
<1>6. Head(fifo[l]) = Word(out[l][1], 0 + 1)
  <2>1. 0 < PacketLen(out[l][1])
    BY <1>5
  <2>. QED
    BY <1>1, <1>2, <1>3, <2>1, WholeHead
<1>7. Head(fifo[l]) = Word(out[l][1], 1)
  BY <1>6
<1>. QED
  BY <1>3, <1>4, <1>5, <1>7, WordIs

LEMMA InvOfWaiting ==
  ASSUME RInv, Waiting
  PROVE  RInv'
<1>0. RType /\ Counted /\ LinksOk /\ Copying /\ RingOk /\ ~failed
  BY DEF RInv
<1>1. /\ state = "waiting" /\ state' = "capture_head" /\ current_link' \in Link /\ Ready(current_link')
      /\ UNCHANGED <<mem, mem_addr_o, o_mem_addr_finished, links, software, out, ring, captured_link, fifo>>
  BY DEF Waiting, Goto
<1>2. RType'
  BY <1>0, TypeOfSecondary DEF Secondary
<1>3. Counted'
  BY <1>0, <1>1 DEF Counted, UnderWay
<1>4. Written = 0 /\ Written' = 0 /\ \A l \in Link : Popped(l) = 0
  BY <1>1 DEF Written, Popped
<1>5. PICK c \in Link : c = current_link' /\ fifo[c] # <<>> /\ Head(fifo[c]).sop
  BY <1>1 DEF Ready
<1>6. Clean(c) /\ out[c] # <<>>
  <2>1. ~Stuck(c)
    BY <1>5 DEF Stuck, Headless
  <2>2. Clean(c)
    BY <1>0, <2>1 DEF LinksOk
  <2>. QED
    BY <1>0, <1>4, <1>5, <2>2, NextAnswer
<1>7. ASSUME NEW l \in Link PROVE (Clean(l) \/ Stuck(l))'
  <2>1. Popped(l)' = Popped(l) /\ fifo'[l] = fifo[l] /\ out'[l] = out[l] /\ sending'[l] = sending[l]
    BY <1>1, <1>4 DEF Popped, links
  <2>2. CASE Clean(l)
    BY <2>1, <2>2 DEF Clean
  <2>3. CASE ~Clean(l)
    <3>1. Headless(fifo[l], sending[l]) /\ l # current_link'
      BY <1>0, <1>5, <1>6, <2>3 DEF LinksOk, Stuck
    <3>. QED
      BY <2>1, <3>1 DEF Stuck
  <2>. QED
    BY <2>2, <2>3
<1>8. Copying'
  BY <1>1, <1>5, <1>6 DEF Copying
<1>9. RingOk'
  <2>1. Written \in Nat /\ Written' = Written
    BY <1>4
  <2>2. UNCHANGED <<mem, mem_addr_o, o_mem_addr_finished, m_FEBsc_rmem_addr, ring, sw, fpga_rmem_addr>>
    BY <1>1 DEF software
  <2>. QED
    BY <1>0, <1>4, <2>1, <2>2, RingStays
<1>. QED
  BY <1>0, <1>1, <1>2, <1>3, <1>7, <1>8, <1>9 DEF RInv, LinksOk, software

\* Behind an answer the FIFO is empty or begins with the next one.
LEMMA RearmIs ==
  ASSUME RInv, RearmWait
  PROVE  /\ state = "rearm_wait" /\ state' \in {"waiting", "capture_head"}
         /\ state' = "capture_head" => fifo[current_link] # <<>> /\ out[current_link] # <<>>
         /\ UNCHANGED <<mem, mem_addr_o, o_mem_addr_finished, links, software, out, ring,
                        captured_link, current_link, fifo>>
<1>0. RType /\ Counted /\ LinksOk /\ Copying
  BY DEF RInv
<1>1. state = "rearm_wait" /\ current_link \in Link
  BY <1>0 DEF RearmWait, RType
<1>2. Clean(current_link) /\ Popped(current_link) = 0
  BY <1>0, <1>1 DEF LinksOk, Stuck, Popped, Written
<1>3. fifo[current_link] # <<>> => out[current_link] # <<>> /\ Head(fifo[current_link]).sop
  BY <1>0, <1>1, <1>2, NextAnswer
<1>. QED
  BY <1>1, <1>3 DEF RearmWait, Goto

LEMMA InvOfRearmWait ==
  ASSUME RInv, RearmWait
  PROVE  RInv'
<1>0. RType /\ Counted /\ LinksOk /\ Copying /\ RingOk /\ ~failed
  BY DEF RInv
<1>1. /\ state = "rearm_wait" /\ state' \in {"waiting", "capture_head"}
      /\ state' = "capture_head" => fifo[current_link] # <<>> /\ out[current_link] # <<>>
      /\ UNCHANGED <<mem, mem_addr_o, o_mem_addr_finished, links, software, out, ring,
                     captured_link, current_link, fifo>>
  BY RearmIs
<1>2. RType'
  BY <1>0, TypeOfSecondary DEF Secondary
<1>3. Counted'
  BY <1>0, <1>1 DEF Counted, UnderWay
<1>4. Written = 0 /\ Written' = 0
  BY <1>1 DEF Written
<1>5. ASSUME NEW l \in Link PROVE (Clean(l) \/ Stuck(l))'
  <2>1. Popped(l)' = Popped(l) /\ fifo'[l] = fifo[l] /\ out'[l] = out[l] /\ sending'[l] = sending[l]
    BY <1>1, <1>4 DEF Popped, links
  <2>. QED
    BY <1>0, <1>1, <2>1, LinkStays DEF LinksOk
<1>6. Copying'
  BY <1>1 DEF Copying
<1>7. RingOk'
  <2>1. Written \in Nat /\ Written' = Written
    BY <1>4
  <2>2. UNCHANGED <<mem, mem_addr_o, o_mem_addr_finished, m_FEBsc_rmem_addr, ring, sw, fpga_rmem_addr>>
    BY <1>1 DEF software
  <2>. QED
    BY <1>0, <1>4, <2>1, <2>2, RingStays
<1>. QED
  BY <1>0, <1>1, <1>2, <1>3, <1>5, <1>6, <1>7 DEF RInv, LinksOk, software

LEMMA InvOfCaptureWord ==
  ASSUME RInv, CaptureWord
  PROVE  RInv'
<1>0. RType /\ Counted /\ LinksOk /\ Copying /\ RingOk /\ ~failed
  BY DEF RInv
<1>1. /\ state \in {"capture_head", "capture_body"} /\ state' = "write_word" /\ fifo[current_link] # <<>>
      /\ captured_link' = Head(fifo[current_link]) /\ current_link \in Link
      /\ UNCHANGED <<mem, mem_addr_o, o_mem_addr_finished, links, software, out, ring, current_link, fifo>>
  BY <1>0 DEF CaptureWord, Goto, RType
<1>2. RType'
  BY <1>0, TypeOfSecondary DEF Secondary
<1>3. Counted'
  BY <1>0, <1>1 DEF Counted, UnderWay
<1>4. Now \in Packet /\ Written \in Nat /\ Written < PacketLen(Now) /\ out[current_link] # <<>> /\ Now' = Now
  <2>1. Written \in Nat /\ Written < PacketLen(Now)
    BY <1>0, <1>1, NowFacts, WrittenFacts
  <2>. QED
    BY <1>0, <1>1, <2>1, NowFacts DEF Now
<1>5. captured_link' = Word(Now, Written + 1) /\ Written + 1 \in 1..PacketLen(Now)
  <2>1. Clean(current_link) /\ Popped(current_link) = Written
    BY <1>0, <1>1 DEF LinksOk, Stuck, Popped
  <2>2. /\ fifo[current_link] \in Seq(AnyWord) /\ out[current_link] \in Seq(Packet)
        /\ Whole(fifo[current_link], out[current_link], sending[current_link], Written)
    BY <1>0, <1>1, <2>1, LinkFacts DEF Clean
  <2>. QED
    BY <1>1, <1>4, <2>2, WholeHead DEF Now
<1>6. captured_link'.pos = Written + 1 /\ Written' = Written
  <2>1. captured_link'.pos = Written + 1
    BY <1>5, WordIs
  <2>2. Written' = captured_link'.pos - 1
    BY <1>1 DEF Written
  <2>. QED
    BY <1>4, <2>1, <2>2
<1>7. ASSUME NEW l \in Link PROVE (Clean(l) \/ Stuck(l))'
  <2>1. Popped(l)' = Popped(l) /\ fifo'[l] = fifo[l] /\ out'[l] = out[l] /\ sending'[l] = sending[l]
    BY <1>1, <1>6 DEF Popped, links
  <2>. QED
    BY <1>0, <1>1, <2>1, LinkStays DEF LinksOk
<1>8. Copying'
  <2>1. captured_link' = Word(Now, captured_link'.pos) /\ captured_link'.pos \in 1..PacketLen(Now)
    BY <1>5, <1>6
  <2>. QED
    BY <1>1, <1>4, <2>1 DEF Copying, PacketLen, Word, MIN_SC_MESSAGE_SIZE
<1>9. RingOk'
  <2>. UNCHANGED <<mem, mem_addr_o, o_mem_addr_finished, m_FEBsc_rmem_addr, ring, sw, fpga_rmem_addr>>
    BY <1>1 DEF software
  <2>. QED
    BY <1>0, <1>4, <1>6, RingStays
<1>. QED
  BY <1>0, <1>1, <1>2, <1>3, <1>7, <1>8, <1>9 DEF RInv, LinksOk, software

\* All answers in the memory and the one being written never go round it.
LEMMA RingSpan ==
  ASSUME Room, RType, Counted, Copying, NEW s, Starts(s, ring)
  PROVE  /\ Len(ring) \in Nat /\ s[1] \in Int /\ s[Len(ring)+1] \in Int /\ s[1] <= s[Len(ring)+1]
         /\ s[Len(ring)+1] - s[1] < MemLen
         /\ state = "write_word" => s[Len(ring)+1] + Written - s[1] < MemLen
<1>1. PICK m \in Nat : m = Len(ring) /\ ring \in Seq(Packet)
  BY LenProperties DEF Counted
<1>2. PICK a \in Int, b \in Int : a = s[1] /\ b = s[m+1] /\ a <= b /\ b - a <= Times(m)
  BY <1>1, StartsEnds
<1>3. m <= MaxUnread
  <2>1. /\ Len(ring) \in Nat /\ Len(out[0]) \in Nat /\ UnderWay \in Nat
        /\ Len(ring) + Len(out[0]) <= UnderWay /\ UnderWay <= MaxUnread
    BY Counts, SizeFacts
  <2>. QED
    BY <1>1, <2>1, SizeFacts
<1>4. PICK x \in Nat, y \in Nat : x = Times(m) /\ y = Times(m + 1) /\ x < MemLen /\ y = x + Longest
  BY <1>3, TimesFacts
<1>5. ASSUME state = "write_word" PROVE b + Written - a < MemLen
  <2>1. Now \in Packet /\ PacketLen(Now) \in Nat /\ current_link \in Link /\ Len(out[current_link]) \in Nat \ {0}
    BY <1>5, NowFacts
  <2>2. m + 1 <= MaxUnread
    <3>1. /\ UnderWay \in Nat /\ m + Len(out[current_link]) <= UnderWay /\ UnderWay <= MaxUnread
      BY <1>1, <2>1, Counts
    <3>. QED
      BY <2>1, <3>1, SizeFacts
  <2>3. y < MemLen
    <3>1. m + 1 \in Nat
      OBVIOUS
    <3>. QED
      BY <1>4, <2>2, <3>1, TimesFacts
  <2>4. Written \in Nat /\ Written < PacketLen(Now)
    BY <1>5, WrittenFacts
  <2>5. PacketLen(Now) <= Longest /\ Longest \in Nat
    BY <2>1, TimesFacts
  <2>6. b - a <= x
    BY <1>2, <1>4
  <2>7. Written < Longest
    BY <2>1, <2>4, <2>5
  <2>8. b + Written - a < y
    BY <1>2, <1>4, <2>4, <2>5, <2>6, <2>7
  <2>. QED
    BY <1>2, <1>4, <2>3, <2>4, <2>8, SizeFacts
<1>6. b - a < MemLen
  BY <1>2, <1>4, SizeFacts
<1>. QED
  BY <1>1, <1>2, <1>5, <1>6

LEMMA RingOfWriteWord ==
  ASSUME Room, RInv, WriteWord
  PROVE  RingOk' /\ Written' = Written + 1
<1>0. RType /\ Counted /\ Copying /\ RingOk
  BY DEF RInv
<1>1. /\ state = "write_word" /\ state' = "wait_word" /\ mem_addr_o' = Plus(mem_addr_o, 1)
      /\ mem' = [mem EXCEPT ![mem_addr_o'] = captured_link]
      /\ UNCHANGED <<o_mem_addr_finished, m_FEBsc_rmem_addr, ring, out, current_link, captured_link,
                     sw, fpga_rmem_addr>>
  BY DEF WriteWord, software
<1>2. Written \in Nat /\ captured_link = Word(Now, Written + 1) /\ Written' = Written + 1 /\ Now' = Now
  <2>1. Written = captured_link.pos - 1 /\ captured_link.pos \in 1..PacketLen(Now)
        /\ captured_link = Word(Now, captured_link.pos)
    BY <1>0, <1>1 DEF Copying, Written
  <2>2. PacketLen(Now) \in Nat
    BY <1>0, <1>1, NowFacts
  <2>3. captured_link.pos \in Int /\ Written' = captured_link.pos
    BY <1>1, <2>1, <2>2 DEF Written
  <2>4. Written + 1 = captured_link.pos
    BY <2>1, <2>3
  <2>5. Written \in Nat
    BY <1>0, WrittenFacts
  <2>. QED
    BY <1>1, <2>1, <2>3, <2>4, <2>5 DEF Now
<1>3. PICK s : Starts(s, ring) /\ Stored(s) /\ Halfway(s) /\ Sampled(s)
  BY <1>0 DEF RingOk
<1>4. PICK m \in Nat : m = Len(ring) /\ ring \in Seq(Packet)
  BY <1>0, LenProperties DEF Counted
<1>5. PICK b \in Int, e \in Int : /\ b = s[m+1] /\ e = b + Written /\ s[1] \in Int /\ s[1] <= b
                                  /\ e - s[1] < MemLen
  <2>1. s[1] \in Int /\ s[m+1] \in Int /\ s[1] <= s[m+1] /\ s[m+1] + Written - s[1] < MemLen
    BY <1>0, <1>1, <1>3, <1>4, RingSpan
  <2>2. PICK b \in Int : b = s[m+1] /\ s[1] <= b /\ b + Written - s[1] < MemLen
    BY <2>1
  <2>3. PICK e \in Int : e = b + Written
    BY <1>2
  <2>4. e - s[1] < MemLen
    BY <1>2, <2>1, <2>2, <2>3
  <2>. QED
    BY <2>1, <2>2, <2>3, <2>4, Zenon
<1>6. mem_addr_o' = e % MemLen
  BY <1>1, <1>3, <1>4, <1>5 DEF Halfway
<1>7. ASSUME NEW a \in Int, s[1] <= a, a <= e
      PROVE  mem'[a % MemLen] = IF a = e THEN captured_link ELSE mem[a % MemLen]
  <2>1. mem \in [Addr -> AnyWord] /\ mem' = [mem EXCEPT ![e % MemLen] = captured_link]
    BY <1>0, <1>1, <1>6 DEF RType
  <2>2. e - a < MemLen
    BY <1>5, <1>7, SizeFacts
  <2>3. a % MemLen \in Addr /\ e % MemLen \in Addr
    BY ModTyped
  <2>4. a # e => a % MemLen # e % MemLen
    <3>. SUFFICES ASSUME a < e PROVE a % MemLen # e % MemLen
      BY <1>7
    <3>. QED
      BY <2>2, Apart
  <2>5. PICK i, j : i = a % MemLen /\ j = e % MemLen
    OBVIOUS
  <2>6. mem' = [mem EXCEPT ![j] = captured_link] /\ i \in Addr /\ j \in Addr /\ (a # e => i # j)
        /\ (a = e => i = j)
    BY <2>1, <2>3, <2>4, <2>5
  <2>7. mem'[i] = IF a = e THEN captured_link ELSE mem[i]
    BY <2>1, <2>6
  <2>. QED
    BY <2>5, <2>7
<1>8. Stored(s)'
  <2>1. ASSUME NEW k \in 1..m, NEW i \in 1..PacketLen(ring[k])
        PROVE  mem'[(s[k] + i - 1) % MemLen] = Word(ring[k], i)
    <3>1. /\ s[k] \in Int /\ PacketLen(ring[k]) \in Nat /\ s[1] <= s[k]
          /\ s[k] + PacketLen(ring[k]) <= b
      BY <1>3, <1>4, <1>5, StartsAt
    <3>2. PICK a \in Int : a = s[k] + i - 1 /\ s[1] <= a /\ a < e
      <4>1. i \in Int /\ 1 <= i /\ i <= PacketLen(ring[k])
        BY <3>1
      <4>2. s[k] + i - 1 \in Int /\ s[1] <= s[k] + i - 1 /\ s[k] + i - 1 < b
        BY <1>5, <3>1, <4>1
      <4>3. b <= e
        BY <1>2, <1>5
      <4>. QED
        BY <1>5, <4>2, <4>3
    <3>3. mem'[a % MemLen] = mem[a % MemLen]
      BY <1>7, <3>2
    <3>4. mem[(s[k] + i - 1) % MemLen] = Word(ring[k], i)
      BY <1>3, <1>4 DEF Stored
    <3>. QED
      BY <3>2, <3>3, <3>4
  <2>2. m_FEBsc_rmem_addr' = s[1] % MemLen /\ Plus(o_mem_addr_finished', 1) = s[m+1] % MemLen
    BY <1>1, <1>3, <1>4 DEF Stored
  <2>. QED
    BY <1>1, <1>4, <2>1, <2>2 DEF Stored, Word, PacketLen, Plus, MIN_SC_MESSAGE_SIZE
<1>9. Halfway(s)'
  <2>1. Plus(mem_addr_o', 1) = (b + (Written + 1)) % MemLen
    <3>1. Plus(e % MemLen, 1) = (e + 1) % MemLen
      BY ModAdd
    <3>2. e + 1 = b + (Written + 1)
      BY <1>2, <1>5
    <3>. QED
      BY <1>6, <3>1, <3>2
  <2>2. ASSUME NEW i \in 1..Written+1 PROVE mem'[(b + i - 1) % MemLen] = Word(Now, i)
    <3>1. PICK a \in Int : a = b + i - 1 /\ s[1] <= a /\ a <= e /\ (a = e <=> i = Written + 1)
      <4>1. b + i - 1 \in Int /\ s[1] <= b + i - 1 /\ b + i - 1 <= e /\ (b + i - 1 = e <=> i = Written + 1)
        BY <1>2, <1>5
      <4>. QED
        BY <4>1
    <3>2. CASE i = Written + 1
      BY <1>2, <1>7, <3>1, <3>2
    <3>3. CASE i # Written + 1
      <4>1. i \in 1..Written
        BY <1>2, <3>3
      <4>2. mem[(b + i - 1) % MemLen] = Word(Now, i)
        BY <1>3, <1>4, <1>5, <4>1 DEF Halfway
      <4>. QED
        BY <1>7, <3>1, <3>3, <4>2
    <3>. QED
      BY <3>2, <3>3
  <2>3. Len(ring') = m /\ Plus(mem_addr_o, 1)' = Plus(mem_addr_o', 1)
        /\ \A i : Word(Now, i)' = Word(Now', i)
    BY <1>1, <1>4 DEF Plus, Word, PacketLen
  <2>. QED
    BY <1>2, <1>5, <2>1, <2>2, <2>3 DEF Halfway
<1>10. Sampled(s)' /\ Starts(s, ring)'
  BY <1>1, <1>3 DEF Sampled, Starts, PacketLen, Times, Longest, IsLongest, MIN_SC_MESSAGE_SIZE
<1>. QED
  BY <1>2, <1>8, <1>9, <1>10 DEF RingOk

LEMMA InvOfWriteWord ==
  ASSUME Room, RInv, WriteWord
  PROVE  RInv'
<1>0. RType /\ Counted /\ LinksOk /\ Copying /\ RingOk /\ ~failed
  BY DEF RInv
<1>1. /\ state = "write_word" /\ state' = "wait_word" /\ current_link \in Link
      /\ fifo' = [fifo EXCEPT ![current_link] = Tail(@)]
      /\ UNCHANGED <<links, software, ring, out, current_link, captured_link>>
  BY <1>0 DEF WriteWord, RType
<1>2. RType'
  BY <1>0, TypeOfSecondary DEF Secondary
<1>3. Counted'
  BY <1>0, <1>1 DEF Counted, UnderWay
<1>4. RingOk' /\ Written' = Written + 1
  BY RingOfWriteWord
<1>5. ASSUME NEW l \in Link PROVE (Clean(l) \/ Stuck(l))'
  <2>1. out'[l] = out[l] /\ sending'[l] = sending[l]
    BY <1>1 DEF links
  <2>2. CASE l = current_link
    <3>1. Clean(l) /\ fifo[l] # <<>> /\ Popped(l) = Written /\ Popped(l)' = Written + 1
      BY <1>0, <1>1, <1>4, <2>2 DEF LinksOk, Stuck, Copying, Popped
    <3>2. PICK w \in Int : w = Written
      BY <1>0, WrittenFacts
    <3>3. fifo[l] \in Seq(AnyWord) /\ out[l] \in Seq(Packet) /\ Sends(sending[l])
          /\ Whole(fifo[l], out[l], sending[l], w)
      BY <1>0, <3>1, <3>2, LinkFacts DEF Clean
    <3>4. Whole(Tail(fifo[l]), out[l], sending[l], w + 1)
      BY <3>1, <3>3, WholePop
    <3>5. fifo'[l] = Tail(fifo[l])
      BY <1>0, <1>1, <2>2 DEF RType
    <3>6. Clean(l)'
      BY <2>1, <3>1, <3>2, <3>4, <3>5 DEF Clean
    <3>. QED
      BY <3>6
  <2>3. CASE l # current_link
    <3>1. fifo'[l] = fifo[l] /\ Popped(l)' = Popped(l)
      BY <1>0, <1>1, <2>3 DEF RType, Popped
    <3>. QED
      BY <1>0, <1>1, <2>1, <2>3, <3>1, LinkStays DEF LinksOk
  <2>. QED
    BY <2>2, <2>3
<1>6. Copying'
  <2>1. Now' = Now /\ PacketLen(Now)' = PacketLen(Now')
    BY <1>1 DEF Now
  <2>. QED
    BY <1>0, <1>1, <2>1 DEF Copying, PacketLen, Word, MIN_SC_MESSAGE_SIZE
<1>. QED
  BY <1>0, <1>1, <1>2, <1>3, <1>4, <1>5, <1>6 DEF RInv, LinksOk, software

\* The last word: the answer is published. Any other: on to the next one.
LEMMA WaitWordIs ==
  ASSUME RInv, WaitWord
  PROVE  /\ state = "wait_word" /\ captured_link = Word(Now, Written) /\ Written \in 1..PacketLen(Now)
         /\ captured_link.of = Now /\ (captured_link.eop <=> Written = PacketLen(Now))
         /\ captured_link.pos = Written
<1>1. RType /\ Counted /\ Copying /\ state = "wait_word"
  BY DEF RInv, WaitWord
<1>2. Written = captured_link.pos /\ captured_link.pos \in 1..PacketLen(Now)
      /\ captured_link = Word(Now, captured_link.pos)
  BY <1>1 DEF Copying, Written
<1>. QED
  BY <1>1, <1>2, WordIs

LEMMA InvOfNextWord ==
  ASSUME RInv, WaitWord, ~captured_link.eop
  PROVE  RInv'
<1>0. RType /\ Counted /\ LinksOk /\ Copying /\ RingOk /\ ~failed
  BY DEF RInv
<1>1. /\ state = "wait_word" /\ state' = "capture_body" /\ current_link \in Link
      /\ UNCHANGED <<mem, mem_addr_o, o_mem_addr_finished, links, software, fifo, ring, out,
                     current_link, captured_link>>
  BY <1>0 DEF WaitWord, RType
<1>2. RType'
  BY <1>0, TypeOfSecondary DEF Secondary
<1>3. Counted'
  BY <1>0, <1>1 DEF Counted, UnderWay
<1>4. Written' = Written /\ Now' = Now /\ Written \in Nat
  BY <1>0, <1>1, WrittenFacts DEF Written, Now
<1>5. ASSUME NEW l \in Link PROVE (Clean(l) \/ Stuck(l))'
  <2>1. Popped(l)' = Popped(l) /\ fifo'[l] = fifo[l] /\ out'[l] = out[l] /\ sending'[l] = sending[l]
    BY <1>1, <1>4 DEF Popped, links
  <2>. QED
    BY <1>0, <1>1, <2>1, LinkStays DEF LinksOk
<1>6. Copying'
  <2>1. PacketLen(Now) \in Nat /\ out[current_link] # <<>>
    BY <1>0, <1>1, NowFacts
  <2>2. captured_link.pos < PacketLen(Now)
    <3>1. Written \in 1..PacketLen(Now) /\ Written # PacketLen(Now) /\ captured_link.pos = Written
      BY WaitWordIs
    <3>. QED
      BY <2>1, <3>1
  <2>. QED
    BY <1>0, <1>1, <1>4, <2>1, <2>2 DEF Copying, PacketLen, Word, MIN_SC_MESSAGE_SIZE
<1>7. RingOk'
  <2>. UNCHANGED <<mem, mem_addr_o, o_mem_addr_finished, m_FEBsc_rmem_addr, ring, sw, fpga_rmem_addr>>
    BY <1>1 DEF software
  <2>. QED
    BY <1>0, <1>4, RingStays
<1>. QED
  BY <1>0, <1>1, <1>2, <1>3, <1>5, <1>6, <1>7 DEF RInv, LinksOk, software

LEMMA InvOfPublish ==
  ASSUME Room, RInv, WaitWord, captured_link.eop
  PROVE  RInv'
<1>0. RType /\ Counted /\ LinksOk /\ Copying /\ RingOk /\ ~failed
  BY DEF RInv
<1>1. /\ state = "wait_word" /\ state' = "rearm_wait" /\ current_link \in Link
      /\ o_mem_addr_finished' = mem_addr_o /\ ring' = Append(ring, Now)
      /\ out' = [out EXCEPT ![current_link] = Tail(@)]
      /\ UNCHANGED <<mem, mem_addr_o, links, software, fifo, current_link, captured_link>>
  BY <1>0, WaitWordIs DEF WaitWord, RType
<1>2. RType'
  BY <1>0, TypeOfSecondary DEF Secondary
<1>3. /\ Now \in Packet /\ out[current_link] \in Seq(Packet) /\ out[current_link] # <<>>
      /\ Written = PacketLen(Now) /\ PacketLen(Now) \in Nat /\ Written' = 0
  <2>1. Written = PacketLen(Now)
    BY WaitWordIs
  <2>2. Written' = 0
    BY <1>1 DEF Written
  <2>. QED
    BY <1>0, <1>1, <2>1, <2>2, NowFacts
<1>4. PICK m \in Nat : m = Len(ring) /\ ring \in Seq(Packet)
  BY <1>0, LenProperties DEF Counted
<1>5. PICK q : /\ q = Append(ring, Now) /\ q \in Seq(Packet) /\ Len(q) = m + 1 /\ q[m+1] = Now
               /\ \A k \in 1..m : q[k] = ring[k]
  <2>1. /\ Append(ring, Now) \in Seq(Packet) /\ Len(Append(ring, Now)) = m + 1
        /\ Append(ring, Now)[m+1] = Now /\ \A k \in 1..m : Append(ring, Now)[k] = ring[k]
    BY <1>3, <1>4, AppendProperties
  <2>. QED
    BY <2>1
<1>6. ring' = q
  BY <1>1, <1>5
<1>7. Counted'
  <2>1. out \in Outs
    BY <1>0 DEF Counted
  <2>2. out' \in Outs /\ Cardinality(InFlight(out')) = Cardinality(InFlight(out)) - 1
    BY <1>1, <1>3, <2>1, FlightTail
  <2>3. UnderWay = Len(ring) + Cardinality(InFlight(out)) /\ UnderWay' = Len(ring') + Cardinality(InFlight(out'))
    BY DEF UnderWay, InFlight
  <2>4. Cardinality(InFlight(out)) \in Nat
    BY <2>1, InFlightFinite
  <2>5. UnderWay' = UnderWay
    BY <1>4, <1>5, <1>6, <2>2, <2>3, <2>4, SMTT(30)
  <2>. QED
    BY <1>0, <1>5, <1>6, <2>2, <2>5 DEF Counted
<1>8. ASSUME NEW l \in Link PROVE (Clean(l) \/ Stuck(l))'
  <2>1. fifo'[l] = fifo[l] /\ sending'[l] = sending[l] /\ Popped(l)' = 0
    BY <1>1, <1>3 DEF links, Popped
  <2>2. CASE l = current_link
    <3>1. Clean(l) /\ Popped(l) = PacketLen(out[l][1])
      BY <1>0, <1>1, <1>3, <2>2 DEF LinksOk, Stuck, Popped, Now
    <3>2. fifo[l] \in Seq(AnyWord) /\ out[l] \in Seq(Packet) /\ Sends(sending[l]) /\ out[l] # <<>>
          /\ Whole(fifo[l], out[l], sending[l], PacketLen(out[l][1]))
      BY <1>0, <1>3, <2>2, <3>1, LinkFacts DEF Clean
    <3>3. Whole(fifo[l], Tail(out[l]), sending[l], 0)
      BY <3>2, WholeDone
    <3>4. out'[l] = Tail(out[l])
      BY <1>0, <1>1, <2>2 DEF Counted, Outs
    <3>5. Clean(l)'
      BY <2>1, <3>3, <3>4 DEF Clean
    <3>. QED
      BY <3>5
  <2>3. CASE l # current_link
    <3>1. out'[l] = out[l] /\ Popped(l) = 0
      BY <1>0, <1>1, <2>3 DEF Counted, Outs, Popped
    <3>. QED
      BY <1>0, <1>1, <2>1, <2>3, <3>1, LinkStays DEF LinksOk
  <2>. QED
    BY <2>2, <2>3
<1>9. Copying'
  BY <1>1 DEF Copying
<1>10. RingOk'
  <2>1. PICK s : Starts(s, ring) /\ Stored(s) /\ Halfway(s) /\ Sampled(s)
    BY <1>0 DEF RingOk
  <2>2. PICK r : /\ Starts(r, q) /\ \A k \in 1..m+1 : r[k] = s[k]
                 /\ r[m+2] = s[m+1] + PacketLen(Now)
    BY <1>3, <1>4, <1>5, <2>1, StartsAppend
  <2>3. r[1] = s[1] /\ r[m+1] = s[m+1] /\ m + 1 \in 1..m+1
    BY <1>4, <2>2
  <2>4. Plus(mem_addr_o, 1) = r[m+2] % MemLen
    BY <1>3, <1>4, <2>1, <2>2 DEF Halfway
  <2>5. ASSUME NEW k \in 1..m+1, NEW i \in 1..PacketLen(q[k])
        PROVE  mem[(r[k] + i - 1) % MemLen] = Word(q[k], i)
    <3>1. CASE k = m + 1
      <4>1. mem[(s[m+1] + i - 1) % MemLen] = Word(Now, i)
        BY <1>3, <1>4, <1>5, <2>1, <2>5, <3>1 DEF Halfway
      <4>. QED
        BY <1>5, <2>3, <3>1, <4>1
    <3>2. CASE k # m + 1
      <4>1. k \in 1..m /\ q[k] = ring[k] /\ r[k] = s[k]
        BY <1>5, <2>2, <3>2
      <4>2. i \in 1..PacketLen(ring[k])
        BY <4>1
      <4>3. mem[(s[k] + i - 1) % MemLen] = Word(ring[k], i)
        BY <1>4, <2>1, <4>1, <4>2 DEF Stored
      <4>. QED
        BY <4>1, <4>3
    <3>. QED
      BY <3>1, <3>2
  <2>6. Stored(r)'
    <3>1. m_FEBsc_rmem_addr' = r[1] % MemLen
      BY <1>1, <2>1, <2>3 DEF Stored, software
    <3>2. Plus(o_mem_addr_finished', 1) = r[Len(ring')+1] % MemLen
      <4>1. Len(ring') + 1 = m + 2
        BY <1>4, <1>5, <1>6
      <4>. QED
        BY <1>1, <2>4, <4>1
    <3>3. \A k \in 1..Len(ring') : \A i \in 1..PacketLen(ring'[k]) :
            mem'[(r[k] + i - 1) % MemLen] = Word(ring'[k], i)
      BY <1>1, <1>5, <1>6, <2>5
    <3>. QED
      BY <3>1, <3>2, <3>3 DEF Stored, Plus, PacketLen, Word, MIN_SC_MESSAGE_SIZE
  <2>7. Halfway(r)'
    <3>1. Len(ring') + 1 = m + 2
      BY <1>4, <1>5, <1>6
    <3>2. r[m+2] + 0 = r[m+2]
      <4>1. m + 2 \in 1..Len(q)+1 /\ r \in [1..Len(q)+1 -> Int]
        BY <1>4, <1>5, <2>2 DEF Starts
      <4>. QED
        BY <4>1
    <3>3. Plus(mem_addr_o', 1) = (r[Len(ring')+1] + Written') % MemLen
      BY <1>1, <1>3, <2>4, <3>1, <3>2
    <3>4. \A i \in 1..0 : FALSE
      OBVIOUS
    <3>. QED
      BY <1>3, <3>3, <3>4 DEF Halfway, Plus
  <2>8. Sampled(r)'
    <3>. SUFFICES ASSUME sw' = "parsing"
         PROVE  \E j \in 1..Len(q)+1 : fpga_rmem_addr' = r[j] % MemLen
      BY <1>6 DEF Sampled
    <3>1. PICK j \in 1..m+1 : fpga_rmem_addr = s[j] % MemLen
      BY <1>1, <1>4, <2>1 DEF Sampled, software
    <3>2. j \in 1..Len(q)+1 /\ r[j] = s[j]
      BY <1>5, <2>2
    <3>. QED
      BY <1>1, <3>1, <3>2 DEF software
  <2>9. Starts(r, ring)'
    BY <1>6, <2>2 DEF Starts, PacketLen, Times, Longest, IsLongest, MIN_SC_MESSAGE_SIZE
  <2>. QED
    BY <2>6, <2>7, <2>8, <2>9 DEF RingOk
<1>. QED
  BY <1>0, <1>1, <1>2, <1>7, <1>8, <1>9, <1>10 DEF RInv, LinksOk, software

LEMMA InvOfInitDone ==
  ASSUME RInv, InitDone
  PROVE  RInv'
<1>0. RType /\ Counted /\ LinksOk /\ Copying /\ RingOk /\ ~failed
  BY DEF RInv
<1>1. /\ state = "init" /\ state' = "waiting" /\ ring = <<>>
      /\ UNCHANGED <<current_link, captured_link, mem_addr_o, o_mem_addr_finished,
                     links, software, fifo, out, ring>>
  BY <1>0 DEF InitDone, Copying
<1>2. RType'
  BY <1>0, TypeOfSecondary DEF Secondary
<1>3. Counted'
  BY <1>0, <1>1 DEF Counted, UnderWay
<1>4. Written = 0 /\ Written' = 0
  BY <1>1 DEF Written
<1>5. ASSUME NEW l \in Link PROVE (Clean(l) \/ Stuck(l))'
  <2>1. Popped(l)' = Popped(l) /\ fifo'[l] = fifo[l] /\ out'[l] = out[l] /\ sending'[l] = sending[l]
    BY <1>1, <1>4 DEF Popped, links
  <2>. QED
    BY <1>0, <1>1, <2>1, LinkStays DEF LinksOk
<1>6. Copying'
  BY <1>1 DEF Copying
<1>7. RingOk'
  <2>1. PICK s : Starts(s, ring) /\ Stored(s) /\ Halfway(s) /\ Sampled(s)
    BY <1>0 DEF RingOk
  <2>2. Len(ring) = 0 /\ Len(ring') = 0 /\ \A i \in 1..0 : FALSE
    BY <1>1, EmptySeq
  <2>3. Stored(s)'
    BY <1>1, <2>1, <2>2 DEF Stored, Plus, software
  <2>4. Halfway(s)'
    BY <1>1, <1>4, <2>1, <2>2 DEF Halfway, Plus
  <2>5. Sampled(s)'
    BY <1>1, <2>1 DEF Sampled, software
  <2>6. Starts(s, ring)'
    BY <1>1, <2>1 DEF Starts, PacketLen, Times, Longest, IsLongest, MIN_SC_MESSAGE_SIZE
  <2>. QED
    BY <2>3, <2>4, <2>5, <2>6 DEF RingOk
<1>. QED
  BY <1>0, <1>1, <1>2, <1>3, <1>5, <1>6, <1>7 DEF RInv, LinksOk, software

-----------------------------------------------------------------------------
(* The software. *)

\* Steps that leave the links and SC secondary alone.
LEMMA LinksStay ==
  ASSUME LinksOk, Copying, UNCHANGED <<links, fifo, secondary, out>>, ring = <<>> => ring' = <<>>
  PROVE  LinksOk' /\ Copying' /\ Written' = Written /\ Now' = Now
<1>1. /\ UNCHANGED <<sending, fifo, out, state, current_link, captured_link>>
  BY DEF links, secondary
<1>2. Written' = Written /\ Now' = Now
  BY <1>1 DEF Written, Now
<1>3. Copying'
  BY <1>1, <1>2 DEF Copying, PacketLen, Word, MIN_SC_MESSAGE_SIZE
<1>4. ASSUME NEW l \in Link PROVE (Clean(l) \/ Stuck(l))'
  <2>1. Popped(l)' = Popped(l)
    BY <1>1, <1>2 DEF Popped
  <2>. QED
    BY <1>1, <2>1, LinkStays DEF LinksOk
<1>. QED
  BY <1>2, <1>3, <1>4 DEF LinksOk

LEMMA InvOfPoll ==
  ASSUME RInv, ReadStart \/ ReadEnd \/ ResetDone
  PROVE  RInv'
<1>0. RType /\ Counted /\ LinksOk /\ Copying /\ RingOk /\ ~failed
  BY DEF RInv
<1>1. /\ UNCHANGED <<m_FEBsc_rmem_addr, failed, links, fifo, secondary, out, ring>>
      /\ sw' = "parsing" => fpga_rmem_addr' = Plus(o_mem_addr_finished, 1)
  BY DEF ReadStart, ReadEnd, ResetDone
<1>2. RType'
  BY <1>0, TypeOfSoftware DEF Software
<1>3. Counted'
  BY <1>0, <1>1 DEF Counted, UnderWay
<1>4. LinksOk' /\ Copying' /\ Written' = Written /\ Now' = Now
  BY <1>0, <1>1, LinksStay
<1>5. RingOk'
  <2>1. PICK s : Starts(s, ring) /\ Stored(s) /\ Halfway(s) /\ Sampled(s)
    BY <1>0 DEF RingOk
  <2>2. UNCHANGED <<mem, mem_addr_o, o_mem_addr_finished>>
    BY <1>1 DEF secondary
  <2>3. Stored(s)'
    BY <1>1, <2>1, <2>2 DEF Stored, Plus, Word, PacketLen
  <2>4. Halfway(s)'
    BY <1>1, <1>4, <2>1, <2>2 DEF Halfway, Plus, Word, PacketLen
  <2>5. Sampled(s)'
    <3>. SUFFICES ASSUME sw' = "parsing"
         PROVE  \E j \in 1..Len(ring)+1 : fpga_rmem_addr' = s[j] % MemLen
      BY <1>1 DEF Sampled
    <3>1. fpga_rmem_addr' = s[Len(ring)+1] % MemLen
      BY <1>1, <2>1 DEF Stored
    <3>2. Len(ring) + 1 \in 1..Len(ring)+1
      <4>1. Len(ring) \in Nat
        BY <1>0, LenProperties DEF Counted
      <4>. QED
        BY <4>1
    <3>. QED
      BY <3>1, <3>2
  <2>6. Starts(s, ring)'
    BY <1>1, <2>1 DEF Starts, PacketLen, Times, Longest, IsLongest, MIN_SC_MESSAGE_SIZE
  <2>. QED
    BY <2>3, <2>4, <2>5, <2>6 DEF RingOk
<1>. QED
  BY <1>0, <1>1, <1>2, <1>3, <1>4, <1>5 DEF RInv

\* While there is something to parse, it is the oldest answer in the memory, all of it.
LEMMA OldestAnswer ==
  ASSUME Room, RInv, sw = "parsing", (fpga_rmem_addr - m_FEBsc_rmem_addr) % MemLen # 0, NEW s,
         Starts(s, ring), Stored(s), Sampled(s)
  PROVE  /\ ring # <<>> /\ ring[1] \in Packet
         /\ (fpga_rmem_addr - m_FEBsc_rmem_addr) % MemLen \in Nat
         /\ ring[1].data + 4 <= (fpga_rmem_addr - m_FEBsc_rmem_addr) % MemLen
         /\ \A i \in 0..ring[1].data+3 : mem[Plus(m_FEBsc_rmem_addr, i)] = Word(ring[1], i + 1)
         /\ \E j \in 2..Len(ring)+1 : fpga_rmem_addr = s[j] % MemLen
<1>0. RType /\ Counted /\ Copying /\ ring \in Seq(Packet)
  BY DEF RInv, Counted
<1>1. PICK m \in Nat : m = Len(ring)
  BY <1>0, LenProperties
<1>2. PICK j \in 1..m+1 : fpga_rmem_addr = s[j] % MemLen
  BY <1>1 DEF Sampled
<1>3. PICK a \in Int, c \in Int, b \in Int :
        a = s[1] /\ c = s[j] /\ b = s[m+1] /\ a <= c /\ c <= b /\ b - a < MemLen
  <2>1. s[1] \in Int /\ s[m+1] \in Int /\ s[m+1] - s[1] < MemLen
    BY <1>0, <1>1, RingSpan
  <2>2. 1 \in 1..m+1 /\ j \in 1..m+1 /\ m + 1 \in 1..m+1 /\ 1 <= j /\ j <= m + 1
    BY <1>1, <1>2
  <2>3. s[j] \in Int /\ s[1] <= s[j] /\ s[j] <= s[m+1]
    BY <1>1, <2>2 DEF Starts
  <2>. QED
    BY <2>1, <2>3
<1>4. (fpga_rmem_addr - m_FEBsc_rmem_addr) % MemLen = c - a
  <2>1. c - a \in 0..MemLen-1 /\ a + (c - a) = c
    BY <1>3, SizeFacts
  <2>2. ((c % MemLen) - (a % MemLen)) % MemLen = c - a
    BY <1>3, <2>1, ModDiff
  <2>3. fpga_rmem_addr = c % MemLen /\ m_FEBsc_rmem_addr = a % MemLen
    BY <1>2, <1>3 DEF Stored
  <2>. QED
    BY <2>2, <2>3
<1>5. j # 1
  BY <1>3, <1>4
<1>6. j \in 2..m+1 /\ 1 \in 1..m /\ m # 0
  BY <1>1, <1>2, <1>5
<1>7. ring # <<>> /\ ring[1] \in Packet
  <2>1. ring # <<>>
    BY <1>1, <1>6, EmptySeq
  <2>. QED
    BY <1>0, <1>1, <1>6, <2>1, ElementOfSeq
<1>8. PICK n \in Nat : n = ring[1].data /\ PacketLen(ring[1]) = n + 4
  BY <1>7, PacketFacts
<1>9. PICK d \in Int : d = s[2] /\ d = a + (n + 4) /\ d <= c
  <2>1. s[1+1] = s[1] + PacketLen(ring[1]) /\ s[1+1] \in Int
    BY <1>0, <1>1, <1>6, StartsAt
  <2>2. 2 \in 1..m+1 /\ j \in 1..m+1 /\ 2 <= j
    BY <1>6
  <2>3. s[2] <= s[j]
    BY <1>1, <2>2 DEF Starts
  <2>. QED
    BY <1>3, <1>8, <2>1, <2>3
<1>10. ASSUME NEW i \in 0..n+3 PROVE mem[Plus(m_FEBsc_rmem_addr, i)] = Word(ring[1], i + 1)
  <2>1. Plus(a % MemLen, i) = (a + i) % MemLen
    <3>1. i \in Int
      OBVIOUS
    <3>. QED
      BY <1>3, <3>1, ModAdd
  <2>2. i + 1 \in 1..PacketLen(ring[1]) /\ a + (i + 1) - 1 = a + i
    BY <1>3, <1>8
  <2>3. mem[(a + (i + 1) - 1) % MemLen] = Word(ring[1], i + 1)
    BY <1>1, <1>3, <1>6, <2>2 DEF Stored
  <2>4. m_FEBsc_rmem_addr = a % MemLen
    BY <1>3 DEF Stored
  <2>. QED
    BY <2>1, <2>2, <2>3, <2>4
<1>11. c - a \in Nat /\ n + 4 <= c - a
  BY <1>3, <1>8, <1>9
<1>. QED
  BY <1>1, <1>2, <1>4, <1>6, <1>7, <1>8, <1>10, <1>11

LEMMA ReadPacketIs ==
  ASSUME Room, RInv, ReadPacket
  PROVE  /\ ring # <<>> /\ ring[1] \in Packet /\ ring' = Tail(ring) /\ got' = Append(got, ring[1])
         /\ m_FEBsc_rmem_addr' = Plus(m_FEBsc_rmem_addr, ring[1].data + 4)
         /\ UNCHANGED <<sw, failed, fpga_rmem_addr, resets, links, fifo, secondary, out>>
<1>1. PICK s : Starts(s, ring) /\ Stored(s) /\ Sampled(s)
  BY DEF RInv, RingOk
<1>. DEFINE left == (fpga_rmem_addr - m_FEBsc_rmem_addr) % MemLen
            At(i) == mem[Plus(m_FEBsc_rmem_addr, i)]
<1>2. sw = "parsing" /\ left # 0
  BY DEF ReadPacket
<1>3. /\ ring # <<>> /\ ring[1] \in Packet /\ left \in Nat /\ ring[1].data + 4 <= left
      /\ \A i \in 0..ring[1].data+3 : At(i) = Word(ring[1], i + 1)
  BY <1>1, <1>2, OldestAnswer
<1>4. PICK p \in Packet, n \in Nat : /\ p = ring[1] /\ n = p.data /\ PacketLen(p) = n + 4
  BY <1>3, PacketFacts
<1>5. /\ At(0) = Word(p, 1) /\ At(2) = Word(p, 3) /\ At(n + 3) = Word(p, n + 4)
      /\ \A i \in 0..n+3 : At(i) = Word(p, i + 1)
  <2>1. 0 \in 0..n+3 /\ 2 \in 0..n+3 /\ n + 3 \in 0..n+3 /\ (n + 3) + 1 = n + 4
    BY <1>4
  <2>2. \A i \in 0..n+3 : At(i) = Word(p, i + 1)
    BY <1>3, <1>4
  <2>3. At(0) = Word(p, 0 + 1) /\ At(2) = Word(p, 2 + 1) /\ At(n + 3) = Word(p, (n + 3) + 1)
    BY <2>1, <2>2
  <2>. QED
    BY <2>1, <2>2, <2>3
<1>6. left >= 4 /\ ~(left < 4) /\ ~(left - 3 < n + 1)
  BY <1>3, <1>4
<1>7. At(0).pos = 1 /\ At(0).of = p /\ At(2).pos = 3 /\ At(2).of.data = n /\ At(n + 3).eop
  BY <1>4, <1>5, WordIs
<1>. HIDE DEF left, At
<1>8. /\ \/ At(0).pos # 1 \/ left < 4
         \/ \E k \in IF At(2).pos = 3 THEN {At(2).of.data} ELSE DataLen :
              IF left - 3 < k + 1 THEN failed' = TRUE
              ELSE IF ~At(k + 3).eop THEN failed' = TRUE
              ELSE /\ m_FEBsc_rmem_addr' = Plus(m_FEBsc_rmem_addr, k + 4)
                   /\ got' = Append(got, IF \A i \in 0..k+3 : At(i) = Word(At(0).of, i + 1)
                                         THEN At(0).of ELSE Garbage)
                   /\ ring' = IF ring = <<>> THEN ring ELSE Tail(ring)
                   /\ UNCHANGED <<sw, failed>>
      /\ UNCHANGED <<fpga_rmem_addr, resets, links, fifo, secondary, out>>
  BY DEF ReadPacket, left, At, MIN_SC_MESSAGE_SIZE
<1>9. /\ m_FEBsc_rmem_addr' = Plus(m_FEBsc_rmem_addr, n + 4)
      /\ got' = Append(got, IF \A i \in 0..n+3 : At(i) = Word(p, i + 1) THEN p ELSE Garbage)
      /\ ring' = (IF ring = <<>> THEN ring ELSE Tail(ring)) /\ UNCHANGED <<sw, failed>>
  BY <1>6, <1>7, <1>8
<1>10. got' = Append(got, p) /\ ring' = Tail(ring)
  BY <1>3, <1>5, <1>9
<1>. QED
  BY <1>3, <1>4, <1>8, <1>9, <1>10

LEMMA InvOfReadPacket ==
  ASSUME Room, RInv, ReadPacket
  PROVE  RInv'
<1>0. RType /\ Counted /\ LinksOk /\ Copying /\ RingOk /\ ~failed
  BY DEF RInv
<1>1. /\ ring # <<>> /\ ring[1] \in Packet /\ ring' = Tail(ring)
      /\ m_FEBsc_rmem_addr' = Plus(m_FEBsc_rmem_addr, ring[1].data + 4)
      /\ UNCHANGED <<sw, failed, fpga_rmem_addr, links, fifo, secondary, out>>
  BY ReadPacketIs
<1>2. RType'
  BY <1>0, TypeOfSoftware DEF Software
<1>3. PICK m \in Nat : Len(ring) = m + 1 /\ ring \in Seq(Packet)
  <2>1. ring \in Seq(Packet)
    BY <1>0 DEF Counted
  <2>2. Len(ring) \in Nat \ {0}
    BY <1>1, <2>1, EmptySeq
  <2>3. Len(ring) - 1 \in Nat /\ Len(ring) = (Len(ring) - 1) + 1
    BY <2>2
  <2>. QED
    BY <2>1, <2>3
<1>4. PICK q : q = Tail(ring) /\ q \in Seq(Packet) /\ Len(q) = m /\ \A k \in 1..m : q[k] = ring[k+1]
  <2>1. Tail(ring) \in Seq(Packet) /\ Len(Tail(ring)) = m /\ \A k \in 1..m : Tail(ring)[k] = ring[k+1]
    BY <1>1, <1>3, HeadTailProperties
  <2>. QED
    BY <2>1
<1>5. ring' = q
  BY <1>1, <1>4
<1>6. Counted'
  <2>1. out \in Outs /\ UnderWay <= MaxUnread
    BY <1>0 DEF Counted
  <2>2. UnderWay = Len(ring) + Cardinality(InFlight(out)) /\ UnderWay' = Len(ring') + Cardinality(InFlight(out))
    BY <1>1 DEF UnderWay, InFlight
  <2>3. Cardinality(InFlight(out)) \in Nat
    BY <2>1, InFlightFinite
  <2>4. PICK c \in Nat : c = Cardinality(InFlight(out))
    BY <2>3
  <2>5. UnderWay = m + 1 + c /\ UnderWay' = m + c
    BY <1>3, <1>4, <1>5, <2>2, <2>4
  <2>6. UnderWay' <= MaxUnread
    BY <2>1, <2>5, SizeFacts
  <2>. QED
    BY <1>1, <1>4, <1>5, <2>1, <2>6 DEF Counted
<1>7. LinksOk' /\ Copying' /\ Written' = Written /\ Now' = Now
  BY <1>0, <1>1, LinksStay
<1>8. RingOk'
  <2>1. PICK s : Starts(s, ring) /\ Stored(s) /\ Halfway(s) /\ Sampled(s)
    BY <1>0 DEF RingOk
  <2>2. PICK r : Starts(r, q) /\ \A k \in 1..m+1 : r[k] = s[k+1]
    BY <1>1, <1>3, <1>4, <2>1, StartsTail
  <2>3. 1 \in 1..m+1 /\ m + 1 \in 1..m+1 /\ Len(ring) + 1 = (m + 1) + 1
    BY <1>3
  <2>4. r[1] = s[1+1] /\ r[m+1] = s[(m+1)+1]
    BY <2>2, <2>3
  <2>5. m_FEBsc_rmem_addr' = r[1] % MemLen
    <3>1. 1 \in 1..Len(ring)
      BY <1>3
    <3>2. PICK a \in Int, n \in Nat : a = s[1] /\ n = ring[1].data /\ s[1+1] = a + (n + 4)
      <4>1. s[1] \in Int /\ s[1+1] = s[1] + PacketLen(ring[1])
        BY <1>3, <2>1, <3>1, StartsAt
      <4>. QED
        BY <1>1, <4>1, PacketFacts
    <3>3. Plus(a % MemLen, n + 4) = (a + (n + 4)) % MemLen
      <4>1. n + 4 \in Int
        OBVIOUS
      <4>. QED
        BY <4>1, ModAdd
    <3>4. m_FEBsc_rmem_addr = a % MemLen
      BY <2>1, <3>2 DEF Stored
    <3>. QED
      BY <1>1, <2>4, <3>2, <3>3, <3>4
  <2>6. UNCHANGED <<mem, mem_addr_o, o_mem_addr_finished>>
    BY <1>1 DEF secondary
  <2>7. Stored(r)'
    <3>1. Plus(o_mem_addr_finished, 1) = r[m+1] % MemLen
      BY <2>1, <2>3, <2>4 DEF Stored
    <3>2. ASSUME NEW k \in 1..m, NEW i \in 1..PacketLen(q[k])
          PROVE  mem[(r[k] + i - 1) % MemLen] = Word(q[k], i)
      <4>1. k + 1 \in 1..Len(ring) /\ q[k] = ring[k+1] /\ r[k] = s[k+1]
        BY <1>3, <1>4, <2>2
      <4>2. i \in 1..PacketLen(ring[k+1])
        BY <4>1
      <4>3. mem[(s[k+1] + i - 1) % MemLen] = Word(ring[k+1], i)
        BY <2>1, <4>1, <4>2 DEF Stored
      <4>. QED
        BY <4>1, <4>3
    <3>3. \A k \in 1..Len(ring') : \A i \in 1..PacketLen(ring'[k]) :
            mem'[(r[k] + i - 1) % MemLen] = Word(ring'[k], i)
      BY <1>4, <1>5, <2>6, <3>2
    <3>4. Plus(o_mem_addr_finished', 1) = r[Len(ring')+1] % MemLen
      BY <1>4, <1>5, <2>6, <3>1
    <3>. QED
      BY <2>5, <3>3, <3>4 DEF Stored, Plus, PacketLen, Word, MIN_SC_MESSAGE_SIZE
  <2>8. Halfway(r)'
    <3>1. s[Len(ring)+1] = r[Len(ring')+1]
      BY <1>4, <1>5, <2>3, <2>4
    <3>2. Plus(mem_addr_o', 1) = (r[Len(ring')+1] + Written') % MemLen
      BY <1>7, <2>1, <2>6, <3>1 DEF Halfway
    <3>3. \A i \in 1..Written' : mem'[(r[Len(ring')+1] + i - 1) % MemLen] = Word(Now', i)
      BY <1>7, <2>1, <2>6, <3>1 DEF Halfway
    <3>. QED
      BY <3>2, <3>3 DEF Halfway, Plus, PacketLen, Word, MIN_SC_MESSAGE_SIZE
  <2>9. Sampled(r)'
    <3>1. sw = "parsing" /\ (fpga_rmem_addr - m_FEBsc_rmem_addr) % MemLen # 0
      BY DEF ReadPacket
    <3>2. PICK j \in 2..Len(ring)+1 : fpga_rmem_addr = s[j] % MemLen
      BY <2>1, <3>1, OldestAnswer
    <3>3. PICK k \in 1..m+1 : j = k + 1
      <4>1. j - 1 \in 1..m+1 /\ j = (j - 1) + 1
        BY <1>3
      <4>. QED
        BY <4>1
    <3>4. fpga_rmem_addr' = r[k] % MemLen /\ k \in 1..Len(ring')+1
      BY <1>1, <1>4, <1>5, <2>2, <3>2, <3>3
    <3>. QED
      BY <3>4 DEF Sampled
  <2>10. Starts(r, ring)'
    BY <1>5, <2>2 DEF Starts, PacketLen, Times, Longest, IsLongest, MIN_SC_MESSAGE_SIZE
  <2>. QED
    BY <2>7, <2>8, <2>9, <2>10 DEF RingOk
<1>. QED
  BY <1>0, <1>1, <1>2, <1>6, <1>7, <1>8 DEF RInv

\* Everything begins anew, but for a link whose board is in the middle of an answer.
LEMMA FreshRing ==
  ASSUME Room
  PROVE  \E s : Starts(s, <<>>) /\ s[1] = 0 /\ s[Len(<<>>)+1] = 0 /\ s[1] % MemLen = 0
                /\ Plus(MemLen - 1, 1) = 0
<1>1. 0 \in Int
  OBVIOUS
<1>2. PICK s : Starts(s, <<>>) /\ s[1] = 0
  BY <1>1, StartsNone
<1>3. Len(<<>>) + 1 = 1
  BY EmptySeq
<1>4. 0 % MemLen = 0
  <2>1. 0 \in 0..MemLen-1 /\ 0 = MemLen * 0 + 0
    BY SizeFacts
  <2>. QED
    BY <2>1, ModIs
<1>5. MemLen % MemLen = 0
  <2>1. 0 \in 0..MemLen-1 /\ MemLen \in Int /\ MemLen = MemLen * 1 + 0
    BY SizeFacts
  <2>. QED
    BY <2>1, ModIs
<1>6. MemLen - 1 + 1 = MemLen
  BY SizeFacts
<1>7. Plus(MemLen - 1, 1) = 0
  BY <1>5, <1>6 DEF Plus
<1>. QED
  BY <1>2, <1>3, <1>4, <1>7

LEMMA InvOfReset ==
  ASSUME Room, RInv, ResetSecondary
  PROVE  RInv'
<1>0. RType /\ ~failed
  BY DEF RInv
<1>1. /\ sw' = "resetting" /\ m_FEBsc_rmem_addr' = 0 /\ state' = "init" /\ mem_addr_o' = MemLen - 1
      /\ o_mem_addr_finished' = MemLen - 1 /\ fifo' = [l \in Link |-> <<>>]
      /\ out' = [l \in Link |-> <<>>] /\ ring' = <<>> /\ UNCHANGED <<links, failed>>
  BY DEF ResetSecondary
<1>2. RType'
  BY <1>0, TypeOfSoftware
<1>3. Counted'
  <2>1. out' \in Outs /\ Cardinality(InFlight(out')) = 0
    BY <1>1, FlightNone
  <2>2. ring' \in Seq(Packet) /\ Len(ring') = 0
    BY <1>1, EmptySeq
  <2>3. UnderWay' = 0
    <3>1. UnderWay' = Len(ring') + Cardinality(InFlight(out'))
      BY DEF UnderWay, InFlight
    <3>. QED
      BY <2>1, <2>2, <3>1
  <2>. QED
    BY <2>1, <2>2, <2>3, SizeFacts DEF Counted
<1>4. Written' = 0
  BY <1>1 DEF Written
<1>5. ASSUME NEW l \in Link PROVE (Clean(l) \/ Stuck(l))'
  <2>1. fifo'[l] = <<>> /\ out'[l] = <<>> /\ Popped(l)' = 0
    BY <1>1, <1>4 DEF Popped
  <2>2. CASE sending'[l] = <<>>
    <3>1. Whole(fifo'[l], out'[l], sending'[l], Popped(l)')
      BY <2>1, <2>2, WholeNone
    <3>. QED
      BY <3>1 DEF Clean
  <2>3. CASE sending'[l] # <<>>
    BY <1>1, <2>1, <2>3 DEF Stuck, Headless
  <2>. QED
    BY <2>2, <2>3
<1>6. Copying'
  BY <1>1 DEF Copying
<1>7. RingOk'
  <2>1. PICK s : /\ Starts(s, <<>>) /\ s[1] = 0 /\ s[Len(<<>>)+1] = 0 /\ s[1] % MemLen = 0
                 /\ Plus(MemLen - 1, 1) = 0
    BY FreshRing
  <2>2. Len(ring') = 0 /\ \A i \in 1..0 : FALSE
    BY <1>1, EmptySeq
  <2>3. Stored(s)'
    BY <1>1, <2>1, <2>2 DEF Stored, Plus
  <2>4. Halfway(s)'
    <3>1. Plus(mem_addr_o', 1) = (s[Len(ring')+1] + Written') % MemLen
      BY <1>1, <1>4, <2>1, <2>2
    <3>. QED
      BY <1>4, <2>2, <3>1 DEF Halfway, Plus
  <2>5. Sampled(s)'
    BY <1>1 DEF Sampled
  <2>6. Starts(s, ring)'
    BY <1>1, <2>1 DEF Starts, PacketLen, Times, Longest, IsLongest, MIN_SC_MESSAGE_SIZE
  <2>. QED
    BY <2>3, <2>4, <2>5, <2>6 DEF RingOk
<1>. QED
  BY <1>0, <1>1, <1>2, <1>3, <1>5, <1>6, <1>7 DEF RInv, LinksOk

LEMMA InvInit ==
  ASSUME Room, Init
  PROVE  RInv
<1>1. RType /\ ~failed
  BY TypeInit DEF Init
<1>2. /\ sw = "idle" /\ m_FEBsc_rmem_addr = 0 /\ state = "waiting" /\ mem_addr_o = MemLen - 1
      /\ o_mem_addr_finished = MemLen - 1 /\ fifo = [l \in Link |-> <<>>]
      /\ out = [l \in Link |-> <<>>] /\ ring = <<>> /\ sending = [l \in Link |-> <<>>]
  BY DEF Init
<1>3. Counted
  <2>1. out \in Outs /\ Cardinality(InFlight(out)) = 0
    BY <1>2, FlightNone
  <2>2. ring \in Seq(Packet) /\ Len(ring) = 0
    BY <1>2, EmptySeq
  <2>3. UnderWay = 0
    BY <2>1, <2>2 DEF UnderWay, InFlight
  <2>. QED
    BY <2>1, <2>2, <2>3, SizeFacts DEF Counted
<1>4. Written = 0
  BY <1>2 DEF Written
<1>5. ASSUME NEW l \in Link PROVE Clean(l)
  <2>1. fifo[l] = <<>> /\ out[l] = <<>> /\ sending[l] = <<>> /\ Popped(l) = 0
    BY <1>2, <1>4 DEF Popped
  <2>. QED
    BY <2>1, WholeNone DEF Clean
<1>6. Copying
  BY <1>2 DEF Copying
<1>7. RingOk
  <2>1. PICK s : /\ Starts(s, <<>>) /\ s[1] = 0 /\ s[Len(<<>>)+1] = 0 /\ s[1] % MemLen = 0
                 /\ Plus(MemLen - 1, 1) = 0
    BY FreshRing
  <2>2. Len(ring) = 0 /\ \A i \in 1..0 : FALSE
    BY <1>2, EmptySeq
  <2>3. Stored(s)
    BY <1>2, <2>1, <2>2 DEF Stored
  <2>4. Halfway(s)
    BY <1>2, <1>4, <2>1, <2>2 DEF Halfway
  <2>5. Sampled(s)
    BY <1>2 DEF Sampled
  <2>6. Starts(s, ring)
    BY <1>2, <2>1
  <2>. QED
    BY <2>3, <2>4, <2>5, <2>6 DEF RingOk
<1>. QED
  BY <1>1, <1>3, <1>5, <1>6, <1>7 DEF RInv, LinksOk

LEMMA InvStutter ==
  ASSUME RInv, UNCHANGED vars
  PROVE  RInv'
<1>0. RType /\ Counted /\ LinksOk /\ Copying /\ RingOk /\ ~failed
  BY DEF RInv
<1>1. UNCHANGED <<links, fifo, secondary, software, out, ring>>
  BY DEF vars
<1>2. RType'
  BY <1>0, TypeNext
<1>3. Counted'
  BY <1>0, <1>1 DEF Counted, UnderWay
<1>4. LinksOk' /\ Copying' /\ Written' = Written /\ Now' = Now
  BY <1>0, <1>1, LinksStay
<1>5. RingOk'
  <2>1. UNCHANGED <<mem, mem_addr_o, o_mem_addr_finished, m_FEBsc_rmem_addr, ring, sw, fpga_rmem_addr>>
    BY <1>1 DEF secondary, software
  <2>2. Written \in Nat
    BY <1>0, WrittenFacts
  <2>. QED
    BY <1>0, <1>4, <2>1, <2>2, RingStays
<1>. QED
  BY <1>0, <1>1, <1>2, <1>3, <1>4, <1>5 DEF RInv, software

LEMMA InvNext ==
  ASSUME Room, RInv, [Next]_vars
  PROVE  RInv'
<1>1. CASE \E l \in Link : Continue(l) \/ \E n \in DataLen : Begin(l, n)
  BY <1>1, InvOfBegin, InvOfContinue
<1>2. CASE Secondary
  <2>1. CASE WaitWord
    BY <2>1, InvOfNextWord, InvOfPublish
  <2>. QED
    BY <1>2, <2>1, InvOfWaiting, InvOfRearmWait, InvOfCaptureWord, InvOfWriteWord, InvOfInitDone DEF Secondary
<1>3. CASE Software
  BY <1>3, InvOfPoll, InvOfReadPacket DEF Software
<1>4. CASE ResetSecondary
  BY <1>4, InvOfReset
<1>5. CASE UNCHANGED vars
  BY <1>5, InvStutter
<1>. QED
  BY <1>1, <1>2, <1>3, <1>4, <1>5 DEF Next

\* The inductive invariant: each FIFO holds the words of its link's answers, and the RO memory
\* whole answers from the software's pointer to the published end and the beginning of one more.
THEOREM Invariance ==
  Room => (Spec => []RInv)
<1>. SUFFICES ASSUME Room PROVE Spec => []RInv
  OBVIOUS
<1>1. Init => RInv
  BY InvInit
<1>2. RInv /\ [Next]_vars => RInv'
  BY InvNext
<1>. QED
  BY <1>1, <1>2, PTL DEF Spec

\* FEBsc_read_packets never returns -1, round the memory any number of times, while SC secondary
\* writes behind what it parses, and after a reset in the middle of an answer, if the FIFOs hold
\* what the callers leave unread. A FIFO that overflows is what the hypothesis leaves out.
THEOREM NeverBrokenHolds ==
  Room => (Spec => []NeverBroken)
<1>. SUFFICES ASSUME Room PROVE Spec => []NeverBroken
  OBVIOUS
<1>1. RInv => NeverBroken
  BY DEF RInv, NeverBroken
<1>. QED
  BY <1>1, Invariance, PTL

-----------------------------------------------------------------------------
(* Refinement of ReplyChannel. *)

LEMMA ChannelInit == Init => Channel!Init
  BY DEF Init, Channel!Init

LEMMA ChannelStep ==
  ASSUME Room, RInv, [Next]_vars
  PROVE  [Channel!Next]_Channel!vars
<1>0. RType /\ Counted /\ Copying
  BY DEF RInv
<1>1. ASSUME NEW l \in Link, NEW n \in DataLen, Begin(l, n) PROVE Channel!Next
  <2>1. PICK p : p = [link |-> l, n |-> count[l] + 1, data |-> n]
    OBVIOUS
  <2>2. p \in Packet
    BY <1>0, <1>1, <2>1, SizeFacts DEF Begin, RType, Packet
  <2>3. Channel!Send(l, p)
    BY <1>1, <2>1 DEF Begin, Channel!Send, software
  <2>. QED
    BY <2>2, <2>3 DEF Channel!Next
<1>2. ASSUME WaitWord, captured_link.eop PROVE Channel!Next
  <2>1. /\ out' = [out EXCEPT ![current_link] = Tail(@)] /\ ring' = Append(ring, Now)
        /\ UNCHANGED got
    BY <1>2, WaitWordIs DEF WaitWord, software
  <2>2. current_link \in Link /\ out[current_link] # <<>> /\ Head(out[current_link]) = Now
    <3>1. state = "wait_word"
      BY <1>2 DEF WaitWord
    <3>. QED
      BY <1>0, <3>1, NowFacts
  <2>3. Channel!Publish(current_link)
    BY <2>1, <2>2 DEF Channel!Publish
  <2>. QED
    BY <2>2, <2>3 DEF Channel!Next
<1>3. ASSUME ReadPacket PROVE Channel!Next
  <2>1. ring # <<>> /\ ring' = Tail(ring) /\ got' = Append(got, ring[1]) /\ UNCHANGED out
    BY <1>3, ReadPacketIs
  <2>2. Head(ring) = ring[1]
    BY <1>0, <2>1, HeadTailProperties DEF Counted
  <2>. QED
    BY <2>1, <2>2 DEF Channel!Next, Channel!Fetch
<1>4. ASSUME ResetSecondary PROVE Channel!Next
  <2>1. out' = [l \in Link |-> <<>>] /\ ring' = <<>> /\ UNCHANGED got
    BY <1>4 DEF ResetSecondary
  <2>2. ASSUME NEW l \in Link PROVE Channel!IsSuffix(out'[l], out[l])
    <3>1. out'[l] = <<>>
      BY <2>1
    <3>2. out[l] \in Seq(Packet) /\ Len(out[l]) \in Nat
      BY <1>0, Counts
    <3>3. Len(<<>>) = 0 /\ 1..0 = {}
      BY EmptySeq
    <3>4. Channel!Reverse(<<>>) = <<>>
      BY <3>3 DEF Channel!Reverse
    <3>5. Len(Channel!Reverse(out[l])) = Len(out[l])
      BY <3>2 DEF Channel!Reverse
    <3>6. Channel!IsPrefix(<<>>, Channel!Reverse(out[l]))
      BY <3>2, <3>3, <3>5, SubSeqEmpty DEF Channel!IsPrefix
    <3>. QED
      BY <3>1, <3>4, <3>6 DEF Channel!IsSuffix
  <2>3. Channel!Reset
    <3>1. DOMAIN out' = Link
      BY <2>1
    <3>. QED
      BY <2>1, <2>2, <3>1 DEF Channel!Reset
  <2>. QED
    BY <2>3 DEF Channel!Next
<1>5. ASSUME NEW l \in Link, Continue(l) PROVE UNCHANGED Channel!vars
  BY <1>5 DEF Continue, Channel!vars, software
<1>6. ASSUME Waiting \/ RearmWait \/ CaptureWord PROVE UNCHANGED Channel!vars
  BY <1>6 DEF Waiting, RearmWait, CaptureWord, Goto, Channel!vars, software
<1>7. ASSUME WriteWord \/ (WaitWord /\ ~captured_link.eop) \/ InitDone PROVE UNCHANGED Channel!vars
  BY <1>7 DEF WriteWord, WaitWord, InitDone, Channel!vars, software
<1>8. ASSUME ReadStart \/ ReadEnd \/ ResetDone \/ UNCHANGED vars PROVE UNCHANGED Channel!vars
  BY <1>8 DEF ReadStart, ReadEnd, ResetDone, vars, software, Channel!vars
<1>9. Channel!Next \/ UNCHANGED Channel!vars
  <2>1. CASE \E l \in Link : Continue(l) \/ \E n \in DataLen : Begin(l, n)
    <3>1. PICK l \in Link : Continue(l) \/ \E n \in DataLen : Begin(l, n)
      BY <2>1
    <3>2. CASE Continue(l)
      BY <3>2, <1>5
    <3>3. CASE \E n \in DataLen : Begin(l, n)
      BY <3>3, <1>1
    <3>. QED
      BY <3>1, <3>2, <3>3
  <2>2. CASE Secondary
    <3>1. CASE WaitWord
      BY <3>1, <1>2, <1>7
    <3>2. CASE Waiting \/ RearmWait \/ CaptureWord
      BY <3>2, <1>6
    <3>3. CASE WriteWord \/ InitDone
      BY <3>3, <1>7
    <3>. QED
      BY <2>2, <3>1, <3>2, <3>3 DEF Secondary
  <2>3. CASE Software
    BY <2>3, <1>3, <1>8 DEF Software
  <2>4. CASE ResetSecondary
    BY <2>4, <1>4
  <2>5. CASE UNCHANGED vars
    BY <2>5, <1>8
  <2>. QED
    BY <2>1, <2>2, <2>3, <2>4, <2>5 DEF Next
<1>. QED
  BY <1>9

\* FIFOs, SC secondary, memory and parser implement ReplyChannel: the answers reach the deque
\* whole, once and in link order, and only a reset loses any, if the FIFOs hold what is unread.
THEOREM ChannelImplemented ==
  Room => (Spec => ImplementsChannel)
<1>. SUFFICES ASSUME Room PROVE Spec => Channel!Spec
  BY DEF ImplementsChannel
<1>1. RInv /\ [Next]_vars => [Channel!Next]_Channel!vars
  BY ChannelStep
<1>. QED
  BY <1>1, ChannelInit, Invariance, PTL DEF Spec, Channel!Spec
=============================================================================
