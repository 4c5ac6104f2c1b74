------------------------- MODULE SlowControlProofs -------------------------
(* Proofs about SlowControl, for every number of callers, boards and calls. *)
EXTENDS SlowControl, SequenceTheorems, TLAPS

-----------------------------------------------------------------------------
(* Facts about the sequences the packets travel in. *)

\* What is left of a queue, and what was taken off it, is a queue.
LEMMA DropType ==
  ASSUME NEW S, NEW s \in Seq(S), NEW n \in 0..Len(s)
  PROVE  /\ Drop(s, n) \in Seq(S) /\ Len(Drop(s, n)) = Len(s) - n
         /\ SubSeq(s, 1, n) \in Seq(S) /\ Len(SubSeq(s, 1, n)) = n
  BY DEF Drop

\* A queue whose newest entries are lost is a queue.
LEMMA ShortenType ==
  ASSUME NEW S, NEW s \in Seq(S), NEW n \in 0..Len(s)
  PROVE  SubSeq(s, 1, Len(s) - n) \in Seq(S)
  OBVIOUS

\* A queue with one entry.
LEMMA SingleEntry ==
  ASSUME NEW S, NEW s \in Seq(S), Len(s) = 1
  PROVE  s # <<>> /\ Head(s) = s[1] /\ Tail(s) = <<>>
<1>1. s # <<>>
  OBVIOUS
<1>2. Tail(s) \in Seq(S) /\ Len(Tail(s)) = 0
  BY <1>1, HeadTailProperties
<1>3. Tail(s) = <<>>
  BY <1>2, EmptySeq
<1>. QED
  BY <1>1, <1>3

\* What SC main holds.
LEMMA OneEntry ==
  ASSUME NEW S, NEW s \in Seq(S), s # <<>>, Len(s) <= 1
  PROVE  Len(s) = 1 /\ s[1] \in S
<1>1. Len(s) \in Nat /\ Len(s) # 0
  BY EmptySeq
<1>. DEFINE n == Len(s)
<1>2. n \in Nat /\ n # 0 /\ n <= 1
  BY <1>1
<1>. HIDE DEF n
<1>3. n = 1
  BY <1>2
<1>. QED
  BY <1>3 DEF n

-----------------------------------------------------------------------------
(* Type correctness. *)

LEMMA NoCommandType == NoCommand \in Command
  BY FebAssumption, BoundAssumption DEF NoCommand, Command, Ops

LEMMA NothingType == Nothing \in Outcome
  BY BoundAssumption DEF Nothing, Outcome, Codes, Ops

\* What the end of a call assigns.
LEMMA ReturnType ==
  ASSUME TypeOK, NEW c \in Caller, NEW code \in Codes, NEW ans \in 0..MaxCalls,
         NEW v \in 0..MaxCalls, Return(c, code, ans, v)
  PROVE  /\ lock' \in Caller \cup {NoOne}
         /\ pc' \in [Caller -> {"idle", "done", "ack", "reply"}]
         /\ cmd' \in [Caller -> Command]
         /\ polls' \in [Caller -> 0..MaxPolls-1]
         /\ last' \in [Caller -> Outcome]
         /\ upset' \in BOOLEAN
<1>1. cmd[c] \in Command /\ upset' \in BOOLEAN
  BY DEF TypeOK, Return
<1>2. [code |-> code, op |-> cmd[c].op, id |-> cmd[c].id, answer |-> ans, val |-> v,
       upset |-> upset'] \in Outcome
  BY <1>1 DEF Command, Outcome
<1>. QED
  BY <1>1, <1>2, NoCommandType, PollsAssumption DEF TypeOK, Return

\* What one more fruitless iteration assigns.
LEMMA PollAgainType ==
  ASSUME TypeOK, NEW c \in Caller, PollAgain(c)
  PROVE  /\ lock' \in Caller \cup {NoOne}
         /\ pc' \in [Caller -> {"idle", "done", "ack", "reply"}]
         /\ cmd' \in [Caller -> Command]
         /\ polls' \in [Caller -> 0..MaxPolls-1]
         /\ last' \in [Caller -> Outcome]
         /\ upset' \in BOOLEAN
<1>1. CASE polls[c] + 1 < MaxPolls
  <2>1. polls[c] + 1 \in 0..MaxPolls-1
    BY <1>1, PollsAssumption DEF TypeOK
  <2>2. /\ polls' = [polls EXCEPT ![c] = polls[c] + 1]
        /\ UNCHANGED <<lock, pc, cmd, last, upset>>
    BY <1>1 DEF PollAgain
  <2>. QED
    BY <2>1, <2>2 DEF TypeOK
<1>2. CASE ~(polls[c] + 1 < MaxPolls)
  <2>1. Return(c, "FPGA_TIMEOUT", 0, 0)
    BY <1>2 DEF PollAgain
  <2>2. "FPGA_TIMEOUT" \in Codes /\ 0 \in 0..MaxCalls
    BY BoundAssumption DEF Codes
  <2>. QED
    BY <2>1, <2>2, ReturnType
<1>. QED
  BY <1>1, <1>2

\* What the parser hands over.
LEMMA ParseType ==
  ASSUME TypeOK, NEW n \in 0..Len(ring)
  PROVE  /\ Drop(ring, n) \in Seq(Packet) /\ Rests(n) \subseteq Seq(Packet)
         /\ Fetched(n) \in Seq(Packet)
         /\ Retval(n) > 0 => /\ Fetched(n) # <<>>
                             /\ Head(Fetched(n)) \in Packet
                             /\ Tail(Fetched(n)) \in Seq(Packet)
<1>1. ring \in Seq(Packet) /\ deque \in Seq(Packet)
  BY DEF TypeOK
<1>2. /\ Drop(ring, n) \in Seq(Packet)
      /\ SubSeq(ring, 1, n) \in Seq(Packet) /\ Len(SubSeq(ring, 1, n)) = n
  BY <1>1, DropType
<1>5. n < Len(ring) => Drop(ring, n + 1) \in Seq(Packet)
  <2>1. n < Len(ring) => n + 1 \in 0..Len(ring)
    BY <1>1
  <2>. QED
    BY <1>1, <2>1, DropType
<1>3. Fetched(n) \in Seq(Packet) /\ Len(Fetched(n)) = Len(deque) + n
  BY <1>1, <1>2 DEF Fetched
<1>4. Retval(n) > 0 => Len(Fetched(n)) > 0
  BY <1>1, <1>3 DEF Retval
<1>. QED
  BY <1>2, <1>3, <1>4, <1>5 DEF Rests

\* What a reset of SC secondary leaves.
LEMMA ResetType ==
  ASSUME TypeOK, ResetSecondary
  PROVE  ring' \in Seq(Packet) /\ up' \in [Feb -> Seq(Packet)] /\ cut' \subseteq Feb
<1>1. PICK k \in [Feb -> 0..MaxCalls], h \in SUBSET Feb :
        /\ \A f \in Feb : k[f] <= Len(up[f])
        /\ up' = [f \in Feb |-> Drop(up[f], k[f])]
        /\ cut' = h
  BY DEF ResetSecondary
<1>2. \A f \in Feb : Drop(up[f], k[f]) \in Seq(Packet)
  <2>. SUFFICES ASSUME NEW f \in Feb PROVE Drop(up[f], k[f]) \in Seq(Packet)
    OBVIOUS
  <2>1. up[f] \in Seq(Packet) /\ k[f] \in 0..Len(up[f])
    BY <1>1, BoundAssumption DEF TypeOK
  <2>. QED
    BY <2>1, DropType
<1>. QED
  BY <1>1, <1>2 DEF ResetSecondary

\* A fresh command, and the answer a board gives to one, are well formed.
LEMMA AnswerType ==
  ASSUME NEW x \in Command, x.op # "BC", NEW v \in 0..MaxCalls
  PROVE  Answer(x, v) \in Packet
  BY DEF Answer, Packet, Command, Ops

LEMMA Zeros == 0 \in 0..MaxPolls-1 /\ 0 \in 0..MaxCalls /\ 0 \in 0..MaxFaults
  BY PollsAssumption, BoundAssumption

LEMMA TypeInit == Init => TypeOK
<1>. SUFFICES ASSUME Init PROVE TypeOK
  OBVIOUS
<1>1. <<>> \in Seq(Command) /\ <<>> \in Seq(Packet) /\ Len(<<>>) <= 1
  OBVIOUS
<1>2. /\ lock \in Caller \cup {NoOne} /\ upset \in BOOLEAN /\ cut \subseteq Feb
      /\ pc \in [Caller -> {"idle", "done", "ack", "reply"}]
      /\ cmd \in [Caller -> Command] /\ last \in [Caller -> Outcome]
      /\ polls \in [Caller -> 0..MaxPolls-1]
  BY NoCommandType, NothingType, Zeros DEF Init
<1>3. /\ main \in Seq(Command) /\ Len(main) <= 1
      /\ down \in [Feb -> Seq(Command)] /\ up \in [Feb -> Seq(Packet)]
      /\ ring \in Seq(Packet) /\ deque \in Seq(Packet)
  BY <1>1 DEF Init
<1>4. serial \in 0..MaxCalls /\ faults \in 0..MaxFaults /\ reg \in [Feb -> 0..MaxCalls]
  BY Zeros DEF Init
<1>. QED
  BY <1>2, <1>3, <1>4 DEF TypeOK

LEMMA TypeStart ==
  ASSUME TypeOK, NEW c \in Caller, StartAny(c) PROVE TypeOK'
<1>1. PICK op \in Ops, f \in Feb, n \in ReadLen \cup {0} : Start(c, op, f, n)
  BY DEF StartAny, Ops
<1>. DEFINE x == [op |-> op, feb |-> f, len |-> n, id |-> serial + 1]
<1>2. serial + 1 \in 0..MaxCalls
  BY <1>1, BoundAssumption DEF Start, TypeOK
<1>3. x \in Command
  BY <1>2 DEF Command
<1>4. main' = <<x>> /\ cmd' = [cmd EXCEPT ![c] = x] /\ serial' = serial + 1
  BY <1>1 DEF Start
<1>5. main' \in Seq(Command) /\ Len(main') <= 1
  BY <1>3, <1>4
<1>. QED
  BY <1>1, <1>2, <1>3, <1>4, <1>5, NothingType, PollsAssumption DEF Start, TypeOK

LEMMA TypePollDone ==
  ASSUME TypeOK, NEW c \in Caller, PollDone(c) PROVE TypeOK'
<1>1. CASE main # <<>>
  BY <1>1, PollAgainType DEF PollDone, firmware, TypeOK
<1>2. CASE main = <<>> /\ cmd[c].op = "BC"
  <2>1. Return(c, "OK", 0, 0)
    BY <1>2 DEF PollDone
  <2>2. "OK" \in Codes /\ 0 \in 0..MaxCalls
    BY BoundAssumption DEF Codes
  <2>. QED
    BY <2>1, <2>2, ReturnType DEF PollDone, firmware, TypeOK
<1>3. CASE main = <<>> /\ cmd[c].op # "BC"
  <2>1. /\ pc' = [pc EXCEPT ![c] = "ack"]
        /\ polls' = [polls EXCEPT ![c] = 0]
        /\ UNCHANGED <<lock, cmd, last, upset, serial, deque, firmware, reg, faults>>
    BY <1>3 DEF PollDone
  <2>. QED
    BY <2>1, Zeros DEF firmware, TypeOK
<1>. QED
  BY <1>1, <1>2, <1>3

LEMMA TypePollAck ==
  ASSUME TypeOK, NEW c \in Caller, PollAck(c) PROVE TypeOK'
<1>1. PICK n \in 0..Len(ring) :
        /\ ring' \in Rests(n)
        /\ IF Retval(n) > 0 /\ Head(Fetched(n)).op = "WR"
           THEN /\ Return(c, IF Head(Fetched(n)).form = "good" THEN "OK" ELSE "BAD_PACKET",
                          Head(Fetched(n)).id, 0)
                /\ deque' = Tail(Fetched(n))
           ELSE /\ deque' = IF Retval(n) > 0 THEN Tail(Fetched(n)) ELSE Fetched(n)
                /\ PollAgain(c)
  BY DEF PollAck
<1>2. UNCHANGED <<serial, main, down, up, cut, reg, faults>>
  BY DEF PollAck
<1>3. ring' \in Seq(Packet) /\ deque' \in Seq(Packet)
  BY <1>1, ParseType
<1>4. /\ lock' \in Caller \cup {NoOne}
      /\ pc' \in [Caller -> {"idle", "done", "ack", "reply"}]
      /\ cmd' \in [Caller -> Command]
      /\ polls' \in [Caller -> 0..MaxPolls-1]
      /\ last' \in [Caller -> Outcome]
      /\ upset' \in BOOLEAN
  <2>1. CASE Retval(n) > 0 /\ Head(Fetched(n)).op = "WR"
    <3>1. Head(Fetched(n)).id \in 0..MaxCalls /\ 0 \in 0..MaxCalls
      BY <2>1, ParseType, BoundAssumption DEF Packet
    <3>2. (IF Head(Fetched(n)).form = "good" THEN "OK" ELSE "BAD_PACKET") \in Codes
      BY DEF Codes
    <3>. QED
      BY <1>1, <2>1, <3>1, <3>2, ReturnType DEF TypeOK
  <2>2. CASE ~(Retval(n) > 0 /\ Head(Fetched(n)).op = "WR")
    BY <1>1, <2>2, PollAgainType
  <2>. QED
    BY <2>1, <2>2
<1>. QED
  BY <1>2, <1>3, <1>4 DEF TypeOK

LEMMA TypeTakeReply ==
  ASSUME TypeOK, NEW c \in Caller, NEW p \in Packet, NEW rest \in Seq(Packet),
         TakeReply(c, p, rest)
  PROVE  /\ lock' \in Caller \cup {NoOne}
         /\ pc' \in [Caller -> {"idle", "done", "ack", "reply"}]
         /\ cmd' \in [Caller -> Command]
         /\ polls' \in [Caller -> 0..MaxPolls-1]
         /\ last' \in [Caller -> Outcome]
         /\ ring' \in Seq(Packet) /\ up' \in [Feb -> Seq(Packet)] /\ cut' \subseteq Feb
         /\ upset' \in BOOLEAN
<1>1. p.id \in 0..MaxCalls /\ p.val \in 0..MaxCalls /\ 0 \in 0..MaxCalls
  BY BoundAssumption DEF Packet
<1>2. {"OK", "BAD_PACKET", "WRONG_SIZE"} \subseteq Codes
  BY DEF Codes
<1>3. CASE Return(c, "OK", p.id, p.val) /\ ring' = rest /\ UNCHANGED <<up, cut>>
  BY <1>1, <1>2, <1>3, ReturnType DEF TypeOK
<1>4. CASE /\ Return(c, IF p.form # "good" THEN "BAD_PACKET" ELSE "WRONG_SIZE", p.id, 0)
           /\ ResetSecondary
  BY <1>1, <1>2, <1>4, ReturnType, ResetType
<1>5. CASE Return(c, "BAD_PACKET", p.id, 0) /\ ring' = rest /\ UNCHANGED <<up, cut>>
  BY <1>1, <1>2, <1>5, ReturnType DEF TypeOK
<1>. QED
  BY <1>3, <1>4, <1>5 DEF TakeReply

LEMMA TypePollReply ==
  ASSUME TypeOK, NEW c \in Caller, PollReply(c) PROVE TypeOK'
<1>1. PICK n \in 0..Len(ring) :
        \/ /\ Retval(n) = 0
           /\ PollAgain(c)
           /\ UNCHANGED <<deque, ring, up, cut>>
        \/ /\ Retval(n) < 0
           /\ Return(c, "BAD_PACKET", 0, 0)
           /\ deque' = Fetched(n)
           /\ ResetSecondary
        \/ /\ Retval(n) > 0
           /\ deque' = Tail(Fetched(n))
           /\ TakeReply(c, Head(Fetched(n)), Drop(ring, n))
  BY DEF PollReply
<1>2. UNCHANGED <<serial, main, down, reg, faults>>
  BY DEF PollReply
<1>3. CASE PollAgain(c) /\ UNCHANGED <<deque, ring, up, cut>>
  BY <1>2, <1>3, PollAgainType DEF TypeOK
<1>4. CASE /\ Return(c, "BAD_PACKET", 0, 0) /\ deque' = Fetched(n)
           /\ ResetSecondary
  <2>1. "BAD_PACKET" \in Codes /\ 0 \in 0..MaxCalls
    BY BoundAssumption DEF Codes
  <2>. QED
    BY <1>2, <1>4, <2>1, ParseType, ReturnType, ResetType DEF TypeOK
<1>5. CASE /\ Retval(n) > 0 /\ deque' = Tail(Fetched(n))
           /\ TakeReply(c, Head(Fetched(n)), Drop(ring, n))
  BY <1>2, <1>5, ParseType, TypeTakeReply DEF TypeOK
<1>. QED
  BY <1>1, <1>3, <1>4, <1>5

LEMMA TypeFirmware ==
  ASSUME TypeOK,
         Send \/ \E f \in Feb : Execute(f) \/ Receive(f)
  PROVE  TypeOK'
<1>1. CASE Send
  <2>1. main[1] \in Command
    BY <1>1 DEF Send, TypeOK
  <2>2. down' \in [Feb -> Seq(Command)]
    BY <1>1, <2>1 DEF Send, TypeOK
  <2>. QED
    BY <1>1, <2>2 DEF Send, software, TypeOK
<1>2. ASSUME NEW f \in Feb, Execute(f) PROVE TypeOK'
  <2>1. down[f] \in Seq(Command) /\ down[f] # <<>>
    BY <1>2 DEF Execute, TypeOK
  <2>2. Head(down[f]) \in Command /\ Tail(down[f]) \in Seq(Command)
    BY <2>1
  <2>. DEFINE x == Head(down[f])
              v == IF x.op = "RD" THEN reg[f] ELSE x.id
  <2>3. v \in 0..MaxCalls /\ 0 \in 0..MaxCalls
    BY <2>2, BoundAssumption, SMTT(30) DEF Command, TypeOK
  <2>4. x.op # "BC" => Answer(x, IF x.op = "RD" THEN v ELSE 0) \in Packet
    BY <2>2, <2>3, AnswerType
  <2>5. up' \in [Feb -> Seq(Packet)]
    BY <1>2, <2>4 DEF Execute, TypeOK
  <2>. QED
    BY <1>2, <2>2, <2>3, <2>5 DEF Execute, software, TypeOK
<1>3. ASSUME NEW f \in Feb, Receive(f) PROVE TypeOK'
  <2>1. up[f] \in Seq(Packet) /\ up[f] # <<>>
    BY <1>3 DEF Receive, TypeOK
  <2>. QED
    BY <1>3, <2>1 DEF Receive, software, TypeOK
<1>. QED
  BY <1>1, <1>2, <1>3

LEMMA TypeFault ==
  ASSUME TypeOK,
         Restart \/ \E f \in Feb : LoseDown(f) \/ LoseUp(f) \/ Damage(f)
  PROVE  TypeOK'
<1>1. faults' \in 0..MaxFaults /\ upset' \in BOOLEAN
  <2>1. Fault
    BY DEF Restart, LoseDown, LoseUp, Damage
  <2>. QED
    BY <2>1, BoundAssumption DEF TypeOK, Fault
<1>2. ASSUME NEW f \in Feb, LoseDown(f) PROVE TypeOK'
  BY <1>1, <1>2 DEF LoseDown, software, TypeOK
<1>3. ASSUME NEW f \in Feb, LoseUp(f) PROVE TypeOK'
  BY <1>1, <1>3 DEF LoseUp, software, TypeOK
<1>4. ASSUME NEW f \in Feb, Damage(f) PROVE TypeOK'
  <2>1. up[f] \in Seq(Packet) /\ up[f] # <<>>
    BY <1>4 DEF Damage, TypeOK
  <2>2. up[f][1] \in Packet
    BY <2>1
  <2>3. PICK p \in Packet : up' = [up EXCEPT ![f] = [@ EXCEPT ![1] = p]]
    BY <1>4, <2>2 DEF Damage, Packet
  <2>4. [up[f] EXCEPT ![1] = p] \in Seq(Packet)
    BY <2>1
  <2>. QED
    BY <1>1, <1>4, <2>3, <2>4 DEF Damage, software, TypeOK
<1>5. CASE Restart
  <2>1. PICK j \in [Feb -> 0..MaxCalls] :
          /\ \A f \in Feb : j[f] <= Len(down[f])
          /\ down' = [f \in Feb |-> SubSeq(down[f], 1, Len(down[f]) - j[f])]
    BY <1>5 DEF Restart
  <2>2. \A f \in Feb : SubSeq(down[f], 1, Len(down[f]) - j[f]) \in Seq(Command)
    <3>. SUFFICES ASSUME NEW f \in Feb
                  PROVE  SubSeq(down[f], 1, Len(down[f]) - j[f]) \in Seq(Command)
      OBVIOUS
    <3>1. down[f] \in Seq(Command) /\ j[f] \in 0..Len(down[f])
      BY <2>1, BoundAssumption DEF TypeOK
    <3>. QED
      BY <3>1, ShortenType
  <2>3. ring' \in Seq(Packet) /\ up' \in [Feb -> Seq(Packet)] /\ cut' \subseteq Feb
    BY <1>5, ResetType DEF Restart
  <2>4. down' \in [Feb -> Seq(Command)]
    BY <2>1, <2>2
  <2>5. /\ lock' \in Caller \cup {NoOne}
        /\ pc' \in [Caller -> {"idle", "done", "ack", "reply"}]
        /\ cmd' \in [Caller -> Command]
        /\ polls' \in [Caller -> 0..MaxPolls-1]
        /\ last' \in [Caller -> Outcome]
    BY <1>5, NoCommandType, NothingType, Zeros DEF Restart
  <2>6. main' \in Seq(Command) /\ Len(main') <= 1 /\ deque' \in Seq(Packet)
    BY <1>5 DEF Restart
  <2>. QED
    BY <1>1, <1>5, <2>3, <2>4, <2>5, <2>6 DEF Restart, TypeOK
<1>. QED
  BY <1>2, <1>3, <1>4, <1>5

LEMMA TypeNext == TypeOK /\ [Next]_vars => TypeOK'
<1>. SUFFICES ASSUME TypeOK, [Next]_vars PROVE TypeOK'
  OBVIOUS
<1>1. ASSUME NEW c \in Caller, Busy(c) PROVE TypeOK'
  <2>1. [Nothing EXCEPT !.code = "FPGA_BUSY", !.upset = upset] \in Outcome
    BY NothingType DEF Outcome, Codes, TypeOK
  <2>. QED
    BY <1>1, <2>1 DEF Busy, firmware, TypeOK
<1>2. CASE UNCHANGED vars
  BY <1>2 DEF vars, TypeOK
<1>. QED
  BY <1>1, <1>2, TypeStart, TypePollDone, TypePollAck, TypePollReply, TypeFirmware,
     TypeFault DEF Next, Poll

\* Every variable keeps its type.
THEOREM TypeCorrect == Spec => []TypeOK
  BY TypeInit, TypeNext, PTL DEF Spec

-----------------------------------------------------------------------------
(* The inductive invariant: one command expects an answer, in one place. *)

LEMMA InvInit == Init => IInv
  BY CallerAssumption
  DEF Init, IInv, Mutex, Waiting, OnePlace, OwnAnswer, CleanOutcome, NoneExpected,
      OnlyBroadcasts, NoAnswers, Nothing

\* The call that returns is the only open one.
LEMMA ReturnMutex ==
  ASSUME TypeOK, Mutex, NEW c \in Caller, pc[c] # "idle",
         NEW code, NEW ans, NEW v, Return(c, code, ans, v)
  PROVE  Mutex' /\ Waiting' /\ lock' = NoOne
  BY CallerAssumption DEF TypeOK, Mutex, Waiting, Return

\* A fruitless iteration: either nothing moves, or the call gives up.
LEMMA PollAgainInv ==
  ASSUME TypeOK, Mutex, Waiting, NEW c \in Caller, pc[c] # "idle", PollAgain(c),
         UNCHANGED main
  PROVE  /\ Mutex' /\ Waiting'
         /\ \/ upset' = TRUE /\ \E code, ans, v : Return(c, code, ans, v)
            \/ UNCHANGED <<lock, pc, cmd, last, upset>>
<1>1. CASE polls[c] + 1 < MaxPolls
  BY <1>1 DEF PollAgain, Mutex, Waiting
<1>2. CASE ~(polls[c] + 1 < MaxPolls)
  <2>1. Return(c, "FPGA_TIMEOUT", 0, 0)
    BY <1>2 DEF PollAgain
  <2>. QED
    BY <2>1, ReturnMutex DEF Return
<1>. QED
  BY <1>1, <1>2

\* A call that returns while upset promises nothing; one that returns otherwise
\* does so with OK and its own answer.
LEMMA ReturnUpset ==
  ASSUME TypeOK, IInv, NEW c \in Caller, NEW code, NEW ans, NEW v,
         Return(c, code, ans, v), upset'
  PROVE  OwnAnswer' /\ CleanOutcome'
  BY DEF TypeOK, IInv, OwnAnswer, CleanOutcome, Return

LEMMA ReturnClean ==
  ASSUME TypeOK, IInv, NEW c \in Caller, NEW ans, NEW v, Return(c, "OK", ans, v),
         cmd[c].op = "BC" \/ ans = cmd[c].id
  PROVE  OwnAnswer' /\ CleanOutcome'
  BY DEF TypeOK, IInv, OwnAnswer, CleanOutcome, Return

LEMMA InvStart ==
  ASSUME TypeOK, IInv, NEW c \in Caller, StartAny(c) PROVE IInv'
<1>1. PICK op \in Ops, f \in Feb, n \in ReadLen \cup {0} : Start(c, op, f, n)
  BY DEF StartAny, Ops
<1>. DEFINE x == [op |-> op, feb |-> f, len |-> n, id |-> serial + 1]
<1>2. /\ pc[c] = "idle" /\ lock = NoOne /\ lock' = c
      /\ pc' = [pc EXCEPT ![c] = IF op = "RD" THEN "reply" ELSE "done"]
      /\ cmd' = [cmd EXCEPT ![c] = x]
      /\ last' = [last EXCEPT ![c] = Nothing]
      /\ main' = <<x>>
      /\ upset' = (upset /\ ~Quiet)
      /\ UNCHANGED <<down, up, ring, deque>>
  BY <1>1 DEF Start
<1>3. \A d \in Caller : pc[d] = "idle"
  BY <1>2, CallerAssumption DEF IInv, Mutex
<1>4. Mutex'
  BY <1>2, <1>3, CallerAssumption DEF Mutex, TypeOK
<1>5. cmd'[c] = x /\ pc'[c] = (IF op = "RD" THEN "reply" ELSE "done")
  BY <1>2 DEF TypeOK
<1>6. Waiting'
  BY <1>2, <1>3, <1>5 DEF Waiting, Ops, TypeOK
<1>7. OnePlace'
  <2>. SUFFICES ASSUME ~upset' PROVE OnePlace'
    BY DEF OnePlace
  <2>1. deque = <<>> /\ NoneExpected /\ NoAnswers
    BY <1>2 DEF IInv, OnePlace, Quiet
  <2>2. (deque = <<>>)' /\ NoneExpected' /\ NoAnswers'
    BY <1>2, <2>1 DEF NoneExpected, NoAnswers, OnlyBroadcasts
  <2>3. Sending(c)'
    BY <1>2, <1>5, <2>2 DEF Sending
  <2>. QED
    BY <1>2, <2>2, <2>3, CallerAssumption DEF OnePlace
<1>8. OwnAnswer' /\ CleanOutcome'
  BY <1>2 DEF IInv, OwnAnswer, CleanOutcome, Nothing, TypeOK
<1>. QED
  BY <1>4, <1>6, <1>7, <1>8 DEF IInv

\* FPGA_BUSY cannot be the first thing that goes wrong.
LEMMA InvBusy ==
  ASSUME TypeOK, IInv, NEW c \in Caller, Busy(c) PROVE IInv'
<1>1. upset
  BY DEF Busy, IInv, OnePlace
<1>. QED
  BY <1>1 DEF Busy, firmware, IInv, Mutex, Waiting, OnePlace, OwnAnswer, CleanOutcome

\* An iteration that finds nothing changes nothing, or gives up.
LEMMA PollNothing ==
  ASSUME TypeOK, IInv, NEW c \in Caller, pc[c] # "idle", PollAgain(c),
         UNCHANGED main, ~upset => UNCHANGED <<deque, down, up, ring>>
  PROVE  IInv'
<1>1. /\ Mutex' /\ Waiting'
      /\ \/ upset' = TRUE /\ \E code, ans, v : Return(c, code, ans, v)
         \/ UNCHANGED <<lock, pc, cmd, last, upset>>
  BY PollAgainInv DEF IInv
<1>2. CASE upset' = TRUE /\ \E code, ans, v : Return(c, code, ans, v)
  <2>1. OwnAnswer' /\ CleanOutcome'
    BY <1>2, ReturnUpset
  <2>. QED
    BY <1>1, <1>2, <2>1 DEF IInv, OnePlace
<1>3. CASE UNCHANGED <<lock, pc, cmd, last, upset>>
  BY <1>1, <1>3
  DEF IInv, OnePlace, OwnAnswer, CleanOutcome, NoneExpected, NoAnswers,
      OnlyBroadcasts, Sending, Broadcast, Posted, OnLink, InRing
<1>. QED
  BY <1>1, <1>2, <1>3

LEMMA InvPollDone ==
  ASSUME TypeOK, IInv, NEW c \in Caller, PollDone(c) PROVE IInv'
<1>0. /\ pc[c] = "done" /\ UNCHANGED <<deque, main, down, up, ring>>
      /\ Mutex /\ Waiting
  BY DEF PollDone, firmware, IInv
<1>1. CASE main # <<>>
  <2>1. PollAgain(c)
    BY <1>1 DEF PollDone
  <2>. QED
    BY <1>0, <2>1, PollNothing
<1>2. CASE main = <<>> /\ cmd[c].op = "BC"
  <2>1. Return(c, "OK", 0, 0)
    BY <1>2 DEF PollDone
  <2>2. Mutex' /\ Waiting' /\ lock' = NoOne
    BY <1>0, <2>1, ReturnMutex
  <2>3. OnePlace'
    <3>. SUFFICES ASSUME ~upset' PROVE OnePlace'
      BY DEF OnePlace
    <3>0. ~upset
      BY <2>1 DEF Return
    <3>1. deque = <<>> /\ NoneExpected /\ NoAnswers
      BY <1>0, <1>2, <3>0
      DEF IInv, Mutex, OnePlace, Sending, Broadcast, Posted, OnLink, InRing
    <3>2. (deque = <<>>)' /\ (main = <<>>)' /\ NoneExpected' /\ NoAnswers'
      BY <1>0, <1>2, <3>1 DEF NoneExpected, NoAnswers, OnlyBroadcasts
    <3>. QED
      BY <2>2, <3>2, CallerAssumption DEF OnePlace
  <2>4. OwnAnswer' /\ CleanOutcome'
    BY <1>2, <2>1, ReturnClean
  <2>. QED
    BY <2>2, <2>3, <2>4 DEF IInv
<1>3. CASE main = <<>> /\ cmd[c].op # "BC"
  <2>1. /\ pc' = [pc EXCEPT ![c] = "ack"]
        /\ UNCHANGED <<lock, cmd, last, upset>>
    BY <1>3 DEF PollDone
  <2>2. cmd[c].op = "WR"
    BY <1>0, <1>3 DEF Waiting
  <2>3. Mutex' /\ Waiting'
    BY <1>0, <1>3, <2>1, <2>2 DEF Mutex, Waiting, TypeOK
  <2>. QED
    BY <1>0, <2>1, <2>3
    DEF IInv, OnePlace, OwnAnswer, CleanOutcome, NoneExpected, NoAnswers,
        OnlyBroadcasts, Sending, Broadcast, Posted, OnLink, InRing
<1>. QED
  BY <1>1, <1>2, <1>3

\* Fresh parse of an empty ring, or of a ring with one good packet.
LEMMA ParseOne ==
  ASSUME TypeOK, deque = <<>>, NEW n \in 0..Len(ring), Parses(n)
  PROVE  /\ ring = <<>> => n = 0 /\ Retval(n) = 0 /\ Fetched(n) = <<>>
                           /\ Rests(n) = {<<>>}
         /\ Len(ring) = 1 /\ ring[1].form = "good" =>
              /\ n = 1 /\ Retval(n) = 1 /\ Rests(n) = {<<>>}
              /\ Fetched(n) # <<>> /\ Head(Fetched(n)) = ring[1]
              /\ Tail(Fetched(n)) = <<>>
<1>1. ring \in Seq(Packet)
  BY DEF TypeOK
<1>2. CASE ring = <<>>
  <2>1. n = 0 /\ Len(ring) = 0
    BY <1>1, <1>2
  <2>2. Drop(ring, n) = <<>> /\ ~(n < Len(ring))
    BY <1>1, <1>2, <2>1 DEF Drop
  <2>3. Rests(n) = {<<>>}
    BY <2>2 DEF Rests
  <2>. QED
    BY <1>1, <1>2, <2>1, <2>3 DEF Retval, Fetched
<1>3. CASE Len(ring) = 1 /\ ring[1].form = "good"
  <2>1. n = 1
    BY <1>1, <1>3 DEF Parses
  <2>0. Drop(ring, n) = <<>> /\ ~(n < Len(ring))
    BY <1>1, <1>3, <2>1 DEF Drop
  <2>2. Retval(n) = 1 /\ Rests(n) = {<<>>}
    BY <2>0, <2>1 DEF Retval, Rests
  <2>3. SubSeq(ring, 1, 1) = ring
    BY <1>1, <1>3
  <2>4. Fetched(n) = ring
    BY <1>1, <2>1, <2>3 DEF Fetched
  <2>5. ring # <<>> /\ Head(ring) = ring[1] /\ Tail(ring) = <<>>
    BY <1>1, <1>3, SingleEntry
  <2>. QED
    BY <1>1, <1>3, <2>1, <2>2, <2>4, <2>5
<1>. QED
  BY <1>2, <1>3, <1>1

\* While the promise holds, the open call polls an empty ring or finds its own
\* answer, alone.
LEMMA PollSees ==
  ASSUME TypeOK, IInv, ~upset, NEW c \in Caller, pc[c] \in {"ack", "reply"},
         NEW n \in 0..Len(ring), Parses(n)
  PROVE  \/ Retval(n) = 0 /\ Fetched(n) = <<>> /\ Rests(n) = {<<>>} /\ ring = <<>>
         \/ /\ Retval(n) = 1 /\ Rests(n) = {<<>>} /\ Fetched(n) # <<>>
            /\ Tail(Fetched(n)) = <<>>
            /\ AnswersTo(Head(Fetched(n)), cmd[c])
            /\ main = <<>> /\ NoneExpected /\ \A f \in Feb : up[f] = <<>>
<1>1. lock = c /\ deque = <<>>
  BY DEF IInv, Mutex, OnePlace
<1>2. ring = <<>> \/ InRing(c)
  BY <1>1 DEF IInv, OnePlace, Sending, Broadcast, Posted, OnLink, NoAnswers
<1>3. InRing(c) => Len(ring) = 1 /\ ring[1].form = "good" /\ AnswersTo(ring[1], cmd[c])
  BY DEF InRing, AnswersTo
<1>. QED
  BY <1>1, <1>2, <1>3, ParseOne DEF InRing

\* Taking the only answer leaves nothing behind.
LEMMA TakeOnly ==
  ASSUME TypeOK, IInv, ~upset, NEW c \in Caller, pc[c] # "idle",
         NEW ans, NEW v, Return(c, "OK", ans, v), ans = cmd[c].id,
         main = <<>>, NoneExpected, \A f \in Feb : up[f] = <<>>,
         UNCHANGED <<main, down, up>>, ring' = <<>>, deque' = <<>>
  PROVE  IInv'
<1>1. Mutex' /\ Waiting' /\ lock' = NoOne
  BY ReturnMutex DEF IInv
<1>2. OwnAnswer' /\ CleanOutcome'
  BY ReturnClean
<1>3. OnePlace'
  BY <1>1, CallerAssumption DEF OnePlace, NoneExpected, NoAnswers, OnlyBroadcasts
<1>. QED
  BY <1>1, <1>2, <1>3 DEF IInv

LEMMA InvPollAck ==
  ASSUME TypeOK, IInv, NEW c \in Caller, PollAck(c) PROVE IInv'
<1>1. PICK n \in 0..Len(ring) :
        /\ Parses(n)
        /\ ring' \in Rests(n)
        /\ IF Retval(n) > 0 /\ Head(Fetched(n)).op = "WR"
           THEN /\ Return(c, IF Head(Fetched(n)).form = "good" THEN "OK" ELSE "BAD_PACKET",
                          Head(Fetched(n)).id, 0)
                /\ deque' = Tail(Fetched(n))
           ELSE /\ deque' = IF Retval(n) > 0 THEN Tail(Fetched(n)) ELSE Fetched(n)
                /\ PollAgain(c)
  BY DEF PollAck
<1>2. pc[c] = "ack" /\ UNCHANGED <<main, down, up>>
  BY DEF PollAck
<1>3. CASE upset
  <2>2. CASE Retval(n) > 0 /\ Head(Fetched(n)).op = "WR"
    <3>1. upset' = TRUE
      BY <1>1, <1>3, <2>2 DEF Return, TypeOK
    <3>. QED
      BY <1>1, <1>2, <2>2, <3>1, ReturnMutex, ReturnUpset DEF IInv, OnePlace
  <2>3. CASE ~(Retval(n) > 0 /\ Head(Fetched(n)).op = "WR")
    BY <1>1, <1>2, <1>3, <2>3, PollNothing
  <2>. QED
    BY <2>2, <2>3
<1>4. CASE ~upset
  <2>1. CASE Retval(n) = 0
    <3>1. ring' = ring /\ deque' = deque /\ PollAgain(c)
      BY <1>1, <1>2, <1>4, <2>1, PollSees DEF IInv, OnePlace
    <3>. QED
      BY <1>2, <3>1, PollNothing
  <2>2. CASE Retval(n) = 1
    <3>1. /\ AnswersTo(Head(Fetched(n)), cmd[c]) /\ Rests(n) = {<<>>}
          /\ Tail(Fetched(n)) = <<>> /\ main = <<>> /\ NoneExpected
          /\ \A f \in Feb : up[f] = <<>>
      BY <1>1, <1>2, <1>4, <2>2, PollSees
    <3>2. cmd[c].op = "WR"
      BY <1>2 DEF IInv, Waiting
    <3>3. /\ Head(Fetched(n)).op = "WR" /\ Head(Fetched(n)).form = "good"
          /\ Head(Fetched(n)).id = cmd[c].id
      BY <3>1, <3>2 DEF AnswersTo
    <3>4. /\ Return(c, "OK", Head(Fetched(n)).id, 0)
          /\ deque' = <<>> /\ ring' = <<>>
      <4>1. Retval(n) > 0
        BY <2>2
      <4>2. /\ Return(c, IF Head(Fetched(n)).form = "good" THEN "OK" ELSE "BAD_PACKET",
                      Head(Fetched(n)).id, 0)
            /\ deque' = Tail(Fetched(n))
        BY <1>1, <3>3, <4>1
      <4>. QED
        BY <1>1, <3>1, <3>3, <4>2
    <3>. QED
      BY <1>2, <1>4, <3>1, <3>3, <3>4, TakeOnly
  <2>. QED
    BY <1>1, <1>2, <1>4, <2>1, <2>2, PollSees
<1>. QED
  BY <1>3, <1>4

LEMMA InvPollReply ==
  ASSUME TypeOK, IInv, NEW c \in Caller, PollReply(c) PROVE IInv'
<1>1. PICK n \in 0..Len(ring) :
        /\ Parses(n)
        /\ \/ /\ Retval(n) = 0
              /\ PollAgain(c)
              /\ UNCHANGED <<deque, ring, up, cut>>
           \/ /\ Retval(n) < 0
              /\ Return(c, "BAD_PACKET", 0, 0)
              /\ deque' = Fetched(n)
              /\ ResetSecondary
           \/ /\ Retval(n) > 0
              /\ deque' = Tail(Fetched(n))
              /\ TakeReply(c, Head(Fetched(n)), Drop(ring, n))
  BY DEF PollReply
<1>2. pc[c] = "reply" /\ UNCHANGED <<main, down>>
  BY DEF PollReply
<1>3. CASE PollAgain(c) /\ UNCHANGED <<deque, ring, up, cut>>
  BY <1>2, <1>3, PollNothing
<1>4. CASE upset /\ \E code, ans, v : Return(c, code, ans, v)
  <2>1. PICK code, ans, v : Return(c, code, ans, v)
    BY <1>4
  <2>2. upset' = TRUE
    BY <1>4, <2>1 DEF Return, TypeOK
  <2>3. OwnAnswer' /\ CleanOutcome'
    BY <2>1, <2>2, ReturnUpset
  <2>4. Mutex' /\ Waiting'
    BY <1>2, <2>1, ReturnMutex DEF IInv
  <2>. QED
    BY <2>2, <2>3, <2>4 DEF IInv, OnePlace
<1>5. CASE /\ ~upset /\ Retval(n) > 0 /\ deque' = Tail(Fetched(n))
           /\ TakeReply(c, Head(Fetched(n)), Drop(ring, n))
  <2>1. /\ AnswersTo(Head(Fetched(n)), cmd[c]) /\ Drop(ring, n) = <<>>
        /\ Tail(Fetched(n)) = <<>> /\ main = <<>> /\ NoneExpected
        /\ \A f \in Feb : up[f] = <<>>
    <3>1. Drop(ring, n) \in Rests(n)
      BY DEF Rests
    <3>. QED
      BY <1>1, <1>2, <1>5, <3>1, PollSees
  <2>2. cmd[c].op = "RD"
    BY <1>2 DEF IInv, Waiting
  <2>3. /\ Head(Fetched(n)).op = "RD" /\ Head(Fetched(n)).form = "good"
        /\ Head(Fetched(n)).len = cmd[c].len /\ Head(Fetched(n)).id = cmd[c].id
    BY <2>1, <2>2 DEF AnswersTo
  <2>4. /\ Return(c, "OK", Head(Fetched(n)).id, Head(Fetched(n)).val)
        /\ ring' = <<>> /\ UNCHANGED up
    BY <1>5, <2>1, <2>3 DEF TakeReply
  <2>. QED
    BY <1>2, <1>5, <2>1, <2>3, <2>4, TakeOnly
<1>6. CASE ~upset /\ Retval(n) < 0
  BY <1>1, <1>2, <1>6, PollSees
<1>7. TakeReply(c, Head(Fetched(n)), Drop(ring, n)) =>
        \E code, ans, v : Return(c, code, ans, v)
  BY DEF TakeReply
<1>. QED
  BY <1>1, <1>3, <1>4, <1>5, <1>6, <1>7

\* The command reaches its board, or every board in the case of a broadcast.
LEMMA InvSend ==
  ASSUME TypeOK, IInv, Send PROVE IInv'
<1>1. /\ main # <<>> /\ main' = <<>>
      /\ down' = [f \in Feb |-> IF f \in Target(main[1])
                                THEN Append(down[f], main[1]) ELSE down[f]]
      /\ UNCHANGED <<lock, pc, cmd, last, deque, up, ring, upset>>
  BY DEF Send, software
<1>2. Mutex' /\ Waiting' /\ OwnAnswer' /\ CleanOutcome'
  BY <1>1 DEF IInv, Mutex, Waiting, OwnAnswer, CleanOutcome
<1>3. ASSUME ~upset, NEW c \in Caller, lock = c
      PROVE  Broadcast(c)' \/ Posted(c)'
  <2>1. main = <<cmd[c]>> /\ NoneExpected /\ NoAnswers
    BY <1>1, <1>3 DEF IInv, OnePlace, Sending, Broadcast, Posted, OnLink, InRing
  <2>2. main[1] = cmd[c] /\ NoAnswers' /\ cmd[c] \in Command
    BY <1>1, <2>1 DEF NoAnswers, TypeOK
  <2>3. \A f \in Feb : down[f] \in Seq(Command) /\ OnlyBroadcasts(down[f])
    BY <2>1 DEF NoneExpected, TypeOK
  <2>4. CASE cmd[c].op = "BC"
    <3>1. NoneExpected'
      BY <1>1, <2>2, <2>3, <2>4 DEF NoneExpected, OnlyBroadcasts
    <3>. QED
      BY <1>1, <2>2, <2>4, <3>1 DEF Broadcast
  <2>5. CASE cmd[c].op # "BC"
    <3>1. /\ cmd[c].feb \in Feb
          /\ down'[cmd[c].feb] = Append(down[cmd[c].feb], cmd[c])
          /\ \A f \in Feb \ {cmd[c].feb} : down'[f] = down[f]
      BY <1>1, <2>2, <2>5 DEF Target, Command
    <3>. DEFINE q == down[cmd[c].feb]
                r == Append(q, cmd[c])
    <3>2. /\ r # <<>> /\ r[Len(r)] = cmd[c]
          /\ \A i \in 1..Len(r)-1 : r[i].op = "BC"
      BY <2>2, <2>3, <3>1 DEF OnlyBroadcasts
    <3>3. cmd'[c] = cmd[c] /\ main' = <<>>
      BY <1>1
    <3>. QED
      BY <2>2, <2>3, <2>5, <3>1, <3>2, <3>3 DEF Posted
  <2>. QED
    BY <2>4, <2>5
<1>4. OnePlace'
  BY <1>1, <1>3 DEF IInv, OnePlace
<1>. QED
  BY <1>2, <1>4 DEF IInv

\* What a queue of commands loses its first element keeps.
LEMMA TailOfBroadcasts ==
  ASSUME NEW q \in Seq(Command), q # <<>>
  PROVE  /\ Tail(q) \in Seq(Command) /\ Len(Tail(q)) = Len(q) - 1
         /\ \A i \in 1..Len(Tail(q)) : Tail(q)[i] = q[i+1]
         /\ OnlyBroadcasts(q) => OnlyBroadcasts(Tail(q)) /\ Head(q).op = "BC"
         /\ Len(q) = 1 => Tail(q) = <<>>
         /\ Len(q) > 1 => Tail(q) # <<>>
         /\ Len(q) > 1 \/ Len(q) = 1
<1>1. /\ Tail(q) \in Seq(Command) /\ Len(Tail(q)) = Len(q) - 1
      /\ \A i \in 1..Len(Tail(q)) : Tail(q)[i] = q[i+1]
  BY HeadTailProperties
<1>2. Len(q) \in Nat \ {0} /\ Head(q) = q[1]
  BY EmptySeq
<1>3. OnlyBroadcasts(q) => OnlyBroadcasts(Tail(q)) /\ Head(q).op = "BC"
  BY <1>1, <1>2 DEF OnlyBroadcasts
<1>4. Len(q) = 1 => Tail(q) = <<>>
  BY SingleEntry
<1>5. Len(q) > 1 => Tail(q) # <<>>
  <2>. DEFINE m == Len(q)
              n == Len(Tail(q))
  <2>1. m \in Nat /\ n = m - 1
    BY <1>1, <1>2
  <2>3. Tail(q) = <<>> => n = 0
    BY <1>1, EmptySeq
  <2>. HIDE DEF m, n
  <2>2. m > 1 => n # 0
    BY <2>1
  <2>. QED
    BY <2>2, <2>3 DEF m
<1>6. Len(q) > 1 \/ Len(q) = 1
  <2>. DEFINE n == Len(q)
  <2>1. n \in Nat /\ n # 0
    BY <1>2
  <2>. HIDE DEF n
  <2>2. n > 1 \/ n = 1
    BY <2>1
  <2>. QED
    BY <2>2 DEF n
<1>. QED
  BY <1>1, <1>3, <1>4, <1>5, <1>6

\* A board that executes a broadcast does not answer; one that executes the
\* command of the open call is the only one to answer.
LEMMA InvExecute ==
  ASSUME TypeOK, IInv, NEW f \in Feb, Execute(f) PROVE IInv'
<1>. DEFINE q == down[f]
            x == Head(q)
            v == IF x.op = "RD" THEN reg[f] ELSE x.id
            a == Answer(x, IF x.op = "RD" THEN v ELSE 0)
<1>1. /\ q # <<>> /\ down' = [down EXCEPT ![f] = Tail(q)]
      /\ up' = IF x.op = "BC" THEN up ELSE [up EXCEPT ![f] = Append(up[f], a)]
      /\ UNCHANGED <<lock, pc, cmd, last, deque, main, ring, upset>>
  BY DEF Execute, software
<1>2. Mutex' /\ Waiting' /\ OwnAnswer' /\ CleanOutcome'
  BY <1>1 DEF IInv, Mutex, Waiting, OwnAnswer, CleanOutcome
<1>3. /\ q \in Seq(Command) /\ x = q[1] /\ Len(q) \in Nat \ {0}
      /\ down'[f] = Tail(q) /\ \A g \in Feb \ {f} : down'[g] = down[g]
  BY <1>1, EmptySeq DEF TypeOK
<1>4. NoneExpected => x.op = "BC" /\ UNCHANGED up /\ NoneExpected'
  BY <1>1, <1>3, TailOfBroadcasts DEF NoneExpected
<1>5. ASSUME ~upset, NEW c \in Caller, lock = c, Posted(c)
      PROVE  Posted(c)' \/ OnLink(c)'
  <2>1. /\ cmd[c] \in Command /\ cmd[c].feb \in Feb
    BY DEF TypeOK, Command
  <2>2. CASE f # cmd[c].feb
    <3>1. OnlyBroadcasts(q) /\ x.op = "BC"
      BY <1>1, <1>3, <1>5, <2>2, TailOfBroadcasts DEF Posted
    <3>2. OnlyBroadcasts(Tail(q)) /\ UNCHANGED up
      BY <1>1, <1>3, <3>1, TailOfBroadcasts
    <3>. QED
      BY <1>1, <1>3, <1>5, <2>1, <2>2, <3>2 DEF Posted, NoAnswers
  <2>3. CASE f = cmd[c].feb /\ Len(q) > 1
    <3>1. x.op = "BC" /\ UNCHANGED up
      BY <1>1, <1>3, <1>5, <2>3 DEF Posted
    <3>0. /\ Len(Tail(q)) = Len(q) - 1
          /\ \A i \in 1..Len(Tail(q)) : Tail(q)[i] = q[i+1]
      BY <1>1, <1>3, TailOfBroadcasts
    <3>2. /\ Tail(q) # <<>> /\ Tail(q)[Len(Tail(q))] = q[Len(q)]
          /\ \A i \in 1..Len(Tail(q))-1 : Tail(q)[i].op = "BC"
      <4>1. Len(q) - 1 \in 1..Len(Tail(q))
        BY <1>3, <2>3, <3>0
      <4>2. Tail(q)[Len(Tail(q))] = q[Len(q)]
        BY <1>3, <3>0, <4>1
      <4>3. ASSUME NEW i \in 1..Len(Tail(q))-1 PROVE Tail(q)[i].op = "BC"
        <5>1. i \in 1..Len(Tail(q)) /\ i + 1 \in 1..Len(q)-1
          BY <1>3, <3>0
        <5>. QED
          BY <1>5, <2>3, <3>0, <5>1 DEF Posted
      <4>4. Tail(q) # <<>>
        BY <1>1, <1>3, <2>3, TailOfBroadcasts
      <4>. QED
        BY <4>2, <4>3, <4>4
    <3>3. /\ cmd' = cmd /\ down'[cmd[c].feb] = Tail(q) /\ q[Len(q)] = cmd[c]
          /\ \A g \in Feb \ {cmd[c].feb} : down'[g] = down[g]
      BY <1>1, <1>3, <1>5, <2>3 DEF Posted
    <3>4. (main = <<>>)' /\ (cmd[c].op # "BC")' /\ NoAnswers'
      BY <1>1, <1>5, <3>1 DEF Posted, NoAnswers
    <3>5. \A g \in Feb \ {cmd[c].feb} : OnlyBroadcasts(down'[g])
      BY <1>5, <3>3 DEF Posted
    <3>. HIDE DEF q, x, v, a
    <3>. QED
      BY <3>2, <3>3, <3>4, <3>5 DEF Posted
  <2>4. CASE f = cmd[c].feb /\ Len(q) = 1
    <3>1. x = cmd[c] /\ Tail(q) = <<>> /\ x.op # "BC" /\ up[f] = <<>>
      BY <1>1, <1>3, <1>5, <2>4, TailOfBroadcasts DEF Posted, NoAnswers
    <3>2. up'[f] = <<a>> /\ \A g \in Feb \ {f} : up'[g] = <<>>
      BY <1>1, <1>5, <3>1 DEF Posted, NoAnswers, TypeOK
    <3>3. AnswersTo(a, cmd[c])
      BY <3>1 DEF Answer, AnswersTo
    <3>4. NoneExpected'
      <4>1. OnlyBroadcasts(<<>>)
        BY DEF OnlyBroadcasts
      <4>2. \A g \in Feb \ {f} : OnlyBroadcasts(down[g])
        BY <1>5, <2>4 DEF Posted
      <4>. QED
        BY <1>3, <3>1, <4>1, <4>2 DEF NoneExpected
    <3>5. UNCHANGED <<main, ring, cmd>> /\ main = <<>> /\ ring = <<>>
      BY <1>1, <1>5 DEF Posted, NoAnswers
    <3>6. Len(up'[f]) = 1 /\ up'[f][1] = a
      BY <3>2
    <3>. QED
      BY <2>4, <3>1, <3>2, <3>3, <3>4, <3>5, <3>6 DEF OnLink
  <2>5. Len(q) > 1 \/ Len(q) = 1
    BY <1>1, <1>3, TailOfBroadcasts
  <2>. QED
    BY <2>2, <2>3, <2>4, <2>5
<1>6. OnePlace'
  <2>. SUFFICES ASSUME ~upset' PROVE OnePlace'
    BY DEF OnePlace
  <2>1. ~upset /\ (deque = <<>>)' /\ UNCHANGED <<lock, main, ring, cmd>>
    BY <1>1 DEF IInv, OnePlace
  <2>2. (lock = NoOne => main = <<>> /\ NoneExpected /\ NoAnswers)'
    BY <1>1, <1>4, <2>1 DEF IInv, OnePlace, NoAnswers
  <2>3. ASSUME NEW c \in Caller, lock = c
        PROVE  (Sending(c) \/ Broadcast(c) \/ Posted(c) \/ OnLink(c) \/ InRing(c))'
    <3>1. CASE Posted(c)
      BY <1>5, <2>1, <2>3, <3>1
    <3>2. CASE ~Posted(c)
      <4>1. NoneExpected /\ (Sending(c) \/ Broadcast(c) \/ OnLink(c) \/ InRing(c))
        BY <2>1, <2>3, <3>2 DEF IInv, OnePlace, Sending, Broadcast, OnLink, InRing
      <4>. QED
        BY <1>1, <1>4, <2>1, <4>1 DEF Sending, Broadcast, OnLink, InRing, NoAnswers
    <3>. QED
      BY <3>1, <3>2
  <2>. QED
    BY <2>1, <2>2, <2>3 DEF OnePlace
<1>. QED
  BY <1>2, <1>6 DEF IInv

LEMMA InvReceive ==
  ASSUME TypeOK, IInv, NEW f \in Feb, Receive(f) PROVE IInv'
<1>1. /\ up[f] # <<>> /\ ring' = Append(ring, Head(up[f]))
      /\ up' = [up EXCEPT ![f] = Tail(@)]
      /\ UNCHANGED <<lock, pc, cmd, last, deque, main, down, upset>>
  BY DEF Receive, software
<1>2. Mutex' /\ Waiting' /\ OwnAnswer' /\ CleanOutcome'
  BY <1>1 DEF IInv, Mutex, Waiting, OwnAnswer, CleanOutcome
<1>3. ~NoAnswers /\ ~(\A g \in Feb : up[g] = <<>>)
  BY <1>1 DEF NoAnswers
<1>4. ASSUME ~upset, NEW c \in Caller, lock = c PROVE InRing(c)'
  <2>1. OnLink(c)
    BY <1>3, <1>4 DEF IInv, OnePlace, Sending, Broadcast, Posted, InRing
  <2>2. f = cmd[c].feb /\ up[f] \in Seq(Packet) /\ Len(up[f]) = 1
    BY <1>1, <2>1 DEF OnLink, TypeOK
  <2>3. Head(up[f]) = up[f][1] /\ Tail(up[f]) = <<>>
    BY <2>2, SingleEntry
  <2>4. ring' = <<up[f][1]>> /\ \A g \in Feb : up'[g] = <<>>
    BY <1>1, <2>1, <2>2, <2>3 DEF OnLink, TypeOK
  <2>5. Len(ring') = 1 /\ ring'[1] = up[f][1]
    BY <2>4
  <2>6. NoneExpected' /\ UNCHANGED <<main, cmd>>
    BY <1>1, <2>1 DEF OnLink, NoneExpected, OnlyBroadcasts
  <2>. QED
    BY <2>1, <2>2, <2>4, <2>5, <2>6 DEF OnLink, InRing
<1>5. OnePlace'
  BY <1>1, <1>3, <1>4 DEF IInv, OnePlace
<1>. QED
  BY <1>2, <1>5 DEF IInv

\* After a fault the promise is void.
LEMMA InvFault ==
  ASSUME TypeOK, IInv,
         Restart \/ \E f \in Feb : LoseDown(f) \/ LoseUp(f) \/ Damage(f)
  PROVE  IInv'
<1>1. upset' = TRUE
  BY DEF Restart, LoseDown, LoseUp, Damage, Fault
<1>2. Mutex' /\ Waiting'
  <2>1. CASE Restart
    BY <2>1, CallerAssumption DEF Restart, Mutex, Waiting
  <2>2. CASE ~Restart
    <3>1. UNCHANGED <<lock, pc, cmd, main>>
      BY <2>2 DEF LoseDown, LoseUp, Damage, software
    <3>. QED
      BY <3>1 DEF IInv, Mutex, Waiting
  <2>. QED
    BY <2>1, <2>2
<1>3. OwnAnswer' /\ CleanOutcome'
  <2>1. UNCHANGED last \/ last' = [c \in Caller |-> Nothing]
    BY DEF Restart, LoseDown, LoseUp, Damage, software
  <2>. QED
    BY <2>1 DEF IInv, OwnAnswer, CleanOutcome, Nothing
<1>. QED
  BY <1>1, <1>2, <1>3 DEF IInv, OnePlace

LEMMA InvNext == TypeOK /\ IInv /\ [Next]_vars => IInv'
<1>. SUFFICES ASSUME TypeOK, IInv, [Next]_vars PROVE IInv'
  OBVIOUS
<1>1. CASE UNCHANGED vars
  BY <1>1 DEF vars, IInv, Mutex, Waiting, OnePlace, OwnAnswer, CleanOutcome, NoneExpected,
     NoAnswers, OnlyBroadcasts, Sending, Broadcast, Posted, OnLink, InRing
<1>. QED
  BY <1>1, InvStart, InvBusy, InvPollDone, InvPollAck, InvPollReply, InvSend, InvExecute,
     InvReceive, InvFault DEF Next, Poll

\* From a quiet moment to the next fault or timeout, the one command that expects
\* an answer is in exactly one place between FEB_write and sc_packet_deque.
THEOREM Invariance == Spec => []IInv
<1>1. TypeOK /\ IInv /\ [Next]_vars => IInv'
  BY InvNext
<1>. QED
  BY <1>1, InvInit, TypeCorrect, PTL DEF Spec

\* A call that starts in a quiet moment, meets no fault and returns OK consumed
\* the answer to its own command: FEB_write and FEB_read compare no id or address.
THEOREM OwnAnswerHolds == Spec => []OwnAnswer
<1>1. IInv => OwnAnswer
  BY DEF IInv
<1>. QED
  BY <1>1, Invariance, PTL

\* After a quiet moment, no call fails with FPGA_BUSY, BAD_PACKET or WRONG_SIZE
\* before there was a fault or a timeout.
THEOREM CleanOutcomeHolds == Spec => []CleanOutcome
<1>1. IInv => CleanOutcome
  BY DEF IInv
<1>. QED
  BY <1>1, Invariance, PTL

-----------------------------------------------------------------------------
(***************************************************************************)
(* No answer is in two places. A command that is to be answered carries    *)
(* the id of its answer, and Damage leaves the id alone, so it is enough   *)
(* to follow the ids of such commands and of answers through the queues.   *)
(***************************************************************************)
Ids(s) == {s[i].id : i \in {j \in 1..Len(s) : s[j].op # "BC"}}
Once(s) == \A i, j \in 1..Len(s) :
             s[i].op # "BC" /\ s[j].op # "BC" /\ s[i].id = s[j].id => i = j

LEMMA IdsEmpty == Ids(<<>>) = {} /\ Once(<<>>)
  BY DEF Ids, Once

\* A queue that shows a part of another one, in whatever order.
LEMMA IdsPart ==
  ASSUME NEW S, NEW T, NEW s \in Seq(S), NEW t \in Seq(T), NEW k \in Int,
         \A i \in 1..Len(t) : i + k \in 1..Len(s) /\ t[i] = s[i + k]
  PROVE  Ids(t) \subseteq Ids(s) /\ (Once(s) => Once(t))
<1>1. Ids(t) \subseteq Ids(s)
  BY DEF Ids
<1>2. ASSUME Once(s) PROVE Once(t)
  <2>. SUFFICES ASSUME NEW i \in 1..Len(t), NEW j \in 1..Len(t),
                       t[i].op # "BC", t[j].op # "BC", t[i].id = t[j].id
                PROVE  i = j
    BY DEF Once
  <2>1. i + k = j + k
    BY <1>2, ZenonT(30) DEF Once
  <2>. QED
    BY <2>1
<1>. QED
  BY <1>1, <1>2

LEMMA IdsSub ==
  ASSUME NEW S, NEW s \in Seq(S), NEW a \in 1..Len(s)+1, NEW b \in 0..Len(s)
  PROVE  /\ SubSeq(s, a, b) \in Seq(S) /\ Ids(SubSeq(s, a, b)) \subseteq Ids(s)
         /\ Once(s) => Once(SubSeq(s, a, b))
<1>1. /\ SubSeq(s, a, b) \in Seq(S)
      /\ Len(SubSeq(s, a, b)) = IF a <= b THEN b - a + 1 ELSE 0
      /\ \A i \in 1..b-a+1 : SubSeq(s, a, b)[i] = s[a + i - 1]
  BY SubSeqProperties
<1>2. a - 1 \in Int
  OBVIOUS
<1>3. \A i \in 1..Len(SubSeq(s, a, b)) :
        i + (a - 1) \in 1..Len(s) /\ SubSeq(s, a, b)[i] = s[i + (a - 1)]
  BY <1>1
<1>. QED
  BY <1>1, <1>2, <1>3, IdsPart

LEMMA IdsTail ==
  ASSUME NEW S, NEW s \in Seq(S), s # <<>>
  PROVE  /\ Tail(s) \in Seq(S) /\ Ids(Tail(s)) \subseteq Ids(s)
         /\ Once(s) => Once(Tail(s))
         /\ Head(s).op # "BC" => Head(s).id \in Ids(s)
         /\ Once(s) /\ Head(s).op # "BC" => Head(s).id \notin Ids(Tail(s))
<1>1. /\ Tail(s) \in Seq(S) /\ Len(Tail(s)) = Len(s) - 1
      /\ \A i \in 1..Len(s)-1 : Tail(s)[i] = s[i+1]
  BY HeadTailProperties
<1>2. Len(s) \in Nat \ {0} /\ Head(s) = s[1]
  BY EmptySeq
<1>3. Ids(Tail(s)) \subseteq Ids(s) /\ (Once(s) => Once(Tail(s)))
  <2>1. \A i \in 1..Len(Tail(s)) : i + 1 \in 1..Len(s) /\ Tail(s)[i] = s[i + 1]
    BY <1>1, <1>2
  <2>2. 1 \in Int /\ Tail(s) \in Seq(S)
    BY <1>1
  <2>. QED
    BY <2>1, <2>2, IdsPart
<1>4. Head(s).op # "BC" => Head(s).id \in Ids(s)
  BY <1>2 DEF Ids
<1>5. ASSUME Once(s), Head(s).op # "BC", Head(s).id \in Ids(Tail(s)) PROVE FALSE
  <2>1. PICK i \in 1..Len(s)-1 : Tail(s)[i].op # "BC" /\ Tail(s)[i].id = Head(s).id
    BY <1>1, <1>5 DEF Ids
  <2>2. i + 1 \in 1..Len(s) /\ 1 \in 1..Len(s) /\ s[i+1].op # "BC" /\ s[i+1].id = s[1].id /\ i + 1 # 1
    BY <1>1, <1>2, <2>1
  <2>. QED
    BY <1>2, <1>5, <2>2 DEF Once
<1>. QED
  BY <1>1, <1>3, <1>4, <1>5

LEMMA IdsConcat ==
  ASSUME NEW S, NEW s \in Seq(S), NEW t \in Seq(S)
  PROVE  /\ s \o t \in Seq(S) /\ Ids(s \o t) \subseteq Ids(s) \cup Ids(t)
         /\ Once(s) /\ Once(t) /\ Ids(s) \cap Ids(t) = {} => Once(s \o t)
<1>. DEFINE m == Len(s)
            n == Len(t)
<1>1. /\ s \o t \in Seq(S) /\ Len(s \o t) = m + n /\ m \in Nat /\ n \in Nat
      /\ \A i \in 1..m+n : (s \o t)[i] = IF i <= m THEN s[i] ELSE t[i - m]
  BY ConcatProperties
<1>2. \A i \in 1..m+n : \/ i \in 1..m /\ (s \o t)[i] = s[i]
                        \/ i - m \in 1..n /\ (s \o t)[i] = t[i - m]
  BY <1>1
<1>3. \A i \in 1..m : s[i].op # "BC" => s[i].id \in Ids(s)
  BY DEF Ids
<1>4. \A i \in 1..n : t[i].op # "BC" => t[i].id \in Ids(t)
  BY DEF Ids
<1>5. Ids(s \o t) \subseteq Ids(s) \cup Ids(t)
  <2>1. Ids(s \o t) = {(s \o t)[i].id : i \in {j \in 1..m+n : (s \o t)[j].op # "BC"}}
    BY <1>1 DEF Ids
  <2>. HIDE DEF m, n
  <2>. QED
    BY <1>2, <1>3, <1>4, <2>1, ZenonT(30)
<1>6. ASSUME Once(s), Once(t), Ids(s) \cap Ids(t) = {} PROVE Once(s \o t)
  <2>. SUFFICES ASSUME NEW i \in 1..m+n, NEW j \in 1..m+n, (s \o t)[i].op # "BC",
                       (s \o t)[j].op # "BC", (s \o t)[i].id = (s \o t)[j].id
                PROVE  i = j
    BY <1>1 DEF Once
  <2>1. \A a, b \in 1..m : s[a].op # "BC" /\ s[b].op # "BC" /\ s[a].id = s[b].id => a = b
    BY <1>6 DEF Once
  <2>2. \A a, b \in 1..n : t[a].op # "BC" /\ t[b].op # "BC" /\ t[a].id = t[b].id => a = b
    BY <1>6 DEF Once
  <2>3. m \in Nat /\ n \in Nat
    BY <1>1
  <2>. HIDE DEF m, n
  <2>4. CASE i \in 1..m /\ (s \o t)[i] = s[i] /\ j \in 1..m /\ (s \o t)[j] = s[j]
    BY <2>1, <2>4
  <2>5. CASE i - m \in 1..n /\ (s \o t)[i] = t[i - m] /\ j - m \in 1..n /\ (s \o t)[j] = t[j - m]
    <3>1. i - m = j - m
      BY <2>2, <2>5
    <3>. QED
      BY <2>3, <3>1
  <2>. QED
    BY <1>2, <1>3, <1>4, <1>6, <2>4, <2>5
<1>. QED
  BY <1>1, <1>5, <1>6

LEMMA IdsAppend ==
  ASSUME NEW S, NEW s \in Seq(S), NEW x \in S
  PROVE  /\ Append(s, x) \in Seq(S)
         /\ Ids(Append(s, x)) \subseteq Ids(s) \cup (IF x.op # "BC" THEN {x.id} ELSE {})
         /\ Once(s) /\ (x.op # "BC" => x.id \notin Ids(s)) => Once(Append(s, x))
<1>1. <<x>> \in Seq(S) /\ Len(<<x>>) = 1 /\ <<x>>[1] = x /\ Append(s, x) = s \o <<x>>
  BY AppendIsConcat
<1>2. Ids(<<x>>) = (IF x.op # "BC" THEN {x.id} ELSE {}) /\ Once(<<x>>)
  BY <1>1 DEF Ids, Once
<1>. DEFINE t == <<x>>
<1>3. t \in Seq(S) /\ Append(s, x) = s \o t
  BY <1>1
<1>4. Ids(t) = (IF x.op # "BC" THEN {x.id} ELSE {}) /\ Once(t)
  BY <1>2
<1>. HIDE DEF t
<1>5. /\ s \o t \in Seq(S) /\ Ids(s \o t) \subseteq Ids(s) \cup Ids(t)
      /\ Once(s) /\ Once(t) /\ Ids(s) \cap Ids(t) = {} => Once(s \o t)
  BY <1>3, IdsConcat
<1>6. (x.op # "BC" => x.id \notin Ids(s)) => Ids(s) \cap Ids(t) = {}
  BY <1>4
<1>. QED
  BY <1>3, <1>4, <1>5, <1>6

\* What is fetched from the ring is no longer in it.
LEMMA IdsSplit ==
  ASSUME NEW S, NEW s \in Seq(S), Once(s), NEW n \in 0..Len(s), NEW k \in n..Len(s)
  PROVE  Ids(SubSeq(s, 1, n)) \cap Ids(Drop(s, k)) = {}
<1>1. /\ SubSeq(s, 1, n) \in Seq(S) /\ Len(SubSeq(s, 1, n)) = n
      /\ \A i \in 1..n : SubSeq(s, 1, n)[i] = s[i]
  BY SubSeqProperties
<1>2. /\ Drop(s, k) \in Seq(S) /\ Len(Drop(s, k)) = Len(s) - k
      /\ \A i \in 1..Len(s)-k : Drop(s, k)[i] = s[i + k] /\ i + k \in 1..Len(s)
  <2>1. k + 1 \in 1..Len(s)+1 /\ Len(s) \in 0..Len(s)
    OBVIOUS
  <2>. QED
    BY <2>1, SubSeqProperties DEF Drop
<1>3. SUFFICES ASSUME NEW x, x \in Ids(SubSeq(s, 1, n)), x \in Ids(Drop(s, k)) PROVE FALSE
  OBVIOUS
<1>4. PICK i \in 1..n : s[i].op # "BC" /\ s[i].id = x
  BY <1>1, <1>3 DEF Ids
<1>5. PICK j \in 1..Len(s)-k : s[j + k].op # "BC" /\ s[j + k].id = x
  BY <1>2, <1>3 DEF Ids
<1>6. i \in 1..Len(s) /\ j + k \in 1..Len(s) /\ i # j + k
  BY <1>2
<1>. QED
  BY <1>4, <1>5, <1>6 DEF Once

-----------------------------------------------------------------------------
(* Where an id may be: with SC main, on its way down, up, in the ring, in the *)
(* deque, or with the call that took it.                                     *)
OnAny(q) == UNION {Ids(q[f]) : f \in Feb}
Taken == {last[c].answer : c \in Caller} \ {0}

Apart(a, b, c, d, e, t) ==
  /\ a \cap (b \cup c \cup d \cup e \cup t) = {}
  /\ b \cap (c \cup d \cup e \cup t) = {}
  /\ c \cap (d \cup e \cup t) = {}
  /\ d \cap (e \cup t) = {}
  /\ e \cap t = {}

\* Links and calls do not share ids either.
LinksApart(q) ==
  /\ \A f \in Feb : Once(q[f])
  /\ \A f, g \in Feb : f # g => Ids(q[f]) \cap Ids(q[g]) = {}
CallsApart ==
  \A c, d \in Caller : last[c].answer = last[d].answer /\ last[c].answer # 0 => c = d

Places == Apart(Ids(main), OnAny(down), OnAny(up), Ids(ring), Ids(deque), Taken)
Started == Ids(main) \cup OnAny(down) \cup OnAny(up) \cup Ids(ring) \cup Ids(deque) \cup Taken \subseteq 1..serial

OneHome ==
  /\ Once(ring) /\ Once(deque) /\ LinksApart(down) /\ LinksApart(up) /\ CallsApart
  /\ Places /\ Started

\* Answers to be, and answers, are only moved or dropped.
LEMMA ApartLess ==
  ASSUME NEW a, NEW b, NEW c, NEW d, NEW e, NEW t, Apart(a, b, c, d, e, t),
         NEW a2 \in SUBSET a, NEW b2 \in SUBSET b, NEW c2 \in SUBSET c,
         NEW d2 \in SUBSET d, NEW e2 \in SUBSET e, NEW t2 \in SUBSET t
  PROVE  Apart(a2, b2, c2, d2, e2, t2)
  BY DEF Apart

LEMMA ApartMove ==
  ASSUME NEW a, NEW b, NEW c, NEW d, NEW e, NEW t, Apart(a, b, c, d, e, t), NEW x
  PROVE  /\ x \in a => \A b2 : b2 \subseteq b \cup {x} => Apart({}, b2, c, d, e, t)
         /\ x \in b => \A b2, c2 : x \notin b2 /\ b2 \subseteq b /\ c2 \subseteq c \cup {x}
                          => Apart(a, b2, c2, d, e, t)
         /\ x \in c => \A c2, d2 : x \notin c2 /\ c2 \subseteq c /\ d2 \subseteq d \cup {x}
                          => Apart(a, b, c2, d2, e, t)
  BY DEF Apart

\* A link that loses ids, the others as they were.
LEMMA LinksLess ==
  ASSUME NEW q, NEW r, LinksApart(q),
         \A f \in Feb : Ids(r[f]) \subseteq Ids(q[f]) /\ (Once(q[f]) => Once(r[f]))
  PROVE  /\ LinksApart(r)
         /\ OnAny(r) \subseteq OnAny(q)
<1>1. LinksApart(r)
  BY DEF LinksApart
<1>. QED
  BY <1>1 DEF OnAny

\* The first entry of one link is taken away: its id is on no link any more.
LEMMA LinksTake ==
  ASSUME NEW S, NEW q \in [Feb -> Seq(S)], LinksApart(q), NEW f \in Feb, q[f] # <<>>
  PROVE  LET r == [q EXCEPT ![f] = Tail(q[f])] IN
         /\ LinksApart(r)
         /\ OnAny(r) \subseteq OnAny(q)
         /\ Head(q[f]).op # "BC" =>
              /\ Head(q[f]).id \in OnAny(q)
              /\ Head(q[f]).id \notin OnAny(r)
<1>. DEFINE r == [q EXCEPT ![f] = Tail(q[f])]
<1>1. /\ Tail(q[f]) \in Seq(S) /\ Ids(Tail(q[f])) \subseteq Ids(q[f]) /\ Once(Tail(q[f]))
      /\ Head(q[f]).op # "BC" => /\ Head(q[f]).id \in Ids(q[f])
                                 /\ Head(q[f]).id \notin Ids(Tail(q[f]))
  BY IdsTail DEF LinksApart
<1>2. \A g \in Feb : r[g] = IF g = f THEN Tail(q[f]) ELSE q[g]
  OBVIOUS
<1>. HIDE DEF r
<1>3. \A g \in Feb : Ids(r[g]) \subseteq Ids(q[g]) /\ (Once(q[g]) => Once(r[g]))
  BY <1>1, <1>2
<1>4. /\ LinksApart(r)
      /\ OnAny(r) \subseteq OnAny(q)
  BY <1>3, LinksLess
<1>5. ASSUME Head(q[f]).op # "BC"
      PROVE  /\ Head(q[f]).id \in OnAny(q)
             /\ \A g \in Feb : Head(q[f]).id \notin Ids(r[g])
  BY <1>1, <1>2, <1>5 DEF LinksApart, OnAny
<1>. QED
  BY <1>4, <1>5 DEF r, OnAny

\* A new id at the end of one link.
LEMMA LinksPut ==
  ASSUME NEW S, NEW q \in [Feb -> Seq(S)], LinksApart(q), NEW f \in Feb, NEW x \in S,
         x.op # "BC", x.id \notin OnAny(q)
  PROVE  LET r == [q EXCEPT ![f] = Append(q[f], x)] IN
         /\ LinksApart(r)
         /\ OnAny(r) \subseteq OnAny(q) \cup {x.id}
<1>. DEFINE r == [q EXCEPT ![f] = Append(q[f], x)]
<1>1. \A g \in Feb : x.id \notin Ids(q[g])
  BY DEF OnAny
<1>2. Ids(Append(q[f], x)) \subseteq Ids(q[f]) \cup {x.id} /\ Once(Append(q[f], x))
  BY <1>1, IdsAppend DEF LinksApart
<1>3. \A g \in Feb : r[g] = IF g = f THEN Append(q[f], x) ELSE q[g]
  OBVIOUS
<1>. HIDE DEF r
<1>4. LinksApart(r)
  BY <1>1, <1>2, <1>3, SMTT(30) DEF LinksApart
<1>. QED
  BY <1>2, <1>3, <1>4 DEF r, OnAny


\* A reset of SC secondary, and whatever else leaves ends of the links.
LEMMA HomeReset ==
  ASSUME TypeOK, LinksApart(up), ResetSecondary
  PROVE  LinksApart(up') /\ OnAny(up') \subseteq OnAny(up) /\ Ids(ring') = {} /\ Once(ring')
<1>1. PICK k \in [Feb -> 0..MaxCalls] :
        /\ \A f \in Feb : k[f] <= Len(up[f])
        /\ up' = [f \in Feb |-> Drop(up[f], k[f])]
  BY DEF ResetSecondary
<1>2. \A f \in Feb : Ids(up'[f]) \subseteq Ids(up[f]) /\ (Once(up[f]) => Once(up'[f]))
  <2>. SUFFICES ASSUME NEW f \in Feb
       PROVE  Ids(up'[f]) \subseteq Ids(up[f]) /\ (Once(up[f]) => Once(up'[f]))
    OBVIOUS
  <2>1. up[f] \in Seq(Packet) /\ k[f] + 1 \in 1..Len(up[f])+1 /\ Len(up[f]) \in 0..Len(up[f])
    BY <1>1, BoundAssumption DEF TypeOK
  <2>2. up'[f] = SubSeq(up[f], k[f] + 1, Len(up[f]))
    BY <1>1 DEF Drop
  <2>. QED
    BY <2>1, <2>2, IdsSub
<1>3. ring' = <<>>
  BY DEF ResetSecondary
<1>. QED
  BY <1>2, <1>3, LinksLess, IdsEmpty, ZenonT(30) DEF OnAny

\* What FEBsc_read_packets moves.
LEMMA HomeFetch ==
  ASSUME TypeOK, OneHome, NEW n \in 0..Len(ring)
  PROVE  /\ Fetched(n) \in Seq(Packet) /\ Once(Fetched(n))
         /\ Ids(Fetched(n)) \subseteq Ids(deque) \cup Ids(ring)
         /\ \A k \in n..Len(ring) :
              /\ Ids(Fetched(n)) \cap Ids(Drop(ring, k)) = {}
              /\ Ids(Drop(ring, k)) \subseteq Ids(ring) /\ Once(Drop(ring, k))
<1>1. /\ ring \in Seq(Packet) /\ deque \in Seq(Packet) /\ Once(ring) /\ Once(deque)
      /\ Ids(ring) \cap Ids(deque) = {}
  BY DEF TypeOK, OneHome, Places, Apart
<1>. DEFINE t == SubSeq(ring, 1, n)
<1>2. t \in Seq(Packet) /\ Ids(t) \subseteq Ids(ring) /\ Once(t)
  <2>1. 1 \in 1..Len(ring)+1
    BY <1>1
  <2>. QED
    BY <1>1, <2>1, IdsSub
<1>3. \A k \in n..Len(ring) : Ids(t) \cap Ids(Drop(ring, k)) = {}
  BY <1>1, IdsSplit
<1>4. \A k \in n..Len(ring) : Ids(Drop(ring, k)) \subseteq Ids(ring) /\ Once(Drop(ring, k))
  <2>. SUFFICES ASSUME NEW k \in n..Len(ring)
       PROVE  Ids(Drop(ring, k)) \subseteq Ids(ring) /\ Once(Drop(ring, k))
    OBVIOUS
  <2>1. k + 1 \in 1..Len(ring)+1 /\ Len(ring) \in 0..Len(ring)
    BY <1>1
  <2>. QED
    BY <1>1, <2>1, IdsSub DEF Drop
<1>. HIDE DEF t
<1>5. /\ deque \o t \in Seq(Packet) /\ Ids(deque \o t) \subseteq Ids(deque) \cup Ids(t)
      /\ Once(deque \o t)
  BY <1>1, <1>2, IdsConcat
<1>6. Fetched(n) = deque \o t
  BY DEF Fetched, t
<1>. QED
  BY <1>1, <1>2, <1>3, <1>4, <1>5, <1>6

LEMMA RestsAre ==
  ASSUME TypeOK, NEW n \in 0..Len(ring), NEW r \in Rests(n)
  PROVE  \E k \in n..Len(ring) : r = Drop(ring, k)
<1>1. n \in n..Len(ring) /\ (n < Len(ring) => n + 1 \in n..Len(ring))
  BY DEF TypeOK
<1>. QED
  BY <1>1 DEF Rests

\* Something was fetched.
LEMMA FetchedSome ==
  ASSUME TypeOK, NEW n \in 0..Len(ring), Retval(n) > 0
  PROVE  Fetched(n) \in Seq(Packet) /\ Fetched(n) # <<>> /\ Head(Fetched(n)).op # "BC"
<1>1. n > 0
  BY DEF Retval, TypeOK
<1>2. /\ deque \in Seq(Packet) /\ SubSeq(ring, 1, n) \in Seq(Packet) /\ Len(SubSeq(ring, 1, n)) = n
  BY DropType DEF TypeOK
<1>3. Fetched(n) \in Seq(Packet) /\ Len(Fetched(n)) = Len(deque) + n /\ Len(deque) \in Nat
  BY <1>2, ConcatProperties DEF Fetched
<1>4. Fetched(n) # <<>>
  BY <1>1, <1>3
<1>5. Head(Fetched(n)) \in Packet
  BY <1>3, <1>4
<1>. QED
  BY <1>3, <1>4, <1>5 DEF Packet

\* A poll takes one answer at most, from the front of the deque.
Polled(a) ==
  /\ LinksApart(up') /\ OnAny(up') \subseteq OnAny(up)
  /\ Once(ring') /\ Once(deque')
  /\ Ids(ring') \subseteq Ids(ring) /\ Ids(deque') \subseteq Ids(deque) \cup Ids(ring)
  /\ Ids(ring') \cap Ids(deque') = {}
  /\ a = 0 \/ (a \in Ids(deque) \cup Ids(ring) /\ a \notin Ids(ring') \cup Ids(deque'))

LEMMA HomeTake ==
  ASSUME TypeOK, OneHome, NEW n \in 0..Len(ring), Retval(n) > 0,
         deque' = Tail(Fetched(n)),
         LinksApart(up') /\ OnAny(up') \subseteq OnAny(up),
         ring' = <<>> \/ \E k \in n..Len(ring) : ring' = Drop(ring, k)
  PROVE  Polled(0) /\ Polled(Head(Fetched(n)).id)
<1>. DEFINE q == Fetched(n)
<1>1. /\ q \in Seq(Packet) /\ q # <<>> /\ Head(q).op # "BC" /\ Once(q)
      /\ Ids(q) \subseteq Ids(deque) \cup Ids(ring)
  BY FetchedSome, HomeFetch
<1>2. Ids(ring') \subseteq Ids(ring) /\ Once(ring') /\ Ids(q) \cap Ids(ring') = {}
  BY HomeFetch, IdsEmpty
<1>3. deque' = Tail(q)
  OBVIOUS
<1>. HIDE DEF q
<1>4. /\ Ids(deque') \subseteq Ids(q) /\ Once(deque')
      /\ Head(q).id \in Ids(q) /\ Head(q).id \notin Ids(deque')
  BY <1>1, <1>3, IdsTail
<1>5. Polled(0) /\ Polled(Head(q).id)
  BY <1>1, <1>2, <1>4 DEF Polled
<1>. QED
  BY <1>5 DEF q

LEMMA HomeKeep ==
  ASSUME TypeOK, OneHome, NEW n \in 0..Len(ring), deque' = Fetched(n),
         LinksApart(up') /\ OnAny(up') \subseteq OnAny(up),
         ring' = <<>> \/ \E k \in n..Len(ring) : ring' = Drop(ring, k)
  PROVE  Polled(0)
<1>1. /\ Once(deque') /\ Ids(deque') \subseteq Ids(deque) \cup Ids(ring)
  BY HomeFetch
<1>2. Ids(ring') \subseteq Ids(ring) /\ Once(ring') /\ Ids(deque') \cap Ids(ring') = {}
  BY HomeFetch, IdsEmpty
<1>. QED
  BY <1>1, <1>2 DEF Polled


\* The call takes a, or nothing has been returned yet.
Takes(c, a) ==
  \/ last' = last
  \/ \A d \in Caller : last'[d].answer = IF d = c THEN a ELSE last[d].answer

LEMMA ReturnTakes ==
  ASSUME TypeOK, NEW c \in Caller, NEW code, NEW a, NEW v, Return(c, code, a, v)
  PROVE  Takes(c, a)
  BY DEF Return, Takes, TypeOK

LEMMA AgainTakes ==
  ASSUME TypeOK, NEW c \in Caller, PollAgain(c)
  PROVE  Takes(c, 0)
<1>1. last' = last \/ Return(c, "FPGA_TIMEOUT", 0, 0)
  BY DEF PollAgain
<1>. QED
  BY <1>1, ReturnTakes DEF Takes

LEMMA PollHome ==
  ASSUME TypeOK, OneHome, NEW c \in Caller, Poll(c)
  PROVE  UNCHANGED <<main, down, serial>> /\ \E a : Polled(a) /\ Takes(c, a)
<1>0. LinksApart(up) /\ OnAny(up) \subseteq OnAny(up)
  BY DEF OneHome
<1>1. CASE PollDone(c)
  <2>1. UNCHANGED <<deque, main, down, up, ring, serial>>
    BY <1>1 DEF PollDone, firmware
  <2>2. Takes(c, 0)
    <3>1. PollAgain(c) \/ Return(c, "OK", 0, 0) \/ last' = last
      BY <1>1 DEF PollDone
    <3>. QED
      BY <3>1, AgainTakes, ReturnTakes DEF Takes
  <2>3. Polled(0)
    BY <2>1 DEF OneHome, Polled, Places, Apart
  <2>. QED
    BY <2>1, <2>2, <2>3
<1>2. CASE PollAck(c)
  <2>1. UNCHANGED <<main, down, up, serial>>
    BY <1>2 DEF PollAck
  <2>2. PICK n \in 0..Len(ring) :
          /\ ring' \in Rests(n)
          /\ \/ /\ Retval(n) > 0 /\ deque' = Tail(Fetched(n))
                /\ (\E code : Return(c, code, Head(Fetched(n)).id, 0)) \/ PollAgain(c)
             \/ deque' = Fetched(n) /\ PollAgain(c)
    BY <1>2 DEF PollAck
  <2>3. LinksApart(up') /\ OnAny(up') \subseteq OnAny(up)
    BY <1>0, <2>1
  <2>4. \E k \in n..Len(ring) : ring' = Drop(ring, k)
    BY <2>2, RestsAre
  <2>5. CASE Retval(n) > 0 /\ deque' = Tail(Fetched(n))
    <3>1. Polled(0) /\ Polled(Head(Fetched(n)).id)
      BY <2>3, <2>4, <2>5, HomeTake
    <3>2. Takes(c, 0) \/ Takes(c, Head(Fetched(n)).id)
      BY <2>2, AgainTakes, ReturnTakes
    <3>. QED
      BY <2>1, <3>1, <3>2
  <2>6. CASE deque' = Fetched(n) /\ PollAgain(c)
    BY <2>1, <2>3, <2>4, <2>6, HomeKeep, AgainTakes
  <2>. QED
    BY <2>2, <2>5, <2>6
<1>3. CASE PollReply(c)
  <2>1. UNCHANGED <<main, down, serial>>
    BY <1>3 DEF PollReply
  <2>2. PICK n \in 0..Len(ring) :
          \/ PollAgain(c) /\ UNCHANGED <<deque, ring, up>>
          \/ Return(c, "BAD_PACKET", 0, 0) /\ deque' = Fetched(n) /\ ResetSecondary
          \/ /\ Retval(n) > 0 /\ deque' = Tail(Fetched(n))
             /\ TakeReply(c, Head(Fetched(n)), Drop(ring, n))
    BY <1>3 DEF PollReply
  <2>3. CASE PollAgain(c) /\ UNCHANGED <<deque, ring, up>>
    <3>1. Polled(0)
      BY <2>3 DEF OneHome, Polled, Places, Apart
    <3>. QED
      BY <2>1, <2>3, <3>1, AgainTakes
  <2>4. CASE Return(c, "BAD_PACKET", 0, 0) /\ deque' = Fetched(n) /\ ResetSecondary
    <3>1. ring' = <<>> /\ LinksApart(up') /\ OnAny(up') \subseteq OnAny(up)
      BY <1>0, <2>4, HomeReset DEF ResetSecondary
    <3>. QED
      BY <2>1, <2>4, <3>1, HomeKeep, ReturnTakes
  <2>5. CASE Retval(n) > 0 /\ deque' = Tail(Fetched(n)) /\ TakeReply(c, Head(Fetched(n)), Drop(ring, n))
    <3>1. /\ \E code, v : Return(c, code, Head(Fetched(n)).id, v)
          /\ (ring' = Drop(ring, n) /\ up' = up) \/ ResetSecondary
      BY <2>5 DEF TakeReply
    <3>2. /\ ring' = <<>> \/ \E k \in n..Len(ring) : ring' = Drop(ring, k)
          /\ LinksApart(up') /\ OnAny(up') \subseteq OnAny(up)
      <4>1. n \in n..Len(ring)
        BY DEF TypeOK
      <4>. QED
        BY <1>0, <3>1, <4>1, HomeReset DEF ResetSecondary
    <3>3. Polled(Head(Fetched(n)).id)
      BY <2>5, <3>2, HomeTake
    <3>. QED
      BY <2>1, <3>1, <3>3, ReturnTakes
  <2>. QED
    BY <2>2, <2>3, <2>4, <2>5
<1>. QED
  BY <1>1, <1>2, <1>3 DEF Poll

LEMMA OnePoll ==
  ASSUME TypeOK, OneHome, NEW c \in Caller, Poll(c)
  PROVE  OneHome'
<1>1. PICK a : Polled(a) /\ Takes(c, a)
  BY PollHome
<1>2. UNCHANGED <<main, down, serial>>
  BY PollHome
<1>3. Taken' \subseteq Taken \cup ({a} \ {0})
  BY <1>1 DEF Taken, Takes
<1>4. CallsApart'
  <2>1. a # 0 => a \notin Taken
    BY <1>1 DEF Polled, OneHome, Places, Apart
  <2>. QED
    BY <1>1, <2>1 DEF Takes, Taken, CallsApart, OneHome
<1>5. Places'
  <2>. DEFINE b == OnAny(down)
              u == OnAny(up)
              r == Ids(ring)
              d == Ids(deque)
              m == Ids(main)
              t == Taken
              u2 == OnAny(up')
              r2 == Ids(ring')
              d2 == Ids(deque')
              t2 == Taken'
  <2>1. Apart(m, b, u, r, d, t)
    BY DEF OneHome, Places
  <2>2. /\ u2 \subseteq u /\ r2 \subseteq r /\ d2 \subseteq d \cup r /\ r2 \cap d2 = {}
        /\ t2 \subseteq t \cup ({a} \ {0}) /\ (a = 0 \/ (a \in d \cup r /\ a \notin r2 \cup d2))
    BY <1>1, <1>3 DEF Polled
  <2>3. Ids(main') = m /\ OnAny(down') = b
    BY <1>2
  <2>. HIDE DEF m, b, u, r, d, t, u2, r2, d2, t2
  <2>4. Apart(m, b, u2, r2, d2, t2)
    BY <2>1, <2>2 DEF Apart
  <2>. QED
    BY <2>3, <2>4 DEF Places, u2, r2, d2, t2
<1>6. Started'
  BY <1>1, <1>2, <1>3 DEF OneHome, Started, Polled
<1>. QED
  BY <1>1, <1>2, <1>4, <1>5, <1>6 DEF OneHome, Polled


\* A fault, or a step that moves nothing, only drops ids.
LEMMA OneLess ==
  ASSUME OneHome, LinksApart(down'), LinksApart(up'), Once(ring'), Once(deque'),
         OnAny(down') \subseteq OnAny(down), OnAny(up') \subseteq OnAny(up),
         Ids(main') \subseteq Ids(main), Ids(ring') \subseteq Ids(ring),
         Ids(deque') \subseteq Ids(deque), serial' = serial,
         \A c \in Caller : last'[c].answer \in {0, last[c].answer}
  PROVE  OneHome'
<1>1. Taken' \subseteq Taken
  BY DEF Taken
<1>2. CallsApart'
  BY DEF OneHome, CallsApart
<1>3. Places'
  BY <1>1, ApartLess DEF OneHome, Places
<1>4. Started'
  BY <1>1 DEF OneHome, Started
<1>. QED
  BY <1>2, <1>3, <1>4 DEF OneHome

LEMMA OneStart ==
  ASSUME TypeOK, OneHome, NEW c \in Caller, StartAny(c)
  PROVE  OneHome'
<1>1. PICK op \in Ops, f \in Feb, n \in ReadLen \cup {0} : Start(c, op, f, n)
  BY DEF StartAny, Ops
<1>. DEFINE x == [op |-> op, feb |-> f, len |-> n, id |-> serial + 1]
<1>2. /\ main' = <<x>> /\ last' = [last EXCEPT ![c] = Nothing] /\ serial' = serial + 1
      /\ UNCHANGED <<down, up, ring, deque>> /\ serial \in Nat
  BY <1>1 DEF Start, TypeOK
<1>3. Ids(main') \subseteq {serial + 1}
  <2>1. x.id = serial + 1
    OBVIOUS
  <2>. HIDE DEF x
  <2>. QED
    BY <1>2, <2>1 DEF Ids
<1>4. \A d \in Caller : last'[d].answer \in {0, last[d].answer}
  BY <1>2 DEF TypeOK, Nothing
<1>5. CallsApart' /\ Taken' \subseteq Taken
  BY <1>4 DEF OneHome, CallsApart, Taken
<1>6. OnAny(down) \cup OnAny(up) \cup Ids(ring) \cup Ids(deque) \cup Taken \subseteq 1..serial
  BY DEF OneHome, Started
<1>7. Places'
  BY <1>2, <1>3, <1>5, <1>6 DEF OneHome, Places, Apart
<1>8. Started'
  BY <1>2, <1>3, <1>5, <1>6 DEF Started
<1>. QED
  BY <1>2, <1>5, <1>7, <1>8 DEF OneHome

LEMMA OneSend ==
  ASSUME TypeOK, OneHome, Send
  PROVE  OneHome'
<1>1. /\ main # <<>> /\ main' = <<>> /\ UNCHANGED <<last, up, ring, deque, serial>>
      /\ down' = [f \in Feb |-> IF f \in Target(main[1])
                                THEN Append(down[f], main[1]) ELSE down[f]]
  BY DEF Send, software
<1>. DEFINE x == main[1]
<1>2. x \in Command /\ Len(main) = 1
  <2>1. main \in Seq(Command) /\ Len(main) <= 1 /\ main # <<>>
    BY <1>1 DEF TypeOK
  <2>. QED
    BY <2>1, OneEntry
<1>3. CASE x.op = "BC"
  <2>1. \A f \in Feb : Ids(down'[f]) \subseteq Ids(down[f]) /\ (Once(down[f]) => Once(down'[f]))
    <3>. SUFFICES ASSUME NEW f \in Feb
         PROVE  Ids(down'[f]) \subseteq Ids(down[f]) /\ (Once(down[f]) => Once(down'[f]))
      OBVIOUS
    <3>1. down[f] \in Seq(Command) /\ (down'[f] = down[f] \/ down'[f] = Append(down[f], x))
      BY <1>1 DEF TypeOK
    <3>. HIDE DEF x
    <3>2. Ids(Append(down[f], x)) \subseteq Ids(down[f]) /\ (Once(down[f]) => Once(Append(down[f], x)))
      BY <1>2, <1>3, <3>1, IdsAppend
    <3>. QED
      BY <3>1, <3>2
  <2>2. LinksApart(down') /\ OnAny(down') \subseteq OnAny(down)
    BY <2>1, LinksLess, ZenonT(30) DEF OneHome, OnAny
  <2>. QED
    BY <1>1, <2>2, IdsEmpty, OneLess DEF OneHome
<1>4. CASE x.op # "BC"
  <2>0. x.id \in Ids(main)
    <3>1. 1 \in 1..Len(main)
      BY <1>2
    <3>. QED
      BY <1>4, <3>1 DEF Ids
  <2>1. x.feb \in Feb /\ down \in [Feb -> Seq(Command)]
    BY <1>2 DEF Command, TypeOK
  <2>2. down' = [down EXCEPT ![x.feb] = Append(down[x.feb], x)]
    BY <1>1, <1>4, <2>1 DEF Target
  <2>3. x.id \notin OnAny(down) /\ LinksApart(down)
    BY <2>0 DEF OneHome, Places, Apart
  <2>. HIDE DEF x
  <2>4. LinksApart(down') /\ OnAny(down') \subseteq OnAny(down) \cup {x.id}
    BY <1>2, <1>4, <2>1, <2>2, <2>3, LinksPut
  <2>5. Ids(main') = {} /\ Taken' = Taken /\ CallsApart'
    BY <1>1, IdsEmpty DEF Taken, CallsApart, OneHome
  <2>6. Places'
    <3>1. Apart({}, OnAny(down'), OnAny(up), Ids(ring), Ids(deque), Taken)
      BY <2>0, <2>4, ApartMove DEF OneHome, Places
    <3>2. OnAny(up') = OnAny(up) /\ Ids(ring') = Ids(ring) /\ Ids(deque') = Ids(deque)
      BY <1>1
    <3>. QED
      BY <2>5, <3>1, <3>2 DEF Places
  <2>7. Started'
    BY <1>1, <2>0, <2>4, <2>5 DEF OneHome, Started
  <2>. QED
    BY <1>1, <2>4, <2>5, <2>6, <2>7 DEF OneHome
<1>. QED
  BY <1>3, <1>4

LEMMA OneExecute ==
  ASSUME TypeOK, OneHome, NEW f \in Feb, Execute(f)
  PROVE  OneHome'
<1>. DEFINE x == Head(down[f])
            v == IF x.op = "RD" THEN reg[f] ELSE x.id
            a == Answer(x, IF x.op = "RD" THEN v ELSE 0)
<1>1. /\ down[f] # <<>> /\ down' = [down EXCEPT ![f] = Tail(down[f])]
      /\ up' = IF x.op = "BC" THEN up ELSE [up EXCEPT ![f] = Append(up[f], a)]
      /\ UNCHANGED <<last, main, ring, deque, serial>>
  BY DEF Execute, software
<1>2. down \in [Feb -> Seq(Command)] /\ up \in [Feb -> Seq(Packet)] /\ x \in Command
  BY <1>1 DEF TypeOK
<1>3. /\ LinksApart(down') /\ OnAny(down') \subseteq OnAny(down)
      /\ x.op # "BC" => x.id \in OnAny(down) /\ x.id \notin OnAny(down')
  BY <1>1, <1>2, LinksTake DEF OneHome
<1>4. CASE x.op = "BC"
  BY <1>1, <1>3, <1>4, OneLess DEF OneHome
<1>5. CASE x.op # "BC"
  <2>1. a \in Packet /\ a.op # "BC" /\ a.id = x.id
    <3>1. a.op = x.op /\ a.id = x.id
      BY DEF Answer
    <3>2. v \in 0..MaxCalls /\ (IF x.op = "RD" THEN v ELSE 0) \in 0..MaxCalls
      BY <1>2, Zeros DEF TypeOK, Command
    <3>. HIDE DEF x, v
    <3>3. a \in Packet
      BY <1>2, <1>5, <3>2, AnswerType
    <3>. QED
      BY <1>5, <3>1, <3>3
  <2>2. x.id \notin OnAny(up)
    BY <1>3, <1>5 DEF OneHome, Places, Apart
  <2>3. up' = [up EXCEPT ![f] = Append(up[f], a)]
    BY <1>1, <1>5
  <2>. HIDE DEF a, v, x
  <2>4. LinksApart(up') /\ OnAny(up') \subseteq OnAny(up) \cup {x.id}
    BY <1>2, <2>1, <2>2, <2>3, LinksPut DEF OneHome
  <2>5. Taken' = Taken /\ CallsApart'
    BY <1>1 DEF Taken, CallsApart, OneHome
  <2>6. Ids(main') = Ids(main) /\ Ids(ring') = Ids(ring) /\ Ids(deque') = Ids(deque) /\ serial' = serial
    BY <1>1
  <2>7. x.id \in OnAny(down) /\ x.id \notin OnAny(down') /\ OnAny(down') \subseteq OnAny(down)
    BY <1>3, <1>5
  <2>8. Places'
    BY <2>4, <2>5, <2>6, <2>7, ApartMove DEF OneHome, Places
  <2>9. Started'
    BY <2>4, <2>5, <2>6, <2>7 DEF OneHome, Started
  <2>. QED
    BY <1>1, <1>3, <2>4, <2>5, <2>8, <2>9 DEF OneHome
<1>. QED
  BY <1>4, <1>5

LEMMA OneReceive ==
  ASSUME TypeOK, OneHome, NEW f \in Feb, Receive(f)
  PROVE  OneHome'
<1>. DEFINE p == Head(up[f])
<1>1. /\ up[f] # <<>> /\ up' = [up EXCEPT ![f] = Tail(up[f])] /\ ring' = Append(ring, p)
      /\ UNCHANGED <<last, main, down, deque, serial>>
  BY DEF Receive, software
<1>2. up \in [Feb -> Seq(Packet)] /\ ring \in Seq(Packet) /\ p \in Packet /\ p.op # "BC"
  <2>1. p \in Packet
    BY <1>1 DEF TypeOK
  <2>. QED
    BY <2>1 DEF Packet, TypeOK
<1>3. /\ LinksApart(up') /\ OnAny(up') \subseteq OnAny(up)
      /\ p.id \in OnAny(up) /\ p.id \notin OnAny(up')
  BY <1>1, <1>2, LinksTake DEF OneHome
<1>. HIDE DEF p
<1>4. Ids(ring') \subseteq Ids(ring) \cup {p.id} /\ Once(ring')
  <2>1. p.id \notin Ids(ring) /\ Once(ring)
    BY <1>3 DEF OneHome, Places, Apart
  <2>. QED
    BY <1>1, <1>2, <2>1, IdsAppend
<1>5. Taken' = Taken /\ CallsApart'
  BY <1>1 DEF Taken, CallsApart, OneHome
<1>6. Places'
  <2>1. Apart(Ids(main), OnAny(down), OnAny(up'), Ids(ring'), Ids(deque), Taken)
    BY <1>3, <1>4, ApartMove DEF OneHome, Places
  <2>2. Ids(main') = Ids(main) /\ OnAny(down') = OnAny(down) /\ Ids(deque') = Ids(deque)
    BY <1>1
  <2>. QED
    BY <1>5, <2>1, <2>2 DEF Places
<1>7. Started'
  BY <1>1, <1>3, <1>4, <1>5, ZenonT(30) DEF OneHome, Started
<1>. QED
  BY <1>1, <1>3, <1>4, <1>5, <1>6, <1>7 DEF OneHome


LEMMA OneFault ==
  ASSUME TypeOK, OneHome, NEW f \in Feb, LoseDown(f) \/ LoseUp(f) \/ Damage(f)
  PROVE  OneHome'
<1>1. UNCHANGED <<last, main, ring, deque, serial>> /\ LinksApart(down) /\ LinksApart(up)
  BY DEF LoseDown, LoseUp, Damage, software, OneHome
<1>2. down \in [Feb -> Seq(Command)] /\ up \in [Feb -> Seq(Packet)]
  BY DEF TypeOK
<1>3. CASE LoseDown(f)
  <2>1. UNCHANGED up /\ down[f] # <<>> /\ down' = [down EXCEPT ![f] = Tail(down[f])]
    BY <1>3 DEF LoseDown
  <2>2. LinksApart(down') /\ OnAny(down') \subseteq OnAny(down)
    BY <1>1, <1>2, <2>1, LinksTake
  <2>. QED
    BY <1>1, <2>1, <2>2, OneLess DEF OneHome
<1>4. CASE LoseUp(f)
  <2>1. UNCHANGED down /\ up[f] # <<>> /\ up' = [up EXCEPT ![f] = Tail(up[f])]
    BY <1>4 DEF LoseUp
  <2>2. LinksApart(up') /\ OnAny(up') \subseteq OnAny(up)
    BY <1>1, <1>2, <2>1, LinksTake
  <2>. QED
    BY <1>1, <2>1, <2>2, OneLess DEF OneHome
<1>5. CASE Damage(f)
  <2>1. UNCHANGED down /\ up[f] # <<>>
    BY <1>5 DEF Damage
  <2>2. PICK p : up' = [up EXCEPT ![f] = [up[f] EXCEPT ![1] = p]] /\ p.id = up[f][1].id /\ p.op # "BC"
    BY <1>5 DEF Damage
  <2>3. /\ Len(up'[f]) = Len(up[f]) /\ \A g \in Feb : g # f => up'[g] = up[g]
        /\ \A i \in 1..Len(up[f]) :
             up'[f][i].id = up[f][i].id /\ up[f][i].op # "BC" /\ up'[f][i].op # "BC"
    <3>. DEFINE q == up[f]
                r == [q EXCEPT ![1] = p]
    <3>1. q \in Seq(Packet) /\ \A i \in 1..Len(q) : q[i] \in Packet
      BY <1>2
    <3>2. \A i \in 1..Len(q) : q[i].op # "BC"
      BY <3>1 DEF Packet
    <3>3. up'[f] = r /\ \A g \in Feb : g # f => up'[g] = up[g]
      BY <1>2, <2>2
    <3>4. p.id = q[1].id
      BY <2>2
    <3>. HIDE DEF q
    <3>5. Len(r) = Len(q) /\ \A i \in 1..Len(q) : r[i] = IF i = 1 THEN p ELSE q[i]
      BY <3>1
    <3>. HIDE DEF r
    <3>. QED
      BY <2>2, <3>2, <3>3, <3>4, <3>5 DEF q
  <2>4. \A g \in Feb : Ids(up'[g]) \subseteq Ids(up[g]) /\ (Once(up[g]) => Once(up'[g]))
    <3>1. Ids(up'[f]) = Ids(up[f]) /\ Once(up'[f]) = Once(up[f])
      BY <2>3 DEF Ids, Once
    <3>. QED
      BY <2>3, <3>1
  <2>5. LinksApart(up') /\ OnAny(up') \subseteq OnAny(up)
    BY <1>1, <2>4, LinksLess DEF OnAny
  <2>. QED
    BY <1>1, <2>1, <2>5, OneLess DEF OneHome
<1>. QED
  BY <1>3, <1>4, <1>5

LEMMA OneRestart ==
  ASSUME TypeOK, OneHome, Restart
  PROVE  OneHome'
<1>1. /\ last' = [c \in Caller |-> Nothing] /\ deque' = <<>> /\ main' = <<>>
      /\ ResetSecondary /\ serial' = serial
  BY DEF Restart
<1>2. LinksApart(up') /\ OnAny(up') \subseteq OnAny(up) /\ Ids(ring') = {} /\ Once(ring')
  BY <1>1, HomeReset DEF OneHome
<1>3. PICK j \in [Feb -> 0..MaxCalls] :
        /\ \A f \in Feb : j[f] <= Len(down[f])
        /\ down' = [f \in Feb |-> SubSeq(down[f], 1, Len(down[f]) - j[f])]
  BY DEF Restart
<1>4. \A f \in Feb : Ids(down'[f]) \subseteq Ids(down[f]) /\ (Once(down[f]) => Once(down'[f]))
  <2>. SUFFICES ASSUME NEW f \in Feb
       PROVE  Ids(down'[f]) \subseteq Ids(down[f]) /\ (Once(down[f]) => Once(down'[f]))
    OBVIOUS
  <2>1. /\ down[f] \in Seq(Command) /\ 1 \in 1..Len(down[f])+1
        /\ Len(down[f]) - j[f] \in 0..Len(down[f])
    BY <1>3, BoundAssumption DEF TypeOK
  <2>2. down'[f] = SubSeq(down[f], 1, Len(down[f]) - j[f])
    BY <1>3
  <2>. QED
    BY <2>1, <2>2, IdsSub
<1>5. LinksApart(down') /\ OnAny(down') \subseteq OnAny(down)
  BY <1>4, LinksLess DEF OneHome, OnAny
<1>. QED
  BY <1>1, <1>2, <1>5, IdsEmpty, OneLess DEF Nothing

LEMMA OneNext == TypeOK /\ OneHome /\ [Next]_vars => OneHome'
<1>. SUFFICES ASSUME TypeOK, OneHome, [Next]_vars PROVE OneHome'
  OBVIOUS
<1>1. ASSUME NEW c \in Caller, Busy(c) PROVE OneHome'
  <2>1. /\ UNCHANGED <<main, down, up, ring, deque, serial>>
        /\ \A d \in Caller : last'[d].answer \in {0, last[d].answer}
    BY <1>1 DEF Busy, firmware, Nothing, TypeOK
  <2>. QED
    BY <2>1, OneLess DEF OneHome
<1>2. CASE UNCHANGED vars
  BY <1>2, OneLess DEF vars, OneHome
<1>. QED
  BY <1>1, <1>2, OneStart, OnePoll, OneSend, OneExecute, OneReceive, OneFault, OneRestart DEF Next

LEMMA OneInit == Init => OneHome
<1>. SUFFICES ASSUME Init PROVE OneHome
  OBVIOUS
<1>1. /\ ring = <<>> /\ deque = <<>> /\ main = <<>> /\ \A f \in Feb : down[f] = <<>> /\ up[f] = <<>>
      /\ \A c \in Caller : last[c].answer = 0
  BY DEF Init, Nothing
<1>2. OnAny(down) = {} /\ OnAny(up) = {} /\ Taken = {} /\ LinksApart(down) /\ LinksApart(up)
  BY <1>1, IdsEmpty DEF OnAny, Taken, LinksApart
<1>. QED
  BY <1>1, <1>2, IdsEmpty DEF OneHome, CallsApart, Places, Apart, Started

LEMMA EveryAnswerHasOneHome == Spec => []OneHome
<1>. QED
  BY OneInit, OneNext, TypeCorrect, PTL DEF Spec


LEMMA OneHomeAnswers == TypeOK /\ OneHome => AnswerOnce
<1>. SUFFICES ASSUME TypeOK, OneHome PROVE AnswerOnce
  OBVIOUS
<1>. DEFINE Place == [at : Feb \cup {"ring", "deque"}, n : 1..MaxCalls]
            Q(a) == CASE a = "ring" -> ring [] a = "deque" -> deque [] OTHER -> up[a]
            There == {p \in Place : p.n <= Len(Q(p.at))}
<1>1. ASSUME NEW p \in There
      PROVE  /\ \/ p.at = "ring" /\ Q(p.at) = ring
                \/ p.at = "deque" /\ Q(p.at) = deque
                \/ p.at \in Feb /\ Q(p.at) = up[p.at]
             /\ Once(Q(p.at)) /\ p.n \in 1..Len(Q(p.at))
             /\ Q(p.at)[p.n].op # "BC" /\ Q(p.at)[p.n].id \in Ids(Q(p.at))
  <2>1. \/ p.at = "ring" /\ Q(p.at) = ring
        \/ p.at = "deque" /\ Q(p.at) = deque
        \/ p.at \in Feb /\ Q(p.at) = up[p.at]
    OBVIOUS
  <2>2. Q(p.at) \in Seq(Packet) /\ Once(Q(p.at))
    BY <2>1 DEF TypeOK, OneHome, LinksApart
  <2>. DEFINE q == Q(p.at)
  <2>3. p.n \in 1..MaxCalls /\ p.n <= Len(q)
    OBVIOUS
  <2>. HIDE DEF q, There
  <2>4. p.n \in 1..Len(q) /\ q[p.n] \in Packet
    BY <2>2, <2>3 DEF q
  <2>5. q[p.n].op # "BC" /\ q[p.n].id \in Ids(q)
    BY <2>4 DEF Packet, Ids
  <2>. QED
    BY <2>1, <2>2, <2>4, <2>5 DEF q
<1>2. ASSUME NEW p \in There, NEW q \in There, p.at # q.at
      PROVE  Ids(Q(p.at)) \cap Ids(Q(q.at)) = {}
  <2>1. /\ \A f \in Feb : Ids(up[f]) \cap Ids(ring) = {} /\ Ids(up[f]) \cap Ids(deque) = {}
        /\ Ids(ring) \cap Ids(deque) = {}
        /\ \A f, g \in Feb : f # g => Ids(up[f]) \cap Ids(up[g]) = {}
    BY DEF OneHome, Places, Apart, OnAny, LinksApart
  <2>. HIDE DEF Q, There
  <2>. QED
    BY <1>1, <1>2, <2>1
<1>3. ASSUME NEW p \in There
      PROVE  Ids(Q(p.at)) \cap Taken = {} /\ 0 \notin Ids(Q(p.at))
  <2>1. /\ \A f \in Feb : Ids(up[f]) \cap Taken = {} /\ 0 \notin Ids(up[f])
        /\ Ids(ring) \cap Taken = {} /\ Ids(deque) \cap Taken = {}
        /\ 0 \notin Ids(ring) /\ 0 \notin Ids(deque)
    BY DEF OneHome, Places, Apart, OnAny, Started
  <2>. HIDE DEF Q, There
  <2>. QED
    BY <1>1, <2>1
<1>4. \A p \in There : p = [at |-> p.at, n |-> p.n]
  OBVIOUS
<1>5. ASSUME NEW p \in There, NEW q \in There, Q(p.at)[p.n].id = Q(q.at)[q.n].id
      PROVE  p = q
  <2>. HIDE DEF Q, There
  <2>1. p.at = q.at
    <3>1. Q(p.at)[p.n].id \in Ids(Q(p.at)) \cap Ids(Q(q.at))
      BY <1>1, <1>5
    <3>. QED
      BY <1>2, <3>1
  <2>2. p.n = q.n
    BY <1>1, <1>5, <2>1 DEF Once
  <2>. QED
    BY <1>4, <2>1, <2>2
<1>6. ASSUME NEW c \in Caller, NEW p \in There
      PROVE  last[c].answer # Q(p.at)[p.n].id
  <2>1. last[c].answer = 0 \/ last[c].answer \in Taken
    BY DEF Taken
  <2>. HIDE DEF Q, There
  <2>. QED
    BY <1>1, <1>3, <2>1
<1>7. \A c, d \in Caller : last[c].answer = last[d].answer /\ last[c].answer # 0 => c = d
  BY DEF OneHome, CallsApart
<1>. QED
  BY <1>5, <1>6, <1>7 DEF AnswerOnce

\* No answer is in two places, and no two calls take the same: over timeouts,
\* answers that come late, resets, restarts of the program and faults of the links.
THEOREM AnswerOnceHolds == Spec => []AnswerOnce
<1>. QED
  BY OneHomeAnswers, EveryAnswerHasOneHome, TypeCorrect, PTL

-----------------------------------------------------------------------------
(* SlowControl implements FebTransaction. *)


\* An open call has not returned anything yet, and an acknowledge has no value.
Fresh == \A c \in Caller : pc[c] # "idle" => last[c] = Nothing
Valueless(s) == \A i \in 1..Len(s) : s[i].op = "WR" => s[i].val = 0
Acknowledges == ~upset => Valueless(ring) /\ \A f \in Feb : Valueless(up[f])

TInv == Fresh /\ Acknowledges

-----------------------------------------------------------------------------
LEMMA ReturnFresh ==
  ASSUME TypeOK, Fresh, NEW c \in Caller, NEW code, NEW ans, NEW v, Return(c, code, ans, v)
  PROVE  Fresh'
  BY DEF TypeOK, Fresh, Return

LEMMA AgainFresh ==
  ASSUME TypeOK, Fresh, NEW c \in Caller, PollAgain(c)
  PROVE  Fresh'
  BY ReturnFresh DEF PollAgain, Fresh, Return

LEMMA FreshNext ==
  ASSUME TypeOK, Fresh, [Next]_vars
  PROVE  Fresh'
<1>1. ASSUME NEW c \in Caller, StartAny(c) PROVE Fresh'
  BY <1>1 DEF TypeOK, StartAny, Start, Fresh
<1>2. ASSUME NEW c \in Caller, Busy(c) PROVE Fresh'
  BY <1>2 DEF TypeOK, Busy, Fresh
<1>3. ASSUME NEW c \in Caller, PollDone(c) PROVE Fresh'
  BY <1>3, ReturnFresh, AgainFresh DEF TypeOK, PollDone, Fresh
<1>4. ASSUME NEW c \in Caller, PollAck(c) PROVE Fresh'
  <2>1. PollAgain(c) \/ \E code, ans, v : Return(c, code, ans, v)
    BY <1>4 DEF PollAck
  <2>. QED
    BY <2>1, ReturnFresh, AgainFresh
<1>5. ASSUME NEW c \in Caller, PollReply(c) PROVE Fresh'
  <2>1. PollAgain(c) \/ \E code, ans, v : Return(c, code, ans, v)
    BY <1>5 DEF PollReply, TakeReply
  <2>. QED
    BY <2>1, ReturnFresh, AgainFresh
<1>6. CASE Send \/ \E f \in Feb : Execute(f) \/ Receive(f) \/ LoseDown(f) \/ LoseUp(f) \/ Damage(f)
  BY <1>6 DEF Send, Execute, Receive, LoseDown, LoseUp, Damage, software, Fresh
<1>7. CASE Restart
  BY <1>7 DEF Restart, Fresh
<1>8. CASE UNCHANGED vars
  BY <1>8 DEF vars, Fresh
<1>. QED
  BY <1>1, <1>2, <1>3, <1>4, <1>5, <1>6, <1>7, <1>8 DEF Next, Poll

\* While the promise holds, a step other than the start of a call finds it so.
LEMMA UpsetStays ==
  ASSUME TypeOK, [Next]_vars, ~upset', ~\E c \in Caller : StartAny(c)
  PROVE  ~upset
<1>1. ASSUME NEW c \in Caller, NEW code, NEW ans, NEW v, Return(c, code, ans, v)
      PROVE  ~upset
  BY <1>1 DEF Return, TypeOK
<1>2. ASSUME NEW c \in Caller, PollAgain(c)
      PROVE  ~upset
  BY <1>1, <1>2 DEF PollAgain
<1>3. ASSUME NEW c \in Caller, Busy(c) \/ Poll(c)
      PROVE  ~upset
  BY <1>1, <1>2, <1>3 DEF Busy, Poll, PollDone, PollAck, PollReply, TakeReply
<1>4. CASE \E f \in Feb : LoseDown(f) \/ LoseUp(f) \/ Damage(f)
  BY <1>4 DEF LoseDown, LoseUp, Damage, Fault
<1>5. CASE Restart
  BY <1>5 DEF Restart, Fault
<1>6. CASE Send \/ (\E f \in Feb : Execute(f) \/ Receive(f)) \/ UNCHANGED vars
  BY <1>6 DEF Send, Execute, Receive, vars
<1>. QED
  BY <1>3, <1>4, <1>5, <1>6 DEF Next

LEMMA ValuelessQueues ==
  ASSUME NEW s \in Seq(Packet), Valueless(s)
  PROVE  /\ s # <<>> => Valueless(Tail(s)) /\ (Head(s).op = "WR" => Head(s).val = 0)
         /\ \A p \in Packet : (p.op = "WR" => p.val = 0) => Valueless(Append(s, p))
  BY DEF Valueless

\* A poll that does not end in an upset leaves the answers, or takes the only one.
LEMMA PollLeaves ==
  ASSUME TypeOK, IInv, ~upset, NEW c \in Caller, Poll(c)
  PROVE  /\ UNCHANGED <<main, down, up, serial, reg>>
         /\ ring' = <<>> \/ ring' = ring
<1>1. CASE PollDone(c)
  BY <1>1 DEF PollDone, firmware
<1>2. CASE PollAck(c)
  <2>1. PICK n \in 0..Len(ring) : Parses(n) /\ ring' \in Rests(n)
    BY <1>2 DEF PollAck
  <2>2. Rests(n) = {<<>>}
    BY <1>2, <2>1, PollSees DEF PollAck
  <2>. QED
    BY <1>2, <2>1, <2>2 DEF PollAck
<1>3. CASE PollReply(c)
  <2>1. PICK n \in 0..Len(ring) :
          /\ Parses(n)
          /\ \/ Retval(n) = 0 /\ UNCHANGED <<ring, up>>
             \/ Retval(n) < 0
             \/ Retval(n) > 0 /\ TakeReply(c, Head(Fetched(n)), Drop(ring, n))
    BY <1>3 DEF PollReply
  <2>2. pc[c] = "reply" /\ cmd[c].op = "RD"
    BY <1>3 DEF PollReply, IInv, Waiting
  <2>3. UNCHANGED <<main, down, serial, reg>>
    BY <1>3 DEF PollReply
  <2>4. CASE Retval(n) = 0 /\ UNCHANGED <<ring, up>>
    BY <2>3, <2>4
  <2>5. Retval(n) \in {0, 1}
    BY <2>1, <2>2, PollSees
  <2>6. CASE Retval(n) > 0 /\ TakeReply(c, Head(Fetched(n)), Drop(ring, n))
    <3>1. AnswersTo(Head(Fetched(n)), cmd[c]) /\ Rests(n) = {<<>>}
      BY <2>1, <2>2, <2>6, PollSees
    <3>2. ring' = Drop(ring, n) /\ up' = up
      BY <2>2, <2>6, <3>1 DEF TakeReply, AnswersTo
    <3>3. Drop(ring, n) = <<>>
      BY <3>1 DEF Rests
    <3>. QED
      BY <2>3, <3>2, <3>3
  <2>. QED
    BY <2>1, <2>4, <2>5, <2>6
<1>. QED
  BY <1>1, <1>2, <1>3 DEF Poll

LEMMA AcknowledgesNext ==
  ASSUME TypeOK, IInv, Acknowledges, [Next]_vars
  PROVE  Acknowledges'
<1>. SUFFICES ASSUME ~upset' PROVE Valueless(ring') /\ \A f \in Feb : Valueless(up'[f])
  BY DEF Acknowledges
<1>1. ring \in Seq(Packet) /\ up \in [Feb -> Seq(Packet)] /\ Valueless(<<>>)
  BY DEF TypeOK, Valueless
<1>2. ASSUME NEW c \in Caller, StartAny(c)
      PROVE  Valueless(ring') /\ \A f \in Feb : Valueless(up'[f])
  <2>1. UNCHANGED <<ring, up>> /\ (~upset \/ Quiet)
    BY <1>2 DEF StartAny, Start
  <2>. QED
    BY <1>1, <2>1 DEF Acknowledges, Quiet, NoAnswers
<1>3. CASE ~\E c \in Caller : StartAny(c)
  <2>1. ~upset /\ Valueless(ring) /\ \A f \in Feb : Valueless(up[f])
    BY <1>3, UpsetStays DEF Acknowledges
  <2>2. ASSUME NEW c \in Caller, Poll(c)
        PROVE  Valueless(ring') /\ \A f \in Feb : Valueless(up'[f])
    BY <1>1, <2>1, <2>2, PollLeaves
  <2>3. ASSUME NEW f \in Feb, Execute(f)
        PROVE  Valueless(ring') /\ \A g \in Feb : Valueless(up'[g])
    <3>. DEFINE x == Head(down[f])
    <3>1. x \in Command
      BY <2>3 DEF Execute, TypeOK
    <3>2. CASE x.op = "BC"
      BY <2>1, <2>3, <3>2 DEF Execute
    <3>3. CASE x.op # "BC"
      <4>1. PICK v \in {reg[f], 0} :
              up' = [up EXCEPT ![f] = Append(@, Answer(x, v))] /\ (x.op = "WR" => v = 0) /\ ring' = ring
        BY <2>3, <3>3 DEF Execute, Command, Ops
      <4>2. Answer(x, v) \in Packet /\ (Answer(x, v).op = "WR" => Answer(x, v).val = 0)
        <5>1. v \in 0..MaxCalls
          BY Zeros DEF TypeOK
        <5>. QED
          BY <3>1, <3>3, <4>1, <5>1, AnswerType DEF Answer
      <4>. QED
        BY <1>1, <2>1, <4>1, <4>2, ValuelessQueues
    <3>. QED
      BY <3>2, <3>3
  <2>4. ASSUME NEW f \in Feb, Receive(f)
        PROVE  Valueless(ring') /\ \A g \in Feb : Valueless(up'[g])
    <3>1. up[f] # <<>> /\ ring' = Append(ring, Head(up[f])) /\ up' = [up EXCEPT ![f] = Tail(@)]
      BY <2>4 DEF Receive
    <3>2. Head(up[f]) \in Packet
      BY <1>1, <3>1
    <3>. QED
      BY <1>1, <2>1, <3>1, <3>2, ValuelessQueues
  <2>5. CASE Send \/ UNCHANGED vars \/ \E c \in Caller : Busy(c)
    BY <2>1, <2>5 DEF Send, Busy, firmware, vars
  <2>6. CASE Restart \/ \E f \in Feb : LoseDown(f) \/ LoseUp(f) \/ Damage(f)
    BY <2>6 DEF Restart, LoseDown, LoseUp, Damage, Fault
  <2>. QED
    BY <1>3, <2>2, <2>3, <2>4, <2>5, <2>6 DEF Next
<1>. QED
  BY <1>2, <1>3

-----------------------------------------------------------------------------
(* The steps, one by one. *)

LEMMA MapInit == Init => Transaction!Init
  BY DEF Init, Transaction!Init, Phase, Posts, Value, Todo, Executed, Nothing

\* Without an open call there is no answer on its way to one.
LEMMA MapStart ==
  ASSUME TypeOK, IInv, NEW c \in Caller, StartAny(c), ~upset'
  PROVE  \E x \in Command : Transaction!Call(c, x)
<1>1. PICK op \in Ops, f \in Feb, n \in ReadLen \cup {0} : Start(c, op, f, n)
  BY DEF StartAny, Ops
<1>. DEFINE x == [op |-> op, feb |-> f, len |-> n, id |-> serial + 1]
<1>2. /\ lock = NoOne /\ main = <<>> /\ main' = <<x>> /\ cmd' = [cmd EXCEPT ![c] = x]
      /\ pc' = [pc EXCEPT ![c] = IF op = "RD" THEN "reply" ELSE "done"]
      /\ last' = [last EXCEPT ![c] = Nothing]
      /\ UNCHANGED <<down, up, ring, reg>> /\ (~upset \/ Quiet)
  BY <1>1 DEF Start
<1>3. x \in Command
  <2>1. serial + 1 \in 0..MaxCalls
    BY <1>1, BoundAssumption DEF Start, TypeOK
  <2>. QED
    BY <2>1 DEF Command
<1>. HIDE DEF x
<1>4. \A d \in Caller : pc[d] = "idle" /\ ~Executed(d)
  BY <1>2, CallerAssumption DEF IInv, Mutex, Executed
<1>5. NoneExpected /\ NoAnswers
  BY <1>2 DEF IInv, OnePlace, Quiet
<1>6. \A d \in Caller : ~Executed(d)'
  <2>1. x.feb \in Feb /\ TypeOK'
    BY <1>1, <1>3, TypeStart DEF Command
  <2>2. \A d \in Caller : cmd'[d].feb \in Feb
    BY <2>1 DEF TypeOK, Command
  <2>3. \A d \in Caller : Answers(d)' = <<>>
    BY <1>2, <1>5, <2>2 DEF NoAnswers, Answers
  <2>. QED
    BY <2>3 DEF Executed
<1>7. \A f1 \in Feb : Todo(f1) = down[f1]
  BY <1>2 DEF TypeOK, Todo
<1>8. \A f1 \in Feb : Todo(f1)' = IF x.op = "BC" \/ f1 = x.feb THEN Append(down[f1], x) ELSE down[f1]
  <2>. SUFFICES ASSUME NEW f1 \in Feb
       PROVE  Todo(f1)' = IF x.op = "BC" \/ f1 = x.feb THEN Append(down[f1], x) ELSE down[f1]
    OBVIOUS
  <2>1. down[f1] \in Seq(Command) /\ main' # <<>> /\ main'[1] = x
    BY <1>2 DEF TypeOK
  <2>2. f1 \in Target(x) <=> x.op = "BC" \/ f1 = x.feb
    BY DEF Target
  <2>3. Todo(f1)' = down[f1] \o (IF f1 \in Target(x) THEN <<x>> ELSE <<>>)
    BY <1>2, <2>1 DEF Todo
  <2>4. down[f1] \o <<x>> = Append(down[f1], x) /\ down[f1] \o <<>> = down[f1]
    BY <1>3, <2>1
  <2>. QED
    BY <2>2, <2>3, <2>4
<1>9. Phase' = [Phase EXCEPT ![c] = "called"] /\ \A d \in Caller : Phase[d] = "idle"
  BY <1>2, <1>4, <1>6 DEF Phase, TypeOK
<1>10. Value' = [Value EXCEPT ![c] = 0]
  BY <1>2, <1>4, <1>6 DEF Value, Nothing, TypeOK
<1>11. Posts' = [f1 \in Feb |-> IF x.op = "BC" \/ f1 = x.feb THEN Append(Posts[f1], x) ELSE Posts[f1]]
  BY <1>7, <1>8 DEF Posts
<1>12. \A f1 \in Feb : \A i \in 1..Len(Posts[f1]) : Posts[f1][i].op = "BC"
  BY <1>5, <1>7 DEF NoneExpected, OnlyBroadcasts, Posts
<1>13. upset' = FALSE
  BY <1>1 DEF Start, TypeOK
<1>. QED
  BY <1>2, <1>3, <1>9, <1>10, <1>11, <1>12, <1>13 DEF Transaction!Call

\* The place of a single answer.
LEMMA OneAnswer ==
  ASSUME TypeOK, IInv, ~upset, NEW c \in Caller, pc[c] # "idle"
  PROVE  /\ lock = c /\ cmd[c].feb \in Feb
         /\ ring \in Seq(Packet) /\ up[cmd[c].feb] \in Seq(Packet)
         /\ Executed(c) <=> OnLink(c) \/ InRing(c)
         /\ OnLink(c) => Answers(c) = up[cmd[c].feb] /\ Len(Answers(c)) = 1
         /\ InRing(c) => Answers(c) = ring /\ Len(Answers(c)) = 1
<1>1. lock = c /\ cmd[c].feb \in Feb /\ ring \in Seq(Packet) /\ up[cmd[c].feb] \in Seq(Packet)
  BY DEF IInv, Mutex, TypeOK, Command
<1>2. Sending(c) \/ Broadcast(c) \/ Posted(c) \/ OnLink(c) \/ InRing(c)
  BY <1>1 DEF IInv, OnePlace
<1>3. OnLink(c) => Answers(c) = up[cmd[c].feb] /\ Len(Answers(c)) = 1
  BY <1>1 DEF OnLink, Answers
<1>4. InRing(c) => Answers(c) = ring /\ Len(Answers(c)) = 1
  BY <1>1, ConcatEmptySeq DEF InRing, Answers
<1>5. NoAnswers => Answers(c) = <<>>
  BY <1>1 DEF NoAnswers, Answers
<1>6. OnLink(c) \/ InRing(c) => Executed(c)
  BY <1>3, <1>4 DEF OnLink, InRing, Executed
<1>. QED
  BY <1>1, <1>2, <1>3, <1>4, <1>5, <1>6 DEF Sending, Broadcast, Posted, Executed

LEMMA MapReturn ==
  ASSUME TypeOK, IInv, TInv, ~upset, NEW c \in Caller, pc[c] # "idle",
         NEW ans, NEW v, Return(c, "OK", ans, v), ~upset',
         UNCHANGED <<main, down, up, reg>>, ring' = <<>> \/ ring' = ring,
         \/ InRing(c) /\ v = ring[1].val
         \/ Broadcast(c) /\ v = 0
  PROVE  Transaction!Return(c)
<1>1. /\ pc' = [pc EXCEPT ![c] = "idle"] /\ cmd' = [cmd EXCEPT ![c] = NoCommand]
      /\ lock' = NoOne
      /\ \A d \in Caller : last'[d].val = IF d = c THEN v ELSE last[d].val
  BY DEF Return, TypeOK
<1>2. lock = c /\ (\A d \in Caller \ {c} : pc[d] = "idle") /\ (\A d \in Caller : pc'[d] = "idle")
  BY <1>1 DEF IInv, Mutex, TypeOK
<1>3. \A d \in Caller : ~Executed(d)' /\ (d # c => ~Executed(d))
  BY <1>2 DEF Executed
<1>4. Phase' = [Phase EXCEPT ![c] = "idle"]
  BY <1>1, <1>2, <1>3 DEF Phase, TypeOK
<1>5. Phase[c] = "executed" \/ (Phase[c] = "called" /\ cmd[c].op = "BC")
  BY OneAnswer DEF Broadcast, Phase, Executed
<1>6. Value' = Value
  <2>1. CASE InRing(c) /\ v = ring[1].val
    <3>1. Executed(c) /\ Answers(c) = ring /\ Len(ring) = 1 /\ Head(ring) = ring[1]
      BY <2>1, OneAnswer, SingleEntry
    <3>. QED
      BY <1>1, <1>3, <2>1, <3>1 DEF Value
  <2>2. CASE Broadcast(c) /\ v = 0
    <3>1. ~Executed(c) /\ last[c].val = 0
      BY <2>2 DEF Broadcast, Executed, TInv, Fresh, Nothing
    <3>. QED
      BY <1>1, <1>3, <2>2, <3>1 DEF Value
  <2>. QED
    BY <2>1, <2>2
<1>7. Posts' = Posts
  BY DEF Posts, Todo
<1>8. upset' = upset
  BY DEF TypeOK, Return
<1>. QED
  BY <1>1, <1>4, <1>5, <1>6, <1>7, <1>8 DEF Transaction!Return

LEMMA MapStutter ==
  ASSUME UNCHANGED <<cmd, pc, last, down, main, up, ring, reg, upset>>
  PROVE  UNCHANGED Transaction!vars
  BY DEF Transaction!vars, Phase, Posts, Value, Executed, Answers, Todo

\* A waiting call that does not give up goes on.
LEMMA AgainOrUpset ==
  ASSUME TypeOK, NEW c \in Caller, PollAgain(c), ~upset'
  PROVE  UNCHANGED <<lock, pc, cmd, last, upset>>
  BY DEF PollAgain, Return

LEMMA MapPollDone ==
  ASSUME TypeOK, IInv, TInv, ~upset, NEW c \in Caller, PollDone(c), ~upset'
  PROVE  Transaction!Return(c) \/ UNCHANGED Transaction!vars
<1>1. pc[c] = "done" /\ UNCHANGED <<main, down, up, ring, reg>>
  BY DEF PollDone, firmware
<1>2. CASE main # <<>>
  <2>1. UNCHANGED <<pc, cmd, last, upset>>
    BY <1>2, AgainOrUpset DEF PollDone
  <2>. QED
    BY <1>1, <2>1, MapStutter
<1>3. CASE main = <<>> /\ cmd[c].op = "BC"
  <2>1. Return(c, "OK", 0, 0)
    BY <1>3 DEF PollDone
  <2>2. Broadcast(c)
    <3>1. lock = c
      BY <1>1 DEF IInv, Mutex
    <3>. QED
      BY <1>3, <3>1 DEF IInv, OnePlace, Sending, Posted, OnLink, InRing
  <2>. QED
    BY <1>1, <2>1, <2>2, MapReturn
<1>4. CASE main = <<>> /\ cmd[c].op # "BC"
  <2>1. pc' = [pc EXCEPT ![c] = "ack"] /\ UNCHANGED <<cmd, last, upset>>
    BY <1>4 DEF PollDone
  <2>2. \A d \in Caller : (pc'[d] = "idle") = (pc[d] = "idle")
    BY <1>1, <2>1 DEF TypeOK
  <2>3. \A d \in Caller : Executed(d)' = Executed(d) /\ Answers(d)' = Answers(d)
    BY <1>1, <2>1, <2>2 DEF Executed, Answers
  <2>. QED
    BY <1>1, <2>1, <2>2, <2>3 DEF Transaction!vars, Phase, Posts, Value, Todo
<1>. QED
  BY <1>2, <1>3, <1>4

LEMMA MapPollAck ==
  ASSUME TypeOK, IInv, TInv, ~upset, NEW c \in Caller, PollAck(c), ~upset'
  PROVE  Transaction!Return(c) \/ UNCHANGED Transaction!vars
<1>1. PICK n \in 0..Len(ring) :
        /\ Parses(n)
        /\ ring' \in Rests(n)
        /\ IF Retval(n) > 0 /\ Head(Fetched(n)).op = "WR"
           THEN Return(c, IF Head(Fetched(n)).form = "good" THEN "OK" ELSE "BAD_PACKET",
                       Head(Fetched(n)).id, 0)
           ELSE PollAgain(c)
  BY DEF PollAck
<1>2. pc[c] = "ack" /\ cmd[c].op = "WR" /\ UNCHANGED <<main, down, up, reg>>
  BY DEF PollAck, IInv, Waiting
<1>3. ring' = <<>>
  <2>1. Rests(n) = {<<>>}
    BY <1>1, <1>2, PollSees
  <2>. QED
    BY <1>1, <2>1
<1>4. CASE Retval(n) > 0 /\ Head(Fetched(n)).op = "WR"
  <2>1. AnswersTo(Head(Fetched(n)), cmd[c]) /\ ring # <<>>
    <3>1. ring = <<>> => n = 0
      BY DEF TypeOK
    <3>2. ring # <<>>
      BY <1>1, <1>4, <3>1 DEF Retval
    <3>. QED
      BY <1>1, <1>2, <1>4, <3>2, PollSees
  <2>2. Return(c, "OK", Head(Fetched(n)).id, 0)
    BY <1>1, <1>4, <2>1 DEF AnswersTo
  <2>3. InRing(c)
    <3>1. lock = c
      BY <1>2 DEF IInv, Mutex
    <3>. QED
      BY <2>1, <3>1 DEF IInv, OnePlace, Sending, Broadcast, Posted, OnLink, NoAnswers
  <2>4. ring[1].val = 0
    BY <1>2, <2>3 DEF InRing, AnswersTo, TInv, Acknowledges, Valueless
  <2>. QED
    BY <1>2, <1>3, <2>2, <2>3, <2>4, MapReturn
<1>5. CASE ~(Retval(n) > 0 /\ Head(Fetched(n)).op = "WR")
  <2>1. UNCHANGED <<pc, cmd, last, upset>>
    BY <1>1, <1>5, AgainOrUpset
  <2>2. ring = <<>>
    BY <1>1, <1>2, <1>5, PollSees DEF AnswersTo
  <2>. QED
    BY <1>2, <1>3, <2>1, <2>2, MapStutter
<1>. QED
  BY <1>4, <1>5

LEMMA MapPollReply ==
  ASSUME TypeOK, IInv, TInv, ~upset, NEW c \in Caller, PollReply(c), ~upset'
  PROVE  Transaction!Return(c) \/ UNCHANGED Transaction!vars
<1>1. PICK n \in 0..Len(ring) :
        /\ Parses(n)
        /\ \/ Retval(n) = 0 /\ PollAgain(c) /\ UNCHANGED <<ring, up>>
           \/ Retval(n) < 0
           \/ Retval(n) > 0 /\ TakeReply(c, Head(Fetched(n)), Drop(ring, n))
  BY DEF PollReply
<1>2. pc[c] = "reply" /\ cmd[c].op = "RD"
  BY DEF PollReply, IInv, Waiting
<1>3. UNCHANGED <<main, down, up, reg>> /\ (ring' = <<>> \/ ring' = ring)
  BY PollLeaves DEF Poll
<1>4. CASE Retval(n) = 0 /\ PollAgain(c) /\ UNCHANGED <<ring, up>>
  <2>1. UNCHANGED <<pc, cmd, last, upset>>
    BY <1>4, AgainOrUpset
  <2>. QED
    BY <1>3, <1>4, <2>1, MapStutter
<1>5. CASE Retval(n) > 0 /\ TakeReply(c, Head(Fetched(n)), Drop(ring, n))
  <2>1. AnswersTo(Head(Fetched(n)), cmd[c]) /\ ring # <<>>
    <3>1. ring = <<>> => n = 0
      BY DEF TypeOK
    <3>2. ring # <<>>
      BY <1>1, <1>5, <3>1 DEF Retval
    <3>. QED
      BY <1>1, <1>2, <1>5, <3>2, PollSees
  <2>2. Return(c, "OK", Head(Fetched(n)).id, Head(Fetched(n)).val)
    BY <1>2, <1>5, <2>1 DEF TakeReply, AnswersTo
  <2>3. InRing(c) /\ deque = <<>>
    <3>1. lock = c
      BY <1>2 DEF IInv, Mutex
    <3>. QED
      BY <2>1, <3>1 DEF IInv, OnePlace, Sending, Broadcast, Posted, OnLink, NoAnswers
  <2>4. Head(Fetched(n)) = ring[1]
    BY <1>1, <2>3, ParseOne DEF InRing, AnswersTo
  <2>. QED
    BY <1>2, <1>3, <2>2, <2>3, <2>4, MapReturn
<1>6. ~(Retval(n) < 0)
  BY <1>1, <1>2, PollSees
<1>. QED
  BY <1>1, <1>4, <1>5, <1>6

LEMMA MapSend ==
  ASSUME TypeOK, Send
  PROVE  UNCHANGED Transaction!vars
<1>1. /\ main # <<>> /\ main' = <<>> /\ UNCHANGED <<pc, cmd, last, up, ring, reg, upset>>
      /\ down' = [f \in Feb |-> IF f \in Target(main[1])
                                THEN Append(down[f], main[1]) ELSE down[f]]
  BY DEF Send, software
<1>2. main \in Seq(Command) /\ Len(main) = 1 /\ main[1] \in Command
  <2>1. main \in Seq(Command) /\ Len(main) <= 1 /\ main # <<>>
    BY <1>1 DEF TypeOK
  <2>. QED
    BY <2>1, OneEntry
<1>3. \A f \in Feb : Todo(f)' = Todo(f)
  <2>. SUFFICES ASSUME NEW f \in Feb PROVE Todo(f)' = Todo(f)
    OBVIOUS
  <2>1. down[f] \in Seq(Command)
    BY DEF TypeOK
  <2>2. main = <<main[1]>>
    BY <1>2
  <2>3. Append(down[f], main[1]) = down[f] \o main
    BY <1>2, <2>1, <2>2, AppendIsConcat
  <2>4. Append(down[f], main[1]) \o <<>> = Append(down[f], main[1]) /\ down[f] \o <<>> = down[f]
    BY <1>2, <2>1
  <2>. QED
    BY <1>1, <2>3, <2>4 DEF Todo
<1>4. UNCHANGED <<Phase, Value>>
  BY <1>1 DEF Phase, Value, Executed, Answers
<1>. QED
  BY <1>1, <1>3, <1>4 DEF Transaction!vars, Posts

LEMMA QueueFront ==
  ASSUME NEW s \in Seq(Command), s # <<>>, NEW t \in Seq(Command)
  PROVE  s \o t # <<>> /\ Head(s \o t) = Head(s) /\ Tail(s \o t) = Tail(s) \o t
<1>1. /\ s \o t \in Seq(Command) /\ Len(s \o t) = Len(s) + Len(t) /\ Len(s) > 0
      /\ \A i \in 1..Len(s)+Len(t) : (s \o t)[i] = IF i <= Len(s) THEN s[i] ELSE t[i - Len(s)]
  BY ConcatProperties, EmptySeq
<1>2. Head(s \o t) = Head(s) /\ s \o t # <<>>
  BY <1>1
<1>3. /\ Tail(s) \in Seq(Command) /\ Len(Tail(s)) = Len(s) - 1
      /\ \A i \in 1..Len(s)-1 : Tail(s)[i] = s[i+1]
  BY HeadTailProperties
<1>4. /\ Tail(s \o t) \in Seq(Command) /\ Len(Tail(s \o t)) = Len(s) + Len(t) - 1
      /\ \A i \in 1..Len(s)+Len(t)-1 : Tail(s \o t)[i] = (s \o t)[i+1]
  BY <1>1, HeadTailProperties
<1>5. /\ Tail(s) \o t \in Seq(Command) /\ Len(Tail(s) \o t) = Len(s) - 1 + Len(t)
      /\ \A i \in 1..Len(s)+Len(t)-1 :
           (Tail(s) \o t)[i] = IF i <= Len(s) - 1 THEN Tail(s)[i] ELSE t[i - (Len(s) - 1)]
  BY <1>3, ConcatProperties
<1>6. \A i \in 1..Len(s)+Len(t)-1 : Tail(s \o t)[i] = (Tail(s) \o t)[i]
  <2>. TAKE i \in 1..Len(s)+Len(t)-1
  <2>1. CASE i <= Len(s) - 1
    BY <1>1, <1>3, <1>4, <1>5, <2>1
  <2>2. CASE ~(i <= Len(s) - 1)
    <3>1. i + 1 - Len(s) = i - (Len(s) - 1) /\ i + 1 \in 1..Len(s)+Len(t) /\ ~(i + 1 <= Len(s))
      BY <1>1, <2>2
    <3>. QED
      BY <1>1, <1>4, <1>5, <2>2, <3>1
  <2>. QED
    BY <2>1, <2>2
<1>7. Tail(s \o t) = Tail(s) \o t
  BY <1>4, <1>5, <1>6, SeqEqual
<1>. QED
  BY <1>2, <1>7

LEMMA MapExecute ==
  ASSUME TypeOK, IInv, TInv, ~upset, NEW f \in Feb, Execute(f)
  PROVE  Transaction!ExecuteBroadcast(f) \/ \E c \in Caller : Transaction!Execute(f, c)
<1>. DEFINE q == down[f]
            x == Head(q)
            v == IF x.op = "RD" THEN reg[f] ELSE x.id
            a == Answer(x, IF x.op = "RD" THEN v ELSE 0)
            m == IF main # <<>> /\ f \in Target(main[1]) THEN main ELSE <<>>
<1>1. /\ q # <<>> /\ down' = [down EXCEPT ![f] = Tail(q)] /\ reg' = [reg EXCEPT ![f] = v]
      /\ up' = IF x.op = "BC" THEN up ELSE [up EXCEPT ![f] = Append(up[f], a)]
      /\ UNCHANGED <<lock, pc, cmd, last, main, ring, upset>>
  BY DEF Execute, software
<1>2. q \in Seq(Command) /\ x = q[1] /\ x \in Command /\ m \in Seq(Command)
  BY <1>1, EmptySeq DEF TypeOK
<1>3. Posts[f] = q \o m
  BY DEF Posts, Todo
<1>4. Posts[f] # <<>> /\ Head(Posts[f]) = x /\ Tail(Posts[f]) = Tail(q) \o m
  BY <1>1, <1>2, <1>3, QueueFront
<1>5. Posts' = [Posts EXCEPT ![f] = Tail(Posts[f])]
  <2>1. \A g \in Feb : Todo(g)' = IF g = f THEN Tail(q) \o m ELSE Todo(g)
    BY <1>1 DEF Todo, TypeOK
  <2>. QED
    BY <1>4, <2>1 DEF Posts
<1>6. CASE x.op = "BC"
  <2>1. UNCHANGED <<Phase, Value>>
    BY <1>1, <1>6 DEF Phase, Value, Executed, Answers
  <2>2. reg' = [reg EXCEPT ![f] = Head(Posts[f]).id]
    BY <1>1, <1>4, <1>6
  <2>. QED
    BY <1>1, <1>4, <1>5, <1>6, <2>1, <2>2 DEF Transaction!ExecuteBroadcast
<1>7. CASE x.op # "BC"
  <2>0. ~NoneExpected
    BY <1>1, <1>2, <1>7, EmptySeq DEF NoneExpected, OnlyBroadcasts
  <2>1. PICK c \in Caller : lock = c /\ Posted(c)
    BY <2>0 DEF IInv, OnePlace, TypeOK, Sending, Broadcast, OnLink, InRing
  <2>2. cmd[c] = x /\ f = cmd[c].feb /\ cmd[c].op # "BC" /\ pc[c] # "idle" /\ NoAnswers /\ main = <<>>
    <3>1. f = cmd[c].feb
      BY <1>1, <1>2, <1>7, <2>1, EmptySeq DEF Posted, OnlyBroadcasts
    <3>2. Len(q) = 1
      <4>1. ~(Len(q) > 1)
        <5>1. Len(q) > 1 => 1 \in 1..Len(q)-1
          BY <1>2
        <5>. QED
          BY <1>2, <1>7, <2>1, <3>1, <5>1 DEF Posted
      <4>. QED
        BY <1>1, <1>2, <4>1, TailOfBroadcasts
    <3>. QED
      BY <1>2, <2>1, <3>1, <3>2 DEF Posted, IInv, Mutex
  <2>3. \A d \in Caller : d # c => pc[d] = "idle"
    BY <2>1 DEF IInv, Mutex
  <2>4. \A d \in Caller : ~Executed(d)
    <3>1. Answers(c) = <<>>
      BY <2>2 DEF Answers, NoAnswers
    <3>. QED
      BY <2>3, <3>1 DEF Executed
  <2>5. Executed(c)' /\ Head(Answers(c)') = a /\ \A d \in Caller : d # c => ~Executed(d)'
    <3>1. up'[f] = Append(<<>>, a) /\ ring' = <<>>
      <4>1. up \in [Feb -> Seq(Packet)] /\ up[f] = <<>> /\ ring = <<>>
        BY <2>2 DEF NoAnswers, TypeOK
      <4>2. up' = [up EXCEPT ![f] = Append(up[f], a)] /\ ring' = ring
        BY <1>1, <1>7
      <4>. HIDE DEF a
      <4>. QED
        BY <4>1, <4>2
    <3>2. Answers(c)' = Append(<<>>, a) \o <<>>
      <4>1. cmd'[c].feb = f
        BY <1>1, <2>2
      <4>. HIDE DEF a
      <4>. QED
        BY <3>1, <4>1 DEF Answers
    <3>3. pc'[c] # "idle" /\ cmd'[c].op # "BC" /\ \A d \in Caller : d # c => pc'[d] = "idle"
      BY <1>1, <2>2, <2>3
    <3>. HIDE DEF a
    <3>4. Append(<<>>, a) \o <<>> # <<>> /\ Head(Append(<<>>, a) \o <<>>) = a
      OBVIOUS
    <3>. QED
      BY <3>2, <3>3, <3>4 DEF Executed
  <2>6. Phase[c] = "called" /\ Phase' = [Phase EXCEPT ![c] = "executed"]
    BY <1>1, <2>2, <2>4, <2>5 DEF Phase
  <2>7. last[c].val = 0
    BY <2>2 DEF TInv, Fresh, Nothing
  <2>8. Value' = [Value EXCEPT ![c] = a.val] /\ Value[c] = 0
    BY <1>1, <2>4, <2>5, <2>7 DEF Value
  <2>9. CASE cmd[c].op = "WR"
    <3>1. a.val = 0 /\ Value' = Value /\ reg' = [reg EXCEPT ![f] = cmd[c].id]
      BY <1>1, <2>2, <2>8, <2>9 DEF Answer, Value
    <3>. QED
      BY <1>1, <1>4, <1>5, <2>2, <2>6, <2>9, <3>1 DEF Transaction!Execute
  <2>10. CASE cmd[c].op # "WR"
    <3>1. x.op = "RD"
      BY <1>2, <2>2, <2>10 DEF Command, Ops
    <3>2. a.val = reg[f] /\ reg' = reg
      BY <1>1, <3>1 DEF Answer, TypeOK
    <3>. QED
      BY <1>1, <1>4, <1>5, <2>2, <2>6, <2>8, <2>10, <3>2 DEF Transaction!Execute
  <2>. QED
    BY <2>9, <2>10
<1>. QED
  BY <1>6, <1>7

\* The answer changes its place, not its content.
LEMMA MapReceive ==
  ASSUME TypeOK, IInv, ~upset, NEW f \in Feb, Receive(f)
  PROVE  UNCHANGED Transaction!vars
<1>1. /\ up[f] # <<>> /\ ring' = Append(ring, Head(up[f]))
      /\ up' = [up EXCEPT ![f] = Tail(@)]
      /\ UNCHANGED <<lock, pc, cmd, last, main, down, reg, upset>>
  BY DEF Receive, software
<1>2. PICK c \in Caller : lock = c /\ OnLink(c)
  BY <1>1 DEF IInv, OnePlace, TypeOK, NoAnswers, Sending, Broadcast, Posted, InRing
<1>3. f = cmd[c].feb /\ up[f] \in Seq(Packet) /\ Len(up[f]) = 1 /\ ring = <<>>
  BY <1>1, <1>2 DEF OnLink, TypeOK
<1>4. up[f] = <<Head(up[f])>> /\ Tail(up[f]) = <<>>
  BY <1>3, SingleEntry
<1>5. pc[c] # "idle" /\ \A d \in Caller : d # c => pc[d] = "idle"
  BY <1>2 DEF IInv, Mutex
<1>6. Answers(c) = up[f]
  BY <1>2, <1>3, <1>5, OneAnswer
<1>7. Answers(c)' = up[f]
  <2>1. up'[f] = <<>>
    BY <1>1, <1>4 DEF TypeOK
  <2>2. ring' = up[f]
    <3>1. Append(<<>>, Head(up[f])) = <<Head(up[f])>>
      OBVIOUS
    <3>. QED
      BY <1>1, <1>3, <1>4, <3>1
  <2>. QED
    BY <1>1, <1>3, <2>1, <2>2 DEF Answers
<1>8. \A d \in Caller : Executed(d)' = Executed(d) /\ (Executed(d) => Answers(d)' = Answers(d))
  BY <1>1, <1>5, <1>6, <1>7 DEF Executed
<1>9. Phase' = Phase /\ Value' = Value
  BY <1>1, <1>8 DEF Phase, Value
<1>10. Posts' = Posts
  BY <1>1 DEF Posts, Todo
<1>. QED
  BY <1>1, <1>9, <1>10 DEF Transaction!vars

\* A call does not find SC main busy while the promise holds.
LEMMA NeverBusy ==
  ASSUME TypeOK, IInv, ~upset, NEW c \in Caller
  PROVE  ~Busy(c)
  BY DEF Busy, IInv, OnePlace

LEMMA MapNext ==
  ASSUME TypeOK, IInv, TInv, [Next]_vars
  PROVE  Transaction!Next \/ UNCHANGED Transaction!vars
<1>1. CASE upset'
  <2>1. upset' = TRUE
    BY <1>1, TypeNext DEF TypeOK
  <2>. QED
    BY <2>1 DEF Transaction!Next, Transaction!Fail
<1>2. CASE ~upset' /\ \E c \in Caller : StartAny(c)
  BY <1>2, MapStart DEF Transaction!Next
<1>3. CASE ~upset' /\ ~\E c \in Caller : StartAny(c)
  <2>1. ~upset
    BY <1>3, UpsetStays
  <2>2. ASSUME NEW c \in Caller, Poll(c)
        PROVE  Transaction!Return(c) \/ UNCHANGED Transaction!vars
    BY <1>3, <2>1, <2>2, MapPollDone, MapPollAck, MapPollReply DEF Poll
  <2>3. ASSUME NEW f \in Feb, Execute(f)
        PROVE  Transaction!ExecuteBroadcast(f) \/ \E c \in Caller : Transaction!Execute(f, c)
    BY <2>1, <2>3, MapExecute
  <2>4. CASE Send \/ \E f \in Feb : Receive(f)
    BY <2>1, <2>4, MapSend, MapReceive
  <2>5. ~(Restart \/ \E f \in Feb : LoseDown(f) \/ LoseUp(f) \/ Damage(f))
    BY <1>3 DEF Restart, LoseDown, LoseUp, Damage, Fault
  <2>6. CASE UNCHANGED vars
    BY <2>6, MapStutter DEF vars
  <2>. QED
    BY <1>3, <2>1, <2>2, <2>3, <2>4, <2>5, <2>6, NeverBusy DEF Next, Transaction!Next
<1>. QED
  BY <1>1, <1>2, <1>3

\* What the mapping needs, besides IInv.
LEMMA MappingInvariant == Spec => []TInv
<1>1. Init => TInv
  BY DEF Init, TInv, Fresh, Acknowledges, Valueless
<1>2. TypeOK /\ IInv /\ TInv /\ [Next]_vars => TInv'
  BY FreshNext, AcknowledgesNext DEF TInv
<1>. QED
  BY <1>1, <1>2, TypeCorrect, Invariance, PTL DEF Spec

\* FEB_write, FEB_read and FEB_broadcast, with SC main, the links, SC secondary and
\* the RO memory under them, implement one transaction at a time: each call that
\* returns OK was executed by its board once, in order, before it returned, and a
\* read returns what the register held then; a fault or a timeout suspends that.
THEOREM TransactionImplemented == Spec => ImplementsTransaction
<1>1. Init => Transaction!Init
  BY MapInit
<1>2. TypeOK /\ IInv /\ TInv /\ [Next]_vars => [Transaction!Next]_(Transaction!vars)
  BY MapNext
<1>. QED
  BY <1>1, <1>2, TypeCorrect, Invariance, MappingInvariant, PTL
     DEF Spec, ImplementsTransaction, Transaction!Spec

=============================================================================
