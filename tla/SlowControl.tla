---------------------------- MODULE SlowControl ----------------------------
(***************************************************************************)
(* The slow-control path between a frontend program and the frontend       *)
(* boards (FEBs), at the granularity of packets:                           *)
(*                                                                         *)
(*   FEB_write / FEB_read  --RW memory-->  SC main  --links-->  FEB        *)
(*          ^                                                    |         *)
(*          +--- sc_packet_deque <-- RO memory <-- SC secondary -+         *)
(*                                                                         *)
(* Callers run FEBSlowcontrolInterface::FEB_write, FEB_read and            *)
(* FEB_broadcast under sc_mutex. SC main takes one command at a time and   *)
(* queues it on the links; the FEBs (not part of the repository) execute   *)
(* commands in link order and answer; SC secondary appends each complete   *)
(* answer to the RO memory ring, from where FEBsc_read_packets moves it to *)
(* the deque. Nothing in an answer tells which call it belongs to: id is a *)
(* history variable that only the properties read.                         *)
(***************************************************************************)
EXTENDS Integers, Sequences

CONSTANTS
  Caller,     \* program threads that use one FEBSlowcontrolInterface
  NoOne,      \* sc_mutex is free
  Feb,        \* frontend boards
  ReadLen,    \* lengths a caller may read
  MaxPolls,   \* iterations of each polling loop (1000 in the source)
  MaxCalls,   \* bound: calls that start a command
  MaxFaults   \* bound: lost or damaged packets and frontend restarts

ASSUME CallerAssumption == NoOne \notin Caller
ASSUME FebAssumption == Feb # {}
ASSUME LenAssumption == ReadLen \subseteq Nat \ {0}
ASSUME BoundAssumption == MaxCalls \in Nat /\ MaxFaults \in Nat
ASSUME PollsAssumption == MaxPolls \in Nat \ {0}

VARIABLES
  lock,    \* owner of sc_mutex
  pc,      \* where each caller is inside FEB_write / FEB_read
  cmd,     \* the command of the call in progress
  polls,   \* its loop counter "count"
  last,    \* what each caller's latest call returned
  serial,  \* history: number of commands started
  main,    \* SC main: <<>> while idle (o_done = 1), else <<its command>>
  down,    \* SC main FIFO and link towards each FEB
  up,      \* link from each FEB and its FIFO inside SC secondary
  cut,     \* FEBs whose FIFO in SC secondary starts with a headless rest
  ring,    \* complete packets in the RO memory not yet parsed
  deque,   \* sc_packet_deque
  reg,     \* history: id of the last write each FEB executed
  faults,  \* history: faults so far
  upset    \* history: a fault, or a call that gave up, since all was quiet

software == <<lock, pc, cmd, polls, last, deque>>
firmware == <<main, down, up, cut, ring>>
vars == <<lock, pc, cmd, polls, last, serial, main, down, up, cut, ring,
          deque, reg, faults, upset>>

-----------------------------------------------------------------------------
Ops == {"WR", "RD", "BC"}

\* BC is a write with the broadcast id or a non-zero MSTR_bar: no answer.
Command == [op : Ops, feb : Feb, len : ReadLen \cup {0}, id : 0..MaxCalls]
NoCommand == [op |-> "WR", feb |-> CHOOSE f \in Feb : TRUE, len |-> 0, id |-> 0]

\* A packet as the software sees it. form: "good", "bad" (Good() or
\* IsResponse() fails) or "broken" (the parser returns -1 on it).
Packet == [op : {"WR", "RD"}, form : {"good", "bad", "broken"},
           len : ReadLen \cup {0}, id : 0..MaxCalls, val : 0..MaxCalls]

Answer(x, v) == [op |-> x.op, form |-> "good", len |-> x.len,
                 id |-> x.id, val |-> v]

Codes == {"OK", "FPGA_BUSY", "FPGA_TIMEOUT", "BAD_PACKET", "WRONG_SIZE"}
Nothing == [code |-> "none", op |-> "WR", id |-> 0, answer |-> 0, val |-> 0,
            upset |-> FALSE]
Outcome == [code : Codes \cup {"none"}, op : Ops, id : 0..MaxCalls,
            answer : 0..MaxCalls, val : 0..MaxCalls, upset : BOOLEAN]

\* The first n elements are gone.
Drop(s, n) == SubSeq(s, n + 1, Len(s))

Init ==
  /\ lock = NoOne
  /\ pc = [c \in Caller |-> "idle"]
  /\ cmd = [c \in Caller |-> NoCommand]
  /\ polls = [c \in Caller |-> 0]
  /\ last = [c \in Caller |-> Nothing]
  /\ serial = 0
  /\ main = <<>>
  /\ down = [f \in Feb |-> <<>>]
  /\ up = [f \in Feb |-> <<>>]
  /\ cut = {}
  /\ ring = <<>>
  /\ deque = <<>>
  /\ reg = [f \in Feb |-> 0]
  /\ faults = 0
  /\ upset = FALSE

-----------------------------------------------------------------------------
(***************************************************************************)
(* FEB_write, FEB_read, FEB_broadcast. The argument checks in front of the *)
(* lock change nothing and are left out.                                   *)
(***************************************************************************)

\* Mutant: the link mask is always the broadcast mask.
TargetAll(x) == Feb
Target(x) == IF x.op = "BC" THEN Feb ELSE {x.feb}

\* No board is about to answer, and no answer is anywhere.
OnlyBroadcasts(s) == \A i \in 1..Len(s) : s[i].op = "BC"
NoneExpected == \A f \in Feb : OnlyBroadcasts(down[f])
NoAnswers == (\A f \in Feb : up[f] = <<>>) /\ ring = <<>>
Quiet == NoneExpected /\ NoAnswers /\ deque = <<>>

\* lock_guard, the busy check, the command in RW memory and the 0 -> 1
\* transition of SC_MAIN_ENABLE. FEB_read does not wait for done.
Start(c, op, f, n) ==
  LET x == [op |-> op, feb |-> f, len |-> n, id |-> serial + 1] IN
  /\ pc[c] = "idle" /\ lock = NoOne
  /\ main = <<>>
  /\ serial < MaxCalls
  /\ lock' = c
  /\ pc' = [pc EXCEPT ![c] = IF op = "RD" THEN "reply" ELSE "done"]
  /\ cmd' = [cmd EXCEPT ![c] = x]
  /\ polls' = [polls EXCEPT ![c] = 0]
  /\ last' = [last EXCEPT ![c] = Nothing]
  /\ serial' = serial + 1
  /\ main' = <<x>>
  /\ upset' = (upset /\ ~Quiet)
  /\ UNCHANGED <<down, up, cut, ring, deque, reg, faults>>

\* SC_MAIN_DONE is 0 at the check: FPGA_BUSY, and the guard unlocks.
Busy(c) ==
  /\ pc[c] = "idle" /\ lock = NoOne
  /\ main # <<>>
  /\ last' = [last EXCEPT ![c] = [Nothing EXCEPT !.code = "FPGA_BUSY",
                                                    !.upset = upset]]
  /\ UNCHANGED <<lock, pc, cmd, polls, serial, deque, firmware, reg, faults, upset>>

\* The call of c ends; the lock guard releases sc_mutex.
Return(c, code, ans, v) ==
  /\ upset' = (upset \/ code = "FPGA_TIMEOUT")
  /\ lock' = NoOne
  /\ pc' = [pc EXCEPT ![c] = "idle"]
  /\ cmd' = [cmd EXCEPT ![c] = NoCommand]
  /\ polls' = [polls EXCEPT ![c] = 0]
  /\ last' = [last EXCEPT ![c] = [code |-> code, op |-> cmd[c].op,
                                  id |-> cmd[c].id, answer |-> ans, val |-> v,
                                  upset |-> upset']]

\* Mutants: the loop counter is never compared, or never incremented.
PollAgainNoLimit(c) ==
  polls' = [polls EXCEPT ![c] = @ + 1] /\ UNCHANGED <<lock, pc, cmd, last, upset>>
PollAgainNoCount(c) == UNCHANGED <<lock, pc, cmd, polls, last, upset>>

\* One more iteration without success: the loop goes on, or gives up.
PollAgain(c) ==
  IF polls[c] + 1 < MaxPolls
  THEN /\ polls' = [polls EXCEPT ![c] = @ + 1]
       /\ UNCHANGED <<lock, pc, cmd, last, upset>>
  ELSE Return(c, "FPGA_TIMEOUT", 0, 0)

\* Mutants: a broadcast does not wait for done; a write does not wait until SC
\* main is done; a write returns OK once it is sent.
PollDoneEarly(c) ==
  /\ pc[c] = "done"
  /\ IF cmd[c].op = "BC" THEN Return(c, "OK", 0, 0)
     ELSE /\ main = <<>> /\ pc' = [pc EXCEPT ![c] = "ack"]
          /\ UNCHANGED <<lock, cmd, polls, last, upset>>
  /\ UNCHANGED <<serial, deque, firmware, reg, faults>>
PollDoneSkip(c) ==
  /\ pc[c] = "done"
  /\ IF cmd[c].op = "BC" THEN main = <<>> /\ Return(c, "OK", 0, 0)
     ELSE /\ pc' = [pc EXCEPT ![c] = "ack"]
          /\ UNCHANGED <<lock, cmd, polls, last, upset>>
  /\ UNCHANGED <<serial, deque, firmware, reg, faults>>
PollDoneNoAck(c) ==
  /\ pc[c] = "done"
  /\ IF main # <<>> THEN PollAgain(c) ELSE Return(c, "OK", 0, 0)
  /\ UNCHANGED <<serial, deque, firmware, reg, faults>>

\* FEB_write: poll SC_MAIN_DONE. A broadcast returns as soon as it is sent.
PollDone(c) ==
  /\ pc[c] = "done"
  /\ IF main # <<>>
     THEN PollAgain(c)
     ELSE IF cmd[c].op = "BC"
          THEN Return(c, "OK", 0, 0)
          ELSE /\ pc' = [pc EXCEPT ![c] = "ack"]
               /\ polls' = [polls EXCEPT ![c] = 0]
               /\ UNCHANGED <<lock, cmd, last, upset>>
  /\ UNCHANGED <<serial, deque, firmware, reg, faults>>

\* FEBsc_read_packets parses n packets, all up to the first broken one.
Parses(n) == /\ \A i \in 1..n : ring[i].form # "broken"
             /\ n < Len(ring) => ring[n + 1].form = "broken"

\* Mutant: m_FEBsc_rmem_addr is not advanced.
RestsStay(n) == {ring}

\* What it leaves in the ring, the deque after it, and its return value: -1 on a
\* broken packet, even if good ones came before it. m_FEBsc_rmem_addr is then
\* inside the broken packet, or behind it if only the trailer was wrong.
Rests(n) == {Drop(ring, n)} \cup (IF n < Len(ring) THEN {Drop(ring, n + 1)} ELSE {})
Fetched(n) == deque \o SubSeq(ring, 1, n)
Retval(n) == IF n < Len(ring) THEN -1 ELSE n

\* FEB_write: one iteration of the acknowledge loop. A read answer in front is
\* dropped; -1 counts as "nothing yet".
PollAck(c) ==
  /\ pc[c] = "ack"
  /\ \E n \in 0..Len(ring) :
       /\ Parses(n)
       /\ ring' \in Rests(n)
       /\ IF Retval(n) > 0 /\ Head(Fetched(n)).op = "WR"
          THEN /\ Return(c, IF Head(Fetched(n)).form = "good" THEN "OK" ELSE "BAD_PACKET",
                         Head(Fetched(n)).id, 0)
               /\ deque' = Tail(Fetched(n))
          ELSE /\ deque' = IF Retval(n) > 0 THEN Tail(Fetched(n)) ELSE Fetched(n)
               /\ PollAgain(c)
  /\ UNCHANGED <<serial, main, down, up, cut, reg, faults>>

\* FEBsc_resetSecondary: read pointer 0, FIFOs and RO memory cleared. Answers
\* still on a link survive; one that is just arriving loses its head (h), and
\* SC secondary never serves that link again before its next reset. The deque
\* is not touched.
ResetSecondary ==
  /\ ring' = <<>>
  /\ \E k \in [Feb -> 0..MaxCalls], h \in SUBSET Feb :
       /\ \A f \in Feb : k[f] <= Len(up[f])
       /\ \A f \in h : k[f] > 0
       /\ up' = [f \in Feb |-> Drop(up[f], k[f])]
       /\ cut' = h

\* FEB_read, the packet p in front of the deque: the checks behind the loop.
TakeReply(c, p, rest) ==
  \/ /\ p.op = "RD" /\ p.form = "good" /\ p.len = cmd[c].len
     /\ Return(c, "OK", p.id, p.val)
     /\ ring' = rest
     /\ UNCHANGED <<up, cut>>
  \/ /\ p.op = "RD" /\ (p.form # "good" \/ p.len # cmd[c].len)
     /\ Return(c, IF p.form # "good" THEN "BAD_PACKET" ELSE "WRONG_SIZE", p.id, 0)
     /\ ResetSecondary
  \/ /\ p.op = "WR"
     /\ Return(c, "BAD_PACKET", p.id, 0)
     /\ ring' = rest
     /\ UNCHANGED <<up, cut>>

\* FEB_read: one iteration of the reply loop.
PollReply(c) ==
  /\ pc[c] = "reply"
  /\ \E n \in 0..Len(ring) :
       /\ Parses(n)
       /\ \/ /\ Retval(n) = 0
             /\ PollAgain(c)
             /\ UNCHANGED <<deque, ring, up, cut>>
          \/ /\ Retval(n) < 0
             /\ Return(c, "BAD_PACKET", 0, 0)
             /\ deque' = Fetched(n)
             /\ ResetSecondary
          \/ /\ Retval(n) > 0
             /\ deque' = Tail(Fetched(n))
             /\ TakeReply(c, Head(Fetched(n)), Drop(ring, n))
  /\ UNCHANGED <<serial, main, down, reg, faults>>

-----------------------------------------------------------------------------
(***************************************************************************)
(* Firmware and frontend boards.                                           *)
(***************************************************************************)

\* SC main has put the whole command into its FIFO and is idle again.
Send ==
  /\ main # <<>>
  /\ main' = <<>>
  /\ down' = [f \in Feb |-> IF f \in Target(main[1])
                            THEN Append(down[f], main[1]) ELSE down[f]]
  /\ UNCHANGED <<software, serial, up, cut, ring, reg, faults, upset>>

\* External: a FEB executes its oldest command and answers, except to BC.
Execute(f) ==
  LET x == Head(down[f])
      v == IF x.op = "RD" THEN reg[f] ELSE x.id IN
  /\ down[f] # <<>>
  /\ down' = [down EXCEPT ![f] = Tail(@)]
  /\ reg' = [reg EXCEPT ![f] = v]
  /\ up' = IF x.op = "BC" THEN up
           ELSE [up EXCEPT ![f] = Append(@, Answer(x, IF x.op = "RD" THEN v ELSE 0))]
  /\ UNCHANGED <<software, serial, main, cut, ring, faults, upset>>

\* SC secondary has copied a packet into RO memory and published its end.
Receive(f) ==
  /\ up[f] # <<>> /\ f \notin cut
  /\ ring' = Append(ring, Head(up[f]))
  /\ up' = [up EXCEPT ![f] = Tail(@)]
  /\ UNCHANGED <<software, serial, main, down, cut, reg, faults, upset>>

Fault == faults < MaxFaults /\ faults' = faults + 1 /\ upset' = TRUE

\* External: a command or an answer is lost on the link.
LoseDown(f) ==
  /\ Fault /\ down[f] # <<>>
  /\ down' = [down EXCEPT ![f] = Tail(@)]
  /\ UNCHANGED <<software, serial, main, up, cut, ring, reg>>

LoseUp(f) ==
  /\ Fault /\ up[f] # <<>>
  /\ up' = [up EXCEPT ![f] = Tail(@)]
  /\ UNCHANGED <<software, serial, main, down, cut, ring, reg>>

\* External: a bit error. The answer has a wrong type, length or content.
Damage(f) ==
  /\ Fault /\ up[f] # <<>>
  /\ \E p \in [op : {"WR", "RD"}, form : {"good", "bad", "broken"},
               len : ReadLen \cup {0}, id : {up[f][1].id}, val : {up[f][1].val}] :
       up' = [up EXCEPT ![f][1] = p]
  /\ UNCHANGED <<software, serial, main, down, cut, ring, reg>>

\* The frontend program dies at any point and is started again: the
\* constructor runs FEBsc_resetMain, which clears SC main and what is still in
\* its FIFO (the last j[f] commands for f), and FEBsc_resetSecondary.
Restart ==
  /\ Fault
  /\ lock' = NoOne
  /\ pc' = [c \in Caller |-> "idle"]
  /\ cmd' = [c \in Caller |-> NoCommand]
  /\ polls' = [c \in Caller |-> 0]
  /\ last' = [c \in Caller |-> Nothing]
  /\ deque' = <<>>
  /\ main' = <<>>
  /\ \E j \in [Feb -> 0..MaxCalls] :
       /\ \A f \in Feb : j[f] <= Len(down[f])
       /\ down' = [f \in Feb |-> SubSeq(down[f], 1, Len(down[f]) - j[f])]
  /\ ResetSecondary
  /\ UNCHANGED <<serial, reg>>

-----------------------------------------------------------------------------
StartAny(c) ==
  \E f \in Feb : \/ \E op \in {"WR", "BC"} : Start(c, op, f, 0)
                 \/ \E n \in ReadLen : Start(c, "RD", f, n)

Poll(c) == PollDone(c) \/ PollAck(c) \/ PollReply(c)

Next ==
  \/ \E c \in Caller : StartAny(c) \/ Busy(c) \/ Poll(c)
  \/ Send
  \/ \E f \in Feb : Execute(f) \/ Receive(f)
  \/ \E f \in Feb : LoseDown(f) \/ LoseUp(f) \/ Damage(f)
  \/ Restart

Spec == Init /\ [][Next]_vars

\* Only the callers are scheduled fairly: nothing is assumed of the firmware,
\* the links or the FEBs.
CallerFairness == \A c \in Caller : WF_vars(Poll(c))
FairSpec == Spec /\ CallerFairness

-----------------------------------------------------------------------------
TypeOK ==
  /\ lock \in Caller \cup {NoOne}
  /\ pc \in [Caller -> {"idle", "done", "ack", "reply"}]
  /\ cmd \in [Caller -> Command]
  /\ polls \in [Caller -> 0..MaxPolls-1]
  /\ last \in [Caller -> Outcome]
  /\ serial \in 0..MaxCalls
  /\ main \in Seq(Command) /\ Len(main) <= 1
  /\ down \in [Feb -> Seq(Command)]
  /\ up \in [Feb -> Seq(Packet)]
  /\ cut \subseteq Feb
  /\ ring \in Seq(Packet)
  /\ deque \in Seq(Packet)
  /\ reg \in [Feb -> 0..MaxCalls]
  /\ faults \in 0..MaxFaults
  /\ upset \in BOOLEAN

\* A write or read that starts while all is quiet, meets no fault and returns OK
\* consumed the answer to its own command, although nothing in FEB_write or
\* FEB_read compares FPGA id, address or a serial number. What happened before
\* (timeouts, stale answers, resets, restarts) does not matter.
OwnAnswer ==
  \A c \in Caller :
    ~last[c].upset /\ last[c].code = "OK" /\ last[c].op # "BC" => last[c].answer = last[c].id

\* FPGA_BUSY, BAD_PACKET and WRONG_SIZE are consequences: the first thing that
\* goes wrong after a quiet moment is a fault of the link or a timeout.
CleanOutcome ==
  \A c \in Caller : ~last[c].upset => last[c].code \in {"none", "OK"}

\* Every answer is in one place at most (link, ring, deque) and is consumed by
\* one call at most, over timeouts, resets and restarts.
AnswerOnce ==
  LET Place == [at : Feb \cup {"ring", "deque"}, n : 1..MaxCalls]
      Q(a) == CASE a = "ring" -> ring [] a = "deque" -> deque [] OTHER -> up[a]
      There == {p \in Place : p.n <= Len(Q(p.at))}
  IN /\ \A p, q \in There : Q(p.at)[p.n].id = Q(q.at)[q.n].id => p = q
     /\ \A c \in Caller, p \in There : last[c].answer # Q(p.at)[p.n].id
     /\ \A c, d \in Caller :
          last[c].answer = last[d].answer /\ last[c].answer # 0 => c = d

\* FEB_write and FEB_read always return and release sc_mutex, whatever the
\* firmware, the links and the FEBs do or fail to do.
EveryCallReturns == \A c \in Caller : (pc[c] # "idle") ~> (pc[c] = "idle")

-----------------------------------------------------------------------------
(***************************************************************************)
(* Why it holds: from a quiet moment to the next fault or timeout there is *)
(* at most one command that expects an answer, in exactly one place.       *)
(***************************************************************************)
Mutex == \A c \in Caller : pc[c] # "idle" <=> lock = c

\* Where a call is decides what kind of command it waits for.
Waiting ==
  \A c \in Caller :
    /\ pc[c] = "reply" => cmd[c].op = "RD"
    /\ pc[c] = "ack" => cmd[c].op = "WR" /\ main = <<>>
    /\ pc[c] = "done" => cmd[c].op \in {"WR", "BC"}

AnswersTo(p, x) ==
  p.op = x.op /\ p.form = "good" /\ p.len = x.len /\ p.id = x.id

Sending(c) == main = <<cmd[c]>> /\ NoneExpected /\ NoAnswers
Broadcast(c) == main = <<>> /\ cmd[c].op = "BC" /\ NoneExpected /\ NoAnswers
Posted(c) ==
  LET q == down[cmd[c].feb] IN
  /\ main = <<>> /\ cmd[c].op # "BC" /\ NoAnswers
  /\ q # <<>> /\ q[Len(q)] = cmd[c]
  /\ \A i \in 1..Len(q)-1 : q[i].op = "BC"
  /\ \A f \in Feb \ {cmd[c].feb} : OnlyBroadcasts(down[f])
OnLink(c) ==
  /\ main = <<>> /\ cmd[c].op # "BC" /\ NoneExpected /\ ring = <<>>
  /\ Len(up[cmd[c].feb]) = 1 /\ AnswersTo(up[cmd[c].feb][1], cmd[c])
  /\ \A f \in Feb \ {cmd[c].feb} : up[f] = <<>>
InRing(c) ==
  /\ main = <<>> /\ cmd[c].op # "BC" /\ NoneExpected
  /\ \A f \in Feb : up[f] = <<>>
  /\ Len(ring) = 1 /\ AnswersTo(ring[1], cmd[c])

OnePlace ==
  ~upset =>
    /\ deque = <<>>
    /\ lock = NoOne => main = <<>> /\ NoneExpected /\ NoAnswers
    /\ \A c \in Caller : lock = c =>
         Sending(c) \/ Broadcast(c) \/ Posted(c) \/ OnLink(c) \/ InRing(c)

\* The inductive invariant behind OwnAnswer and CleanOutcome.
IInv == Mutex /\ Waiting /\ OnePlace /\ OwnAnswer /\ CleanOutcome

-----------------------------------------------------------------------------
(***************************************************************************)
(* The abstract transaction this path implements.                          *)
(***************************************************************************)
Todo(f) == down[f] \o (IF main # <<>> /\ f \in Target(main[1]) THEN main ELSE <<>>)

\* The answer of the open call is on its way back.
Answers(c) == up[cmd[c].feb] \o ring
Executed(c) == pc[c] # "idle" /\ cmd[c].op # "BC" /\ Answers(c) # <<>>

Phase == [c \in Caller |-> IF pc[c] = "idle" THEN "idle" ELSE IF Executed(c) THEN "executed" ELSE "called"]
Posts == [f \in Feb |-> Todo(f)]
Value == [c \in Caller |-> IF Executed(c) THEN Head(Answers(c)).val ELSE last[c].val]

Transaction == INSTANCE FebTransaction WITH open <- cmd, phase <- Phase, todo <- Posts, got <- Value

\* From a quiet moment to the next fault or timeout, every call is one atomic
\* operation on its board: FEB_write returns OK after the board executed it,
\* FEB_read returns what the board held at some moment between call and return.
ImplementsTransaction == Transaction!Spec
=============================================================================
