------------------------- MODULE PowerSupplyProofs -------------------------
(***************************************************************************)
(* Proofs about PowerSupply, for any number of channels, requests, trips   *)
(* and late replies.                                                       *)
(***************************************************************************)
EXTENDS PowerSupply, SequenceTheorems, TLAPS

-----------------------------------------------------------------------------
(* Replies. *)

\* What ReadReply leaves in the socket, and that each reply left there counts as late.
LEMMA Leave ==
  ASSUME TypeOK, NEW reply, ReadReply(reply)
  PROVE  /\ Rest(reply) \in Seq(Replies) /\ late' \in 0..MaxLate
         /\ Len(replies) <= late + 1 => Len(Rest(reply)) <= late'
<1>. DEFINE s == replies
<1>1. s \in Seq(Replies) /\ late \in 0..MaxLate /\ MaxLate \in Nat
  BY BoundAssumption DEF TypeOK
<1>2. PICK n \in 0..Len(s) :
        /\ reply = SubSeq(s, 1, n)
        /\ IF n = Len(s) THEN late' = late ELSE late < MaxLate /\ late' = late + 1
  BY DEF ReadReply
<1>3. Len(reply) = n
  BY <1>1, <1>2
<1>4. Rest(reply) = SubSeq(s, n + 1, Len(s))
  BY <1>3 DEF Rest
<1>5. Rest(reply) \in Seq(Replies) /\ Len(Rest(reply)) = Len(s) - n
  <2>. HIDE DEF s
  <2>1. SubSeq(s, n + 1, Len(s)) \in Seq(Replies) /\ Len(SubSeq(s, n + 1, Len(s))) = Len(s) - n
    BY <1>1
  <2>. QED
    BY <2>1, <1>4
<1>6. Len(s) \in Nat
  BY <1>1
<1>. QED
  BY <1>1, <1>2, <1>5, <1>6

\* The reply to a question is the last one on the way.
LEMMA Ask ==
  ASSUME NEW s \in Seq(Replies), NEW r \in Replies
  PROVE  /\ Append(s, r) \in Seq(Replies) /\ Len(Append(s, r)) = Len(s) + 1
         /\ Append(s, r)[Len(s) + 1] = r
  OBVIOUS

LEMMA AnswerType == \A j : Answer(j) \in Replies /\ Answer(j) \in Own(j)
  BY DEF Answer, Own, Replies

-----------------------------------------------------------------------------
(* Type correctness, with the range of the channel index. *)

(* In a transaction for a channel, and around it, there is such a channel. *)
InRange ==
  \A t \in Threads :
    /\ pc[t] \in {"begin", "selected", "await", "done"} /\ job[t] # "errorQueue" => ch[t] \in Channels
    /\ pc[t] \in {"load", "store", "note"} => ch[t] \in Channels

LEMMA InitType == Init => TypeOK /\ InRange
<1>. SUFFICES ASSUME Init PROVE TypeOK /\ InRange
  OBVIOUS
<1>1. 0 \in Channels /\ NChannels - 1 \in Channels
  BY ChannelAssumption DEF Channels
<1>2. replies \in Seq(Replies)
  BY DEF Init
<1>3. Unset \in [Channels -> BOOLEAN]
  BY DEF Unset
<1>4. pc \in [Threads -> Places] /\ job \in [Threads -> Jobs] /\ ch \in [Threads -> 0..NChannels]
  BY ChannelAssumption DEF Init, Threads, Places, Jobs
<1>5. TypeOK
  BY <1>1, <1>2, <1>3, <1>4, BoundAssumption DEF Init, TypeOK, NoThread
<1>. QED
  BY <1>5 DEF Init, InRange

\* A thread that moves to another place keeps InRange if its own index is in range there.
LEMMA RangeKept ==
  ASSUME TypeOK, InRange, NEW t \in Threads, NEW p,
         pc' = [pc EXCEPT ![t] = p],
         \A u \in Threads \ {t} : job'[u] = job[u] /\ ch'[u] = ch[u],
         p \in {"begin", "selected", "await", "done"} /\ job'[t] # "errorQueue" => ch'[t] \in Channels,
         p \in {"load", "store", "note"} => ch'[t] \in Channels
  PROVE  InRange'
<1>. SUFFICES ASSUME NEW u \in Threads
     PROVE /\ pc'[u] \in {"begin", "selected", "await", "done"} /\ job'[u] # "errorQueue" => ch'[u] \in Channels
           /\ pc'[u] \in {"load", "store", "note"} => ch'[u] \in Channels
  BY DEF InRange, Channels
<1>1. pc \in [Threads -> Places]
  BY DEF TypeOK
<1>2. CASE u = t
  BY <1>1, <1>2
<1>3. CASE u # t
  BY <1>1, <1>3 DEF InRange
<1>. QED
  BY <1>2, <1>3

LEMMA TypeTransaction ==
  ASSUME TypeOK, InRange, NEW t \in Threads, Transaction(t)
  PROVE  TypeOK' /\ InRange'
<1>1. CASE Begin(t)
  <2>1. job[t] # "errorQueue" => ch[t] \in Channels
    BY <1>1 DEF Begin, InRange
  <2>2. "error" \in Replies /\ "opc" \in Replies
    BY DEF Replies
  <2>3. replies' \in Seq(Replies)
    <3>1. replies \in Seq(Replies)
      BY DEF TypeOK
    <3>2. replies' = Append(replies, "error") \/ replies' = Append(replies, "opc")
      BY <1>1 DEF Begin
    <3>. QED
      BY <3>1, <3>2, <2>2, Ask
  <2>4. sel' \in Channels /\ pc' \in [Threads -> Places]
    BY <1>1, <2>1 DEF Begin, Goto, TypeOK, Places
  <2>5. TypeOK'
    BY <1>1, <2>3, <2>4 DEF Begin, TypeOK, local, odb, flags, bounds
  <2>. QED
    <3>1. CASE Goto(t, "await")
      BY <1>1, <2>1, <2>5, <3>1, RangeKept DEF Begin, Goto
    <3>2. CASE Goto(t, "selected")
      BY <1>1, <2>1, <2>5, <3>2, RangeKept DEF Begin, Goto
    <3>. QED
      BY <1>1, <2>5, <3>1, <3>2 DEF Begin
<1>2. CASE Command(t)
  <2>1. PICK reply \in Taken :
          /\ ReadReply(reply)
          /\ IF Skipped(t)
             THEN /\ Goto(t, "done") /\ power_mutex' = NoThread
                  /\ replies' = Rest(reply) /\ UNCHANGED instrument
             ELSE /\ Goto(t, "await")
                  /\ replies' = Append(Rest(reply), Answer(job[t]))
                  /\ out' = IF job[t] = "setState" THEN [out EXCEPT ![sel] = res[t]] ELSE out
                  /\ UNCHANGED <<sel, power_mutex>>
    BY <1>2 DEF Command
  <2>2. Rest(reply) \in Seq(Replies) /\ late' \in 0..MaxLate
    BY <2>1, Leave
  <2>3. replies' \in Seq(Replies)
    BY <2>1, <2>2, AnswerType, Ask
  <2>4. sel' \in Channels /\ out' \in [Channels -> BOOLEAN] /\ power_mutex' \in Threads \cup {NoThread}
    BY <2>1 DEF TypeOK, instrument
  <2>5. pc' \in [Threads -> Places]
    BY <2>1 DEF TypeOK, Goto, Places
  <2>6. TypeOK'
    BY <1>2, <2>2, <2>3, <2>4, <2>5 DEF Command, TypeOK, local, odb, flags, bounds
  <2>7. job[t] # "errorQueue" => ch[t] \in Channels
    BY <1>2 DEF Command, InRange
  <2>. QED
    BY <1>2, <2>1, <2>6, RangeKept, <2>7 DEF Command, Goto
<1>3. CASE Finish(t)
  <2>1. PICK reply \in Taken :
       /\ ReadReply(reply)
       /\ \/ /\ job[t] = "errorQueue" /\ FALSE \in QueueEmpty(reply)
             /\ replies' = Append(Rest(reply), "error")
             /\ UNCHANGED <<pc, power_mutex, res, bad, readonlythisindex>>
          \/ /\ job[t] = "errorQueue" => TRUE \in QueueEmpty(reply)
             /\ replies' = Rest(reply) /\ power_mutex' = NoThread /\ Goto(t, "done")
             /\ IF job[t] = "readState"
                THEN \E b \in Positive(reply) : res' = [res EXCEPT ![t] = b]
                ELSE res' = res
             /\ bad' = IF job[t] \in Measurements THEN bad \/ reply = <<>> ELSE bad
             /\ readonlythisindex' = IF job[t] = "setVoltage" THEN ch[t] ELSE readonlythisindex
    BY <1>3 DEF Finish
  <2>2. Rest(reply) \in Seq(Replies) /\ late' \in 0..MaxLate
    BY <2>1, Leave
  <2>3. replies' \in Seq(Replies)
    BY <2>1, <2>2, Ask DEF Replies
  <2>4. Positive(reply) \subseteq BOOLEAN
    BY DEF Positive
  <2>5. res' \in [Threads -> BOOLEAN]
    BY <2>1, <2>4 DEF TypeOK
  <2>6. bad' \in BOOLEAN
    BY <2>1, Zenon DEF TypeOK
  <2>7. readonlythisindex' \in -1..NChannels
    <3>1. ch[t] \in 0..NChannels /\ readonlythisindex \in -1..NChannels
      BY DEF TypeOK
    <3>2. readonlythisindex' \in {readonlythisindex, ch[t]}
      BY <2>1
    <3>3. 0..NChannels \subseteq -1..NChannels
      BY ChannelAssumption
    <3>. QED
      BY <3>1, <3>2, <3>3
  <2>8. pc' \in [Threads -> Places] /\ power_mutex' \in Threads \cup {NoThread}
    BY <2>1 DEF TypeOK, Goto, Places
  <2>9. TypeOK'
    BY <1>3, <2>2, <2>3, <2>5, <2>6, <2>7, <2>8 DEF Finish, TypeOK, instrument, odb, bounds
  <2>10. job[t] # "errorQueue" => ch[t] \in Channels
    BY <1>3 DEF Finish, InRange
  <2>11. InRange'
    <3>1. CASE pc' = pc
      BY <1>3, <3>1 DEF Finish, InRange, Channels
    <3>2. CASE Goto(t, "done")
      BY <1>3, <2>10, <3>2, RangeKept DEF Finish, Goto
    <3>. QED
      BY <2>1, <3>1, <3>2
  <2>. QED
    BY <2>9, <2>11
<1>4. CASE Load(t)
  <2>1. TypeOK'
    BY <1>4 DEF Load, Goto, TypeOK, Places, instrument, odb, flags, bounds
  <2>. QED
    BY <1>4, <2>1 DEF Load, Goto, InRange, TypeOK
<1>5. CASE Store(t)
  <2>1. ch[t] \in Channels /\ ch[t] + 1 \in 0..NChannels /\ ch[t] \in 0..NChannels
    BY <1>5, ChannelAssumption DEF Store, InRange, Channels
  <2>2. pc' \in [Threads -> Places] /\ ch' \in [Threads -> 0..NChannels]
    BY <1>5, <2>1 DEF Store, At, Goto, TypeOK, Places
  <2>3. state' \in [Channels -> BOOLEAN] /\ word' \in [Threads -> [Channels -> BOOLEAN]]
    BY <1>5 DEF Store, TypeOK, Unset
  <2>4. res' \in [Threads -> BOOLEAN]
    BY <1>5 DEF Store, TypeOK, Forget
  <2>5. TypeOK'
    BY <1>5, <2>2, <2>3, <2>4 DEF Store, TypeOK, instrument, odb, flags, bounds
  <2>6. PICK p \in {"reread", "note"} : Goto(t, p) /\ (p = "note" => ch'[t] \in Channels)
    BY <1>5, <2>1 DEF Store, At, TypeOK
  <2>7. \A u \in Threads \ {t} : job'[u] = job[u] /\ ch'[u] = ch[u]
    BY <1>5 DEF Store, At, TypeOK
  <2>8. InRange'
    BY <2>6, <2>7, RangeKept DEF Goto
  <2>. QED
    BY <2>5, <2>8
<1>. QED
  BY <1>1, <1>2, <1>3, <1>4, <1>5 DEF Transaction

\* A step of thread t outside its transactions goes to a place p with a job j and an index i.
Moves(t, p, j, i) ==
  /\ pc' = [pc EXCEPT ![t] = p] /\ job' = [job EXCEPT ![t] = j] /\ ch' = [ch EXCEPT ![t] = i]

LEMMA Moved ==
  ASSUME TypeOK, InRange, NEW t \in Threads, NEW p \in Places, NEW j \in Jobs, NEW i \in 0..NChannels,
         Moves(t, p, j, i),
         p \in {"begin", "done", "load", "note"} => i \in Channels \/ (p = "begin" /\ j = "errorQueue"),
         p \notin {"selected", "await", "store"}
  PROVE  /\ pc' \in [Threads -> Places] /\ job' \in [Threads -> Jobs] /\ ch' \in [Threads -> 0..NChannels]
         /\ InRange'
<1>1. pc' \in [Threads -> Places] /\ job' \in [Threads -> Jobs] /\ ch' \in [Threads -> 0..NChannels]
  BY DEF TypeOK, Moves
<1>2. job'[t] = j /\ ch'[t] = i
  BY DEF TypeOK, Moves
<1>3. \A u \in Threads \ {t} : job'[u] = job[u] /\ ch'[u] = ch[u]
  BY DEF TypeOK, Moves
<1>. QED
  BY <1>1, <1>2, <1>3, RangeKept DEF Moves

\* A thread that keeps its job or its index moves all the same.
LEMMA Keeps ==
  ASSUME TypeOK, NEW t \in Threads
  PROVE  /\ job[t] \in Jobs /\ ch[t] \in 0..NChannels
         /\ job = [job EXCEPT ![t] = job[t]] /\ ch = [ch EXCEPT ![t] = ch[t]]
  BY DEF TypeOK

LEMMA Indices ==
  /\ Channels \subseteq 0..NChannels /\ 0 \in 0..NChannels
  /\ \A i \in Channels : i + 1 \in 0..NChannels
  /\ \A i \in 0..NChannels : i = NChannels \/ i \in Channels
  BY ChannelAssumption DEF Channels

LEMMA ReadingType == \A n \in 1..Len(Readings) : Readings[n] \in Jobs
  BY ReadingAssumption DEF Jobs

LEMMA ReaderMoves ==
  ASSUME TypeOK, InRange, Top \/ Second \/ Channel \/ Proceed \/ Note
  PROVE  \E p \in {"second", "channel", "begin", "load", "top"}, j \in Jobs, i \in 0..NChannels :
           /\ Moves(Reader, p, j, i)
           /\ p \in {"begin", "load"} => i \in Channels \/ (p = "begin" /\ j = "errorQueue")
<1>0. Reader \in Threads /\ "readState" \in Jobs /\ "errorQueue" \in Jobs
  BY DEF Reader, Threads, Jobs
<1>k. /\ job[Reader] \in Jobs /\ ch[Reader] \in 0..NChannels
      /\ job = [job EXCEPT ![Reader] = job[Reader]] /\ ch = [ch EXCEPT ![Reader] = ch[Reader]]
  BY <1>0, Keeps
<1>1. CASE Top
  BY <1>1, <1>0, <1>k, Indices DEF Top, Pass, At, Goto, Moves
<1>2. CASE Second
  BY <1>2, <1>0, <1>k, Indices DEF Second, Pass, At, Goto, Moves
<1>3. CASE Channel
  <2>1. CASE ch[Reader] = NChannels
    BY <1>3, <2>1, <1>0, <1>k DEF Channel, Start, At, Goto, Moves
  <2>2. CASE ch[Reader] # NChannels
    <3>1. ch[Reader] \in Channels /\ ch[Reader] + 1 \in 0..NChannels
      BY <1>k, <2>2, Indices
    <3>. QED
      BY <1>3, <2>2, <3>1, <1>0, <1>k DEF Channel, Start, At, Goto, Moves
  <2>. QED
    BY <2>1, <2>2
<1>4. CASE Proceed
  <2>0. job[Reader] # "errorQueue" => ch[Reader] \in Channels
    BY <1>4, <1>0 DEF Proceed, InRange
  <2>1. CASE job[Reader] = "readState" /\ state[ch[Reader]] # res[Reader] /\ Goto(Reader, "load") /\ UNCHANGED <<job, ch>>
    BY <2>0, <2>1, <1>k DEF Goto, Moves
  <2>2. CASE \E n \in 1..Len(Readings) : job[Reader] # "errorQueue" /\ Start(Reader, Readings[n], ch[Reader])
    BY <2>0, <2>2, <1>k, ReadingType DEF Start, At, Goto, Moves
  <2>3. CASE ch[Reader] \in Channels /\ At(Reader, "channel", ch[Reader] + 1) /\ UNCHANGED job
    BY <2>3, <1>k, Indices DEF At, Goto, Moves
  <2>4. CASE PassEnds
    BY <2>4, <1>0, Indices DEF PassEnds, At, Goto, Moves
  <2>5. 1 \in 1..Len(Readings) /\ Len(Readings) \in Nat /\ (\A n \in 1..Len(Readings) : Readings[n] \in Measurements)
    BY ReadingAssumption
  <2>6. Len(Readings) \in 1..Len(Readings)
    BY <2>5
  <2>7. \A m \in Measurements : m # "errorQueue"
    BY DEF Measurements
  <2>. QED
    BY <1>4, <2>0, <2>1, <2>2, <2>3, <2>4, <2>5, <2>6, <2>7 DEF Proceed
<1>5. CASE Note
  <2>1. ch[Reader] \in Channels /\ 1 \in 1..Len(Readings)
    BY <1>5, <1>0, ReadingAssumption DEF Note, InRange
  <2>. QED
    BY <1>5, <2>1, <1>k, ReadingType DEF Note, Start, At, Goto, Moves
<1>. QED
  BY <1>1, <1>2, <1>3, <1>4, <1>5

(* The steps of the main thread outside its transactions. *)
MainStep ==
  \/ SetStateChanged \/ Compare \/ Switched \/ Reread \/ Keep \/ Copy \/ Push
  \/ DemandVoltageChanged \/ Levels \/ LevelSet \/ read_power \/ StartReading

LEMMA MainMoves ==
  ASSUME TypeOK, InRange, MainStep
  PROVE  \E p \in {"idle", "compare", "begin", "reread", "load", "copy", "push", "levels", "read"},
            j \in Jobs, i \in 0..NChannels :
           Moves(Main, p, j, i) /\ (p \in {"begin", "load"} => i \in Channels)
<1>0. Main \in Threads /\ {"readState", "setState", "setVoltage"} \subseteq Jobs
  BY DEF Main, Threads, Jobs
<1>k. /\ job[Main] \in Jobs /\ ch[Main] \in 0..NChannels
      /\ job = [job EXCEPT ![Main] = job[Main]] /\ ch = [ch EXCEPT ![Main] = ch[Main]]
  BY <1>0, Keeps
<1>n. ch[Main] < NChannels => ch[Main] \in Channels
  BY <1>k, ChannelAssumption DEF Channels
<1>d. pc[Main] = "done" /\ job[Main] # "errorQueue" => ch[Main] \in Channels
  BY <1>0 DEF InRange
<1>1. CASE SetStateChanged
  BY <1>1, <1>0, <1>k, Indices DEF SetStateChanged, At, Goto, Moves
<1>2. CASE Compare
  BY <1>2, <1>0, <1>k, <1>n, Indices DEF Compare, Start, At, Goto, Moves
<1>3. CASE Switched
  BY <1>3, <1>k, <1>d, Indices DEF Switched, At, Goto, Moves
<1>4. CASE Reread
  BY <1>4, <1>0, <1>k, <1>n DEF Reread, Start, At, Goto, Moves
<1>5. CASE Keep
  BY <1>5, <1>k, <1>d DEF Keep, Goto, Moves
<1>6. CASE Copy
  BY <1>6, <1>k DEF Copy, Goto, Moves
<1>7. CASE Push
  BY <1>7, <1>0, Indices DEF Push, Done, At, Goto, Moves
<1>8. CASE DemandVoltageChanged
  BY <1>8, <1>k, Indices DEF DemandVoltageChanged, At, Goto, Moves
<1>9. CASE Levels
  <2>1. \A i \in wanted : i \in Channels
    BY DEF TypeOK
  <2>2. CASE ch[Main] \in wanted /\ Start(Main, "setVoltage", ch[Main])
    BY <2>1, <2>2, <1>0, <1>k DEF Start, At, Goto, Moves
  <2>3. CASE ch[Main] < NChannels /\ At(Main, "levels", ch[Main] + 1) /\ UNCHANGED job
    BY <2>3, <1>k, <1>n, Indices DEF At, Goto, Moves
  <2>4. CASE Done
    BY <2>4, <1>0, Indices DEF Done, At, Goto, Moves
  <2>. QED
    BY <1>9, <2>2, <2>3, <2>4 DEF Levels
<1>10. CASE LevelSet
  BY <1>10, <1>k, <1>d, Indices DEF LevelSet, At, Goto, Moves
<1>11. CASE read_power
  BY <1>11, <1>k DEF read_power, Goto, Moves
<1>12. CASE StartReading
  BY <1>12, <1>k DEF StartReading, Goto, Moves
<1>. QED
  BY <1>1, <1>2, <1>3, <1>4, <1>5, <1>6, <1>7, <1>8, <1>9, <1>10, <1>11, <1>12 DEF MainStep

\* The rest of the types, for the steps outside the transactions.
LEMMA OtherTypes ==
  ASSUME TypeOK, \/ Top \/ Second \/ Channel \/ Proceed \/ Note
                 \/ MainStep
  PROVE  /\ UNCHANGED shared
         /\ res' \in [Threads -> BOOLEAN] /\ word' \in [Threads -> [Channels -> BOOLEAN]]
         /\ pass' \in {"asked", "loop"} /\ bad' \in BOOLEAN /\ err' \in BOOLEAN
         /\ odbState' \in [Channels -> BOOLEAN] /\ odbSet' \in [Channels -> BOOLEAN]
         /\ wanted' \subseteq Channels /\ pending' \subseteq {"state", "levels"}
         /\ read' \in BOOLEAN /\ readonlythisindex' \in -1..NChannels
<1>0. -1 \in -1..NChannels
  BY ChannelAssumption
<1>1. CASE Top
  BY <1>1 DEF Top, Pass, TypeOK, local, odb, flags
<1>2. CASE Second
  BY <1>2 DEF Second, Pass, TypeOK, local, odb, flags
<1>3. CASE Channel
  BY <1>3 DEF Channel, TypeOK, odb, flags
<1>4. CASE Proceed
  <2>1. UNCHANGED <<shared, word, err, odb>>
    BY <1>4 DEF Proceed
  <2>2. (res' = res \/ Forget(Reader)) /\ ((UNCHANGED <<pass, bad, flags>>) \/ PassEnds)
    BY <1>4 DEF Proceed, PassEnds
  <2>. QED
    BY <2>1, <2>2, <1>0 DEF PassEnds, Forget, TypeOK, odb, flags
<1>5. CASE Note
  BY <1>5 DEF Note, Forget, TypeOK, flags, Reader, Threads
<1>6. CASE SetStateChanged
  BY <1>6 DEF SetStateChanged, TypeOK, flags
<1>7. CASE Compare
  <2>1. UNCHANGED <<shared, word, pass, bad, err, odb, flags>>
    BY <1>7 DEF Compare
  <2>2. ch[Main] \in 0..NChannels
    BY DEF TypeOK, Main, Threads
  <2>3. ch[Main] < NChannels => odbSet[ch[Main]] \in BOOLEAN
    BY <2>2, Indices DEF TypeOK
  <2>4. res' = res \/ (ch[Main] < NChannels /\ res' = [res EXCEPT ![Main] = odbSet[ch[Main]]])
    BY <1>7 DEF Compare
  <2>5. res' \in [Threads -> BOOLEAN]
    BY <2>3, <2>4 DEF TypeOK
  <2>. QED
    BY <2>1, <2>5 DEF TypeOK, odb, flags
<1>8. CASE Switched
  BY <1>8 DEF Switched, Forget, TypeOK, odb, flags
<1>9. CASE Reread
  BY <1>9 DEF Reread, TypeOK, local, odb, flags
<1>10. CASE Keep
  BY <1>10 DEF Keep, TypeOK, local, odb, flags
<1>11. CASE Copy
  BY <1>11 DEF Copy, TypeOK, odb, flags
<1>12. CASE Push
  BY <1>12 DEF Push, TypeOK, flags, Unset, Main, Threads
<1>13. CASE DemandVoltageChanged
  BY <1>13 DEF DemandVoltageChanged, TypeOK, local, flags
<1>14. CASE Levels
  BY <1>14 DEF Levels, TypeOK, local, flags
<1>15. CASE LevelSet
  BY <1>15 DEF LevelSet, TypeOK, local, odb, flags
<1>16. CASE read_power
  BY <1>16 DEF read_power, TypeOK, local, odb
<1>17. CASE StartReading
  BY <1>17, <1>0 DEF StartReading, TypeOK, local, odb
<1>. QED
  BY <1>1, <1>2, <1>3, <1>4, <1>5, <1>6, <1>7, <1>8, <1>9, <1>10, <1>11, <1>12, <1>13, <1>14, <1>15,
     <1>16, <1>17 DEF MainStep

LEMMA TypeNext == TypeOK /\ InRange /\ [Next]_vars => TypeOK' /\ InRange'
<1>. SUFFICES ASSUME TypeOK, InRange, [Next]_vars PROVE TypeOK' /\ InRange'
  OBVIOUS
<1>0. Reader \in Threads /\ Main \in Threads
  BY DEF Reader, Main, Threads
<1>1. CASE Transaction(Reader) \/ Transaction(Main)
  BY <1>0, <1>1, TypeTransaction
<1>2. ASSUME Top \/ Second \/ Channel \/ Proceed \/ Note \/ MainStep
      PROVE  TypeOK' /\ InRange'
  <2>1. \E t \in Threads, j \in Jobs, i \in 0..NChannels,
           p \in {"second", "channel", "begin", "load", "top", "idle", "compare", "reread", "copy",
                  "push", "levels", "read"} :
          /\ Moves(t, p, j, i)
          /\ p \in {"begin", "load"} => i \in Channels \/ (p = "begin" /\ j = "errorQueue")
    BY <1>0, <1>2, ReaderMoves, MainMoves
  <2>2. /\ pc' \in [Threads -> Places] /\ job' \in [Threads -> Jobs] /\ ch' \in [Threads -> 0..NChannels]
        /\ InRange'
    BY <2>1, Moved DEF Places
  <2>. QED
    BY <1>2, <2>2, OtherTypes DEF TypeOK, shared, instrument, bounds
<1>3. CASE Request
  <2>1. UNCHANGED <<instrument, replies, power_mutex, places, local, state, odbState, flags, trips, late>>
    BY <1>3 DEF Request
  <2>2. /\ odbSet' \in [Channels -> BOOLEAN] /\ wanted' \subseteq Channels
        /\ pending' \subseteq {"state", "levels"}
    BY <1>3 DEF Request, TypeOK
  <2>3. requests' \in 0..MaxRequests
    BY <1>3, BoundAssumption DEF Request, TypeOK
  <2>. QED
    BY <2>1, <2>2, <2>3 DEF TypeOK, InRange, Channels, instrument, places, local, flags
<1>4. CASE Trip
  <2>1. UNCHANGED <<sel, replies, power_mutex, places, local, state, odb, flags, requests, late>>
    BY <1>4 DEF Trip
  <2>2. out' \in [Channels -> BOOLEAN] /\ trips' \in 0..MaxTrips
    BY <1>4, BoundAssumption DEF Trip, TypeOK
  <2>. QED
    BY <2>1, <2>2 DEF TypeOK, InRange, Channels, places, local, odb, flags
<1>5. CASE UNCHANGED vars
  BY <1>5 DEF TypeOK, InRange, Channels, vars, instrument, places, local, odb, flags, bounds
<1>. QED
  BY <1>1, <1>2, <1>3, <1>4, <1>5 DEF Next, ReadLoop, MainContinues, MainStep, Transaction

\* The variables of the driver and of the ODB keep their types, and no index leaves
\* the channels, whatever the threads do.
THEOREM TypeCorrect == Spec => []TypeOK
<1>1. Spec => [](TypeOK /\ InRange)
  BY InitType, TypeNext, PTL DEF Spec
<1>. QED
  BY <1>1, PTL

-----------------------------------------------------------------------------
(* One transaction at a time, and what that gives. *)

Inside == {"selected", "await"}

(* A thread is between SelectChannel and the end of its lock_guard exactly *)
(* when it holds power_mutex.                                              *)
Exclusive == \A t \in Threads : pc[t] \in Inside <=> power_mutex = t

IInv == TypeOK /\ InRange /\ Exclusive /\ OwnChannel /\ InStep

LEMMA InvInit == Init => IInv
<1>. SUFFICES ASSUME Init PROVE IInv
  OBVIOUS
<1>1. Exclusive /\ OwnChannel
  BY DEF Init, Exclusive, OwnChannel, Inside, Threads, NoThread
<1>2. InStep
  BY DEF Init, InStep, Threads
<1>. QED
  BY <1>1, <1>2, InitType DEF IInv

\* A step that leaves the instrument, the socket and the mutex alone keeps the three
\* facts, if no thread goes into a transaction or out of one.
LEMMA Outside ==
  ASSUME IInv, UNCHANGED <<sel, replies, power_mutex, late>>,
         \A t \in Threads :
           \/ pc'[t] = pc[t] /\ job'[t] = job[t] /\ ch'[t] = ch[t]
           \/ pc[t] \notin Inside /\ pc'[t] \notin Inside
  PROVE  Exclusive' /\ OwnChannel' /\ InStep'
<1>1. Exclusive'
  BY DEF IInv, Exclusive
<1>2. OwnChannel'
  BY DEF IInv, OwnChannel, Inside
<1>3. InStep'
  <2>1. power_mutex' = NoThread => Len(replies') <= late'
    BY DEF IInv, InStep
  <2>2. ASSUME NEW t \in Threads, pc'[t] \in Inside
        PROVE  /\ Len(replies') \in 1..late'+1
               /\ replies'[Len(replies')] \in (IF pc'[t] = "selected" THEN {"opc"} ELSE Own(job'[t]))
    <3>1. pc[t] = pc'[t] /\ job'[t] = job[t]
      BY <2>2
    <3>. QED
      BY <2>2, <3>1 DEF IInv, InStep, Inside
  <2>. QED
    BY <2>1, <2>2 DEF InStep, Inside, Own
<1>. QED
  BY <1>1, <1>2, <1>3

\* Into or through a transaction: the thread holds the mutex afterwards, and waits for
\* the reply it has just caused.
LEMMA Within ==
  ASSUME IInv, NEW t \in Threads, NEW p \in Inside, NEW left \in Seq(Replies), NEW r \in Replies,
         pc' = [pc EXCEPT ![t] = p], power_mutex' = t, power_mutex \in {NoThread, t},
         UNCHANGED <<job, ch>>, p = "selected" => sel' = ch[t],
         late' \in Nat, Len(left) <= late', replies' = Append(left, r),
         r \in (IF p = "selected" THEN {"opc"} ELSE Own(job[t]))
  PROVE  Exclusive' /\ OwnChannel' /\ InStep'
<1>0. pc \in [Threads -> Places] /\ t # NoThread
  BY DEF IInv, TypeOK, Threads, NoThread
<1>1. \A u \in Threads \ {t} : pc[u] \notin Inside /\ pc'[u] \notin Inside
  BY <1>0 DEF IInv, Exclusive, Threads, NoThread
<1>2. pc'[t] = p
  BY <1>0
<1>3. Exclusive'
  BY <1>1, <1>2 DEF Exclusive
<1>4. OwnChannel'
  BY <1>1, <1>2 DEF OwnChannel, Inside
<1>5. /\ Len(replies') = Len(left) + 1 /\ Len(left) \in Nat
      /\ replies'[Len(replies')] = r
  BY Ask
<1>6. Len(replies') \in 1..late'+1
  BY <1>5
<1>7. InStep'
  BY <1>0, <1>1, <1>2, <1>5, <1>6 DEF InStep, Inside, Own
<1>. QED
  BY <1>3, <1>4, <1>7

\* Out of a transaction: what is left in the socket has been late.
LEMMA Out ==
  ASSUME IInv, NEW t \in Threads, pc[t] \in Inside, NEW p, p \notin Inside,
         pc' = [pc EXCEPT ![t] = p], power_mutex' = NoThread,
         Len(replies') <= late'
  PROVE  Exclusive' /\ OwnChannel' /\ InStep'
<1>0. pc \in [Threads -> Places]
  BY DEF IInv, TypeOK
<1>1. \A u \in Threads \ {t} : pc[u] \notin Inside
  BY DEF IInv, Exclusive
<1>2. \A u \in Threads : pc'[u] \notin Inside
  BY <1>0, <1>1
<1>. QED
  BY <1>2 DEF Exclusive, OwnChannel, InStep, Inside, Threads, NoThread

LEMMA InvTransaction ==
  ASSUME IInv, NEW t \in Threads, Transaction(t)
  PROVE  Exclusive' /\ OwnChannel' /\ InStep'
<1>0. /\ pc \in [Threads -> Places] /\ replies \in Seq(Replies)
      /\ late \in Nat /\ Len(replies) \in Nat /\ {"opc", "error"} \subseteq Replies
  BY BoundAssumption DEF IInv, TypeOK, Replies
<1>1. CASE Begin(t)
  <2>1. Len(replies) <= late /\ late' = late /\ UNCHANGED <<job, ch>>
    BY <1>1 DEF Begin, IInv, InStep
  <2>2. CASE job[t] = "errorQueue"
    <3>1. "error" \in Own(job[t])
      BY <2>2 DEF Own
    <3>2. /\ pc' = [pc EXCEPT ![t] = "await"] /\ replies' = Append(replies, "error")
          /\ power_mutex' = t /\ power_mutex = NoThread
      BY <1>1, <2>2 DEF Begin, Goto
    <3>. QED
      BY <1>0, <2>1, <3>1, <3>2, Within DEF Inside
  <2>3. CASE job[t] # "errorQueue"
    <3>1. /\ pc' = [pc EXCEPT ![t] = "selected"] /\ replies' = Append(replies, "opc")
          /\ power_mutex' = t /\ power_mutex = NoThread /\ sel' = ch[t]
      BY <1>1, <2>3 DEF Begin, Goto
    <3>. QED
      BY <1>0, <2>1, <3>1, Within DEF Inside
  <2>. QED
    BY <2>2, <2>3
<1>2. CASE Command(t)
  <2>1. PICK reply \in Taken :
          /\ ReadReply(reply)
          /\ IF Skipped(t)
             THEN /\ Goto(t, "done") /\ power_mutex' = NoThread
                  /\ replies' = Rest(reply) /\ UNCHANGED instrument
             ELSE /\ Goto(t, "await")
                  /\ replies' = Append(Rest(reply), Answer(job[t]))
                  /\ out' = IF job[t] = "setState" THEN [out EXCEPT ![sel] = res[t]] ELSE out
                  /\ UNCHANGED <<sel, power_mutex>>
    BY <1>2 DEF Command
  <2>2. pc[t] \in Inside /\ power_mutex = t /\ Len(replies) <= late + 1 /\ UNCHANGED <<job, ch>>
    BY <1>2, <1>0 DEF Command, IInv, InStep, Exclusive, Inside
  <2>3. Rest(reply) \in Seq(Replies) /\ Len(Rest(reply)) <= late' /\ late' \in Nat
    BY <2>1, <2>2, Leave, BoundAssumption DEF IInv
  <2>4. CASE Skipped(t)
    BY <2>1, <2>2, <2>3, <2>4, Out DEF Goto, Inside
  <2>5. CASE ~Skipped(t)
    <3>1. Answer(job[t]) \in Replies /\ Answer(job[t]) \in Own(job[t])
      BY AnswerType
    <3>2. "await" \in Inside /\ "await" # "selected"
      BY DEF Inside
    <3>3. pc' = [pc EXCEPT ![t] = "await"] /\ power_mutex' = t
      BY <2>1, <2>2, <2>5 DEF Goto
    <3>. QED
      BY <2>1, <2>2, <2>3, <2>5, <3>1, <3>2, <3>3, Within
  <2>. QED
    BY <2>4, <2>5
<1>3. CASE Finish(t)
  <2>1. PICK reply \in Taken :
       /\ ReadReply(reply)
       /\ \/ /\ job[t] = "errorQueue" /\ replies' = Append(Rest(reply), "error")
             /\ UNCHANGED <<pc, power_mutex>>
          \/ /\ replies' = Rest(reply) /\ power_mutex' = NoThread /\ Goto(t, "done")
    BY <1>3 DEF Finish
  <2>2. pc[t] \in Inside /\ power_mutex = t /\ Len(replies) <= late + 1 /\ UNCHANGED <<job, ch>>
    BY <1>3, <1>0 DEF Finish, IInv, InStep, Exclusive, Inside
  <2>3. Rest(reply) \in Seq(Replies) /\ Len(Rest(reply)) <= late' /\ late' \in Nat
    BY <2>1, <2>2, Leave, BoundAssumption DEF IInv
  <2>4. CASE /\ job[t] = "errorQueue" /\ replies' = Append(Rest(reply), "error")
             /\ UNCHANGED <<pc, power_mutex>>
    <3>1. "error" \in Own(job[t])
      BY <2>4 DEF Own
    <3>2. pc' = [pc EXCEPT ![t] = "await"] /\ "await" \in Inside /\ "await" # "selected"
      BY <1>0, <1>3, <2>4 DEF Finish, Inside
    <3>. QED
      BY <1>0, <2>2, <2>3, <2>4, <3>1, <3>2, Within
  <2>5. CASE replies' = Rest(reply) /\ power_mutex' = NoThread /\ Goto(t, "done")
    BY <2>2, <2>3, <2>5, Out DEF Goto, Inside
  <2>. QED
    BY <2>1, <2>4, <2>5
<1>4. CASE Load(t)
  <2>1. /\ pc' = [pc EXCEPT ![t] = "store"] /\ pc[t] = "load"
        /\ UNCHANGED <<sel, replies, power_mutex, job, ch, late>>
    BY <1>4 DEF Load, Goto, instrument
  <2>. QED
    BY <1>0, <2>1, Outside DEF Inside
<1>5. CASE Store(t)
  <2>1. /\ UNCHANGED <<sel, replies, power_mutex, job, late>> /\ pc[t] = "store"
        /\ \E p \in {"reread", "note"} : pc' = [pc EXCEPT ![t] = p]
        /\ \E i : ch' = [ch EXCEPT ![t] = i]
    BY <1>5 DEF Store, At, Goto, instrument
  <2>. QED
    BY <1>0, <2>1, Outside DEF Inside, IInv, TypeOK
<1>. QED
  BY <1>1, <1>2, <1>3, <1>4, <1>5 DEF Transaction

LEMMA InvNext == IInv /\ [Next]_vars => IInv'
<1>. SUFFICES ASSUME IInv, [Next]_vars PROVE IInv'
  OBVIOUS
<1>0. TypeOK' /\ InRange' /\ TypeOK /\ InRange
  BY TypeNext DEF IInv
<1>r. Reader \in Threads /\ Main \in Threads
  BY DEF Reader, Main, Threads
<1>1. CASE Transaction(Reader) \/ Transaction(Main)
  BY <1>0, <1>1, <1>r, InvTransaction DEF IInv
<1>2. ASSUME Top \/ Second \/ Channel \/ Proceed \/ Note \/ MainStep
      PROVE  Exclusive' /\ OwnChannel' /\ InStep'
  <2>1. UNCHANGED <<sel, replies, power_mutex, late>>
    BY <1>0, <1>2, OtherTypes DEF shared, instrument
  <2>2. PICK t \in Threads, j \in Jobs, i \in 0..NChannels, p \in Places :
          Moves(t, p, j, i) /\ p \notin Inside /\ pc[t] \notin Inside
    <3>1. CASE Top \/ Second \/ Channel \/ Proceed \/ Note
      <4>1. pc[Reader] \notin Inside
        BY <3>1 DEF Top, Second, Channel, Proceed, Note, Inside
      <4>. QED
        BY <1>0, <1>r, <3>1, <4>1, ReaderMoves DEF Inside, Places
    <3>2. CASE MainStep
      <4>1. pc[Main] \notin Inside
        BY <3>2 DEF MainStep, SetStateChanged, Compare, Switched, Reread, Keep, Copy, Push,
                    DemandVoltageChanged, Levels, LevelSet, read_power, StartReading, Inside
      <4>. QED
        BY <1>0, <1>r, <3>2, <4>1, MainMoves DEF Inside, Places
    <3>. QED
      BY <1>2, <3>1, <3>2
  <2>3. \A u \in Threads :
           \/ pc'[u] = pc[u] /\ job'[u] = job[u] /\ ch'[u] = ch[u]
           \/ pc[u] \notin Inside /\ pc'[u] \notin Inside
    BY <2>2, <1>0 DEF Moves, TypeOK
  <2>. QED
    BY <2>1, <2>3, Outside
<1>3. CASE Request
  <2>1. UNCHANGED <<sel, replies, power_mutex, late, pc, job, ch>>
    BY <1>3 DEF Request, instrument, places
  <2>. QED
    BY <1>0, <2>1, Outside DEF IInv
<1>4. CASE Trip
  <2>1. UNCHANGED <<sel, replies, power_mutex, late, pc, job, ch>>
    BY <1>4 DEF Trip, places
  <2>. QED
    BY <1>0, <2>1, Outside DEF IInv
<1>5. CASE UNCHANGED vars
  <2>1. UNCHANGED <<sel, replies, power_mutex, late, pc, job, ch>>
    BY <1>5 DEF vars, instrument, places
  <2>. QED
    BY <1>0, <2>1, Outside DEF IInv
<1>. QED
  BY <1>0, <1>1, <1>2, <1>3, <1>4, <1>5 DEF IInv, Next, ReadLoop, MainContinues, MainStep, Transaction

LEMMA Invariance == Spec => []IInv
  BY InvInit, InvNext, PTL DEF Spec

\* A command goes to the channel it is for: power_mutex is held from SelectChannel
\* to the command, and nothing else selects a channel.
THEOREM OwnChannelHolds == Spec => []OwnChannel
<1>1. IInv => OwnChannel
  BY DEF IInv
<1>. QED
  BY <1>1, Invariance, PTL

\* ReadReply takes everything that has arrived, so that the driver is behind the
\* instrument by no more replies than have been late.
THEOREM InStepHolds == Spec => []InStep
<1>1. IInv => InStep
  BY DEF IInv
<1>. QED
  BY <1>1, Invariance, PTL

=============================================================================
