-------------------------- MODULE RunControlProofs --------------------------
(***************************************************************************)
(* Theorems about RunControl, for any number of boards, any set of active  *)
(* boards and any bounds.                                                  *)
(***************************************************************************)
EXTENDS RunControl, SequenceTheorems, TLAPS

(* What may be left of the commands of a transition. *)
Init2 == <<"Abort Run", "Stop Reset">>
Init1 == <<"Stop Reset">>
Prepare2 == <<"Stop Reset", "Run Prepare">>
Prepare1 == <<"Run Prepare">>
Go2 == <<"Sync", "Start Run">>
Go1 == <<"Start Run">>
Cycle5 == <<"Abort Run", "Stop Reset", "Run Prepare", "Sync", "Start Run">>
Cycle4 == <<"Stop Reset", "Run Prepare", "Sync", "Start Run">>
Cycle3 == <<"Run Prepare", "Sync", "Start Run">>
End1 == <<"End Run">>
Lists == {<<>>, Init2, Init1, AbortAndPrepare, Prepare2, Prepare1, Go2, Go1, Cycle5, Cycle4, Cycle3, End1}

(* The command in the register has been sent; what remains to be sent.     *)
Heard == reset_ctl # None /\ reg_run_command = reset_ctl
Rest == IF Heard THEN Tail(todo) ELSE todo

Written ==
  /\ todo \in Lists
  /\ reset_ctl # None => todo # <<>> /\ reset_ctl = Head(todo) /\ reg_run_command \in {None, reset_ctl}

Quiet == todo = <<>> /\ reset_ctl = None /\ reg_run_command = None /\ reset_state # "rNB"

(* The run number follows "Run Prepare" before anything else is written.   *)
NumberFirst ==
  reset_state = "rNB" => \/ pc = "init" /\ Rest = <<"Abort Run", "Stop Reset">> /\ reset_ctl = None
                         \/ reset_ctl = "Run Prepare" /\ reg_run_command = "Run Prepare"

(* What the boards do when a10_reset_link has come to a state.  A board in *)
(* another state than the rest has lost its power in between and knows no  *)
(* run number.                                                             *)
AtRest == reset_state = "idle" /\ \A f \in Febs : feb_state[f] \in {"idle", "off"}
Together(s) ==
  \A f \in Febs : feb_state[f] = s \/ (feb_state[f] \in {"idle", "off"} /\ feb_run[f] = 0)
ToldNumber ==
  \/ reset_state = "rNB" /\ \A f \in Febs : feb_state[f] \in {"idle", "off"}
  \/ reset_state = "sync" /\ Together("prepared")
Synced == reset_state = "start_run" /\ Together("synced")
Running == reset_state = "end_run" /\ Together("running")
Safe == \A f \in Febs : feb_state[f] \notin {"synced", "running"}

(* The way of each transition. *)
Going ==
  \/ Rest = Go2 /\ ToldNumber
  \/ Rest = Go1 /\ Synced
  \/ Rest = <<>> /\ Running

Way ==
  /\ pc = "init" => Rest = Init2 \/ (Rest \in {Init1, <<>>} /\ AtRest)
  /\ pc = "begin" => \/ Rest = AbortAndPrepare
                     \/ Rest \in {Prepare2, Prepare1} /\ AtRest
                     \/ Rest = <<>> /\ ToldNumber
  /\ pc = "ack" => Quiet /\ ToldNumber
  /\ pc = "go" => Going
  /\ pc = "cycle" => Rest = Cycle5 \/ (Rest \in {Cycle4, Cycle3} /\ AtRest) \/ Going
  /\ pc \in {"running", "cycled"} => Quiet /\ Running
  /\ pc = "end" => (Rest = End1 /\ (Running \/ Safe)) \/ (Rest = <<>> /\ Safe)
  /\ pc = "stopped" => Quiet /\ Safe

OffKnowsNothing == \A f \in Febs : feb_state[f] = "off" => feb_run[f] = 0

(* Every number on its way has been told to its board. *)
Told ==
  \A f \in Febs :
    /\ \A i \in 1..Len(uplink[f]) : uplink[f][i] # 0 => <<f, uplink[f][i]>> \in got
    /\ listened_number[f] # 0 => <<f, listened_number[f]>> \in got

Numbers ==
  /\ RUN_NR = run_number
  /\ pc \in {"begin", "ack"} => run_number # 0
  /\ pc = "running" => inrun
  /\ inrun \/ pc = "go" => \A f \in link_active_from_odb : <<f, run_number>> \in got

IInv == TypeOK /\ Written /\ NumberFirst /\ Way /\ OffKnowsNothing /\ Told /\ Numbers

-----------------------------------------------------------------------------
LEMMA Bounds == MaxRuns \in Nat /\ 0 \in 0..MaxRuns
  BY BoundAssumption

(* The lists; no two have the same length and the same first command. *)
LEMMA Heads ==
  /\ Head(Init2) = "Abort Run" /\ Head(Init1) = "Stop Reset"
  /\ Head(AbortAndPrepare) = "Abort Run" /\ Head(Prepare2) = "Stop Reset" /\ Head(Prepare1) = "Run Prepare"
  /\ Head(Go2) = "Sync" /\ Head(Go1) = "Start Run" /\ Head(End1) = "End Run"
  /\ Head(Cycle5) = "Abort Run" /\ Head(Cycle4) = "Stop Reset" /\ Head(Cycle3) = "Run Prepare"
  BY DEF Init2, Init1, AbortAndPrepare, Prepare2, Prepare1, Go2, Go1, End1, Cycle5, Cycle4, Cycle3

(* Lists behind their first command, and the two parts of a run cycle. *)
LEMMA TailOf2 ==
  \A a, b : Tail(<<a, b>>) = <<b>>
  OBVIOUS

LEMMA TailOf3 ==
  \A a, b, c : Tail(<<a, b, c>>) = <<b, c>>
  OBVIOUS

LEMMA TailOf4 ==
  \A a, b, c, d : Tail(<<a, b, c, d>>) = <<b, c, d>>
  OBVIOUS

LEMMA TailOf5 ==
  ASSUME NEW a, NEW b, NEW c, NEW d, NEW e
  PROVE  Tail(<<a, b, c, d, e>>) = <<b, c, d, e>>
  OBVIOUS

LEMMA Tails ==
  /\ Tail(Init2) = Init1 /\ Tail(Init1) = <<>>
  /\ Tail(AbortAndPrepare) = Prepare2 /\ Tail(Prepare2) = Prepare1 /\ Tail(Prepare1) = <<>>
  /\ Tail(Go2) = Go1 /\ Tail(Go1) = <<>> /\ Tail(End1) = <<>>
  /\ Tail(Cycle5) = Cycle4 /\ Tail(Cycle4) = Cycle3 /\ Tail(Cycle3) = Go2
<1>1. Tail(Init2) = Init1
  BY TailOf2, Zenon DEF Init2, Init1
<1>2. Tail(Init1) = <<>>
  BY DEF Init1
<1>3. Tail(AbortAndPrepare) = Prepare2
  BY TailOf3, Zenon DEF AbortAndPrepare, Prepare2
<1>4. Tail(Prepare2) = Prepare1
  BY TailOf2, Zenon DEF Prepare2, Prepare1
<1>5. Tail(Prepare1) = <<>>
  BY DEF Prepare1
<1>6. Tail(Go2) = Go1
  BY TailOf2, Zenon DEF Go2, Go1
<1>7. Tail(Go1) = <<>>
  BY DEF Go1
<1>8. Tail(End1) = <<>>
  BY DEF End1
<1>9. Tail(Cycle5) = Cycle4
  <2>1. \A c, d, e : Tail(<<"Abort Run", "Stop Reset", c, d, e>>) = <<"Stop Reset", c, d, e>>
    BY TailOf5
  <2>. QED
    BY <2>1, Zenon DEF Cycle5, Cycle4
<1>10. Tail(Cycle4) = Cycle3
  BY TailOf4, Zenon DEF Cycle4, Cycle3
<1>11. Tail(Cycle3) = Go2
  BY TailOf3, Zenon DEF Cycle3, Go2
<1>. QED
  BY <1>1, <1>2, <1>3, <1>4, <1>5, <1>6, <1>7, <1>8, <1>9, <1>10, <1>11

LEMMA Lengths ==
  /\ Len(Init2) = 2 /\ Len(Init1) = 1
  /\ Len(AbortAndPrepare) = 3 /\ Len(Prepare2) = 2 /\ Len(Prepare1) = 1
  /\ Len(Go2) = 2 /\ Len(Go1) = 1 /\ Len(End1) = 1
  /\ Len(Cycle5) = 5 /\ Len(Cycle4) = 4 /\ Len(Cycle3) = 3 /\ Len(<<>>) = 0
  BY DEF Init2, Init1, AbortAndPrepare, Prepare2, Prepare1, Go2, Go1, End1, Cycle5, Cycle4, Cycle3

LEMMA ListType == Lists \subseteq Seq(Commands)
  BY DEF Lists, Commands,
    Init2, Init1, AbortAndPrepare, Prepare2, Prepare1, Go2, Go1, End1, Cycle5, Cycle4, Cycle3

LEMMA ListTails ==
  ASSUME NEW list \in Lists, list # <<>>
  PROVE  Tail(list) \in Lists /\ Head(list) \in Commands /\ Head(list) # None
  BY Heads, Tails DEF Lists, Commands, None

LEMMA Join ==
  ASSUME NEW a, NEW b, NEW c, NEW d, NEW e
  PROVE  <<a, b, c>> \o <<d, e>> = <<a, b, c, d, e>>
<1>. DEFINE S == {a, b, c, d, e}
            both == <<a, b, c>> \o <<d, e>>
            all == <<a, b, c, d, e>>
<1>1. both \in Seq(S) /\ all \in Seq(S)
  OBVIOUS
<1>2. Len(both) = 5 /\ Len(all) = 5
  OBVIOUS
<1>3. both[1] = a /\ both[2] = b /\ both[3] = c
  OBVIOUS
<1>4. both[4] = d /\ both[5] = e
  OBVIOUS
<1>5. \A i \in 1..5 : both[i] = all[i]
  <2>1. all[1] = a /\ all[2] = b /\ all[3] = c /\ all[4] = d /\ all[5] = e
    OBVIOUS
  <2>. HIDE DEF both, all
  <2>. QED
    BY <1>3, <1>4, <2>1
<1>. HIDE DEF both, all, S
<1>6. both = all
  BY <1>1, <1>2, <1>5, SeqEqual
<1>. QED
  BY <1>6 DEF both, all

LEMMA CycleList == AbortAndPrepare \o <<"Sync", "Start Run">> = Cycle5
  BY Join, Zenon DEF AbortAndPrepare, Cycle5

-----------------------------------------------------------------------------
(* What the boards do on a command, and on a run number. *)
BoardTypes ==
  /\ feb_state \in [Febs -> {"idle", "prepared", "synced", "running", "terminating", "off"}]
  /\ feb_run \in [Febs -> 0..MaxRuns]
  /\ uplink \in [Febs -> Seq(0..MaxRuns)]
  /\ got \subseteq Febs \X (0..MaxRuns)

LEMMA HearCommand ==
  ASSUME TypeOK, NEW c \in Commands, Hear(c, 0)
  PROVE  /\ BoardTypes' /\ UNCHANGED <<feb_run, uplink, got>>
         /\ feb_state' = [f \in Febs |-> After(f, c)]
<1>1. c # "number"
  BY DEF Commands
<1>2. feb_state' = [f \in Febs |-> After(f, c)]
  BY DEF Hear
<1>3. UNCHANGED <<feb_run, uplink, got>>
  BY <1>1 DEF Hear, TypeOK
<1>4. feb_state' \in [Febs -> {"idle", "prepared", "synced", "running", "terminating", "off"}]
  BY <1>2 DEF After, TypeOK
<1>. QED
  BY <1>2, <1>3, <1>4 DEF BoardTypes, TypeOK

LEMMA HearNumber ==
  ASSUME TypeOK, OffKnowsNothing, Told, NEW m \in 0..MaxRuns, Hear("number", m),
         UNCHANGED listened_number
  PROVE  BoardTypes' /\ OffKnowsNothing' /\ Told' /\ Together("prepared")'
<1>. DEFINE on == {f \in Febs : feb_state[f] # "off"}
<1>1. /\ feb_state' = [f \in Febs |-> IF f \in on THEN "prepared" ELSE "off"]
      /\ feb_run' = [f \in Febs |-> IF f \in on THEN m ELSE feb_run[f]]
      /\ uplink' = [f \in Febs |-> IF f \in on THEN Append(uplink[f], m) ELSE uplink[f]]
      /\ got' = got \cup (on \X {m})
  <2>1. {f \in Febs : "number" = "number" /\ feb_state[f] # "off"} = on
    OBVIOUS
  <2>2. ASSUME NEW f \in Febs PROVE After(f, "number") = IF f \in on THEN "prepared" ELSE "off"
    <3>1. CASE f \in on
      <4>1. feb_state[f] # "off" /\ "number" # "Abort Run"
        BY <3>1
      <4>. QED
        BY <3>1, <4>1, Zenon DEF After
    <3>2. CASE f \notin on
      BY <3>2 DEF After
    <3>. QED
      BY <3>1, <3>2
  <2>3. feb_state' = [f \in Febs |-> IF f \in on THEN "prepared" ELSE "off"]
    BY <2>2 DEF Hear
  <2>. QED
    BY <2>1, <2>3 DEF Hear
<1>2. ASSUME NEW f \in Febs
      PROVE  /\ uplink'[f] \in Seq(0..MaxRuns)
             /\ \A i \in 1..Len(uplink'[f]) : uplink'[f][i] # 0 => <<f, uplink'[f][i]>> \in got'
  <2>1. uplink[f] \in Seq(0..MaxRuns)
    BY DEF TypeOK
  <2>2. \A i \in 1..Len(uplink[f]) : uplink[f][i] # 0 => <<f, uplink[f][i]>> \in got
    BY DEF Told
  <2>3. CASE f \in on
    <3>1. uplink'[f] = Append(uplink[f], m) /\ <<f, m>> \in got'
      BY <1>1, <2>3
    <3>2. /\ uplink'[f] \in Seq(0..MaxRuns)
          /\ Len(uplink'[f]) = Len(uplink[f]) + 1
          /\ uplink'[f][Len(uplink[f]) + 1] = m
          /\ \A i \in 1..Len(uplink[f]) : uplink'[f][i] = uplink[f][i]
      BY <2>1, <3>1, AppendProperties
    <3>3. got \subseteq got'
      BY <1>1
    <3>4. ASSUME NEW i \in 1..Len(uplink'[f]) PROVE uplink'[f][i] # 0 => <<f, uplink'[f][i]>> \in got'
      <4>1. i = Len(uplink[f]) + 1 \/ i \in 1..Len(uplink[f])
        BY <2>1, <3>2
      <4>2. CASE i = Len(uplink[f]) + 1
        BY <3>1, <3>2, <4>2
      <4>3. CASE i \in 1..Len(uplink[f])
        BY <2>2, <3>2, <3>3, <4>3
      <4>. QED
        BY <4>1, <4>2, <4>3
    <3>. QED
      BY <3>2, <3>4
  <2>4. CASE f \notin on
    BY <1>1, <2>1, <2>2, <2>4
  <2>. QED
    BY <2>3, <2>4
<1>3. BoardTypes'
  <2>1. uplink' \in [Febs -> Seq(0..MaxRuns)]
    BY <1>1, <1>2
  <2>2. feb_run' \in [Febs -> 0..MaxRuns] /\ got' \subseteq Febs \X (0..MaxRuns)
    BY <1>1 DEF TypeOK
  <2>3. feb_state' \in [Febs -> {"idle", "prepared", "synced", "running", "terminating", "off"}]
    BY <1>1
  <2>. QED
    BY <2>1, <2>2, <2>3 DEF BoardTypes
<1>4. OffKnowsNothing' /\ Together("prepared")'
  BY <1>1 DEF OffKnowsNothing, Together
<1>5. Told'
  <2>1. got \subseteq got'
    BY <1>1
  <2>. QED
    BY <1>2, <2>1 DEF Told
<1>. QED
  BY <1>3, <1>4, <1>5

-----------------------------------------------------------------------------
(* The parts of the invariant, where a step leaves alone what they are     *)
(* about.                                                                  *)
LEMMA WayFrame ==
  ASSUME Way, pc' = pc, Rest' = Rest, Quiet => Quiet', AtRest => AtRest', ToldNumber => ToldNumber',
         Synced => Synced', Running => Running', Safe => Safe'
  PROVE  Way'
<1>. USE DEF Way
<1>1. Going => Going'
  BY DEF Going
<1>. QED
  BY <1>1

BoardsStay == UNCHANGED <<feb_state, feb_run, reset_state>>

LEMMA BoardsFrame ==
  ASSUME BoardsStay
  PROVE  /\ AtRest' <=> AtRest
         /\ ToldNumber' <=> ToldNumber
         /\ Synced' <=> Synced
         /\ Running' <=> Running
         /\ Safe' <=> Safe
         /\ OffKnowsNothing' <=> OffKnowsNothing
  BY DEF BoardsStay, AtRest, ToldNumber, Synced, Running, Safe, Together, OffKnowsNothing

LEMMA ToldFrame ==
  ASSUME Told, UNCHANGED <<uplink, got>>, UNCHANGED listened_number
  PROVE  Told'
  BY DEF Told

(* What an operation of the frontend finds when no command is under way. *)
LEMMA Idle ==
  ASSUME Quiet
  PROVE  Rest = <<>> /\ ~Heard
  BY DEF Quiet, Rest, Heard

LEMMA FreeIsQuiet ==
  ASSUME Written, Free
  PROVE  Quiet /\ Rest = <<>>
  BY DEF Written, Free, Processed, Quiet, Rest, Heard

(* No two of the lists are the same. *)
LEMMA Different ==
  /\ <<>> \notin {Init2, Init1, AbortAndPrepare, Prepare2, Prepare1, Go2, Go1, Cycle5, Cycle4, Cycle3, End1}
  /\ AbortAndPrepare \notin {Prepare2, Prepare1, Cycle5, Cycle4, Cycle3, Init2, Init1, Go2, Go1, End1}
  /\ Prepare2 \notin {Prepare1, Init2, Init1, Go2, Go1, End1, Cycle3}
  /\ Prepare1 \notin {Init1, Go1, End1}
  /\ Go2 \notin {Go1, Init2} /\ Go1 \notin {Init1, End1}
  /\ Cycle5 \notin {Cycle4, Cycle3, Go2, Go1} /\ Cycle4 \notin {Cycle3, Go2, Go1} /\ Cycle3 \notin {Go2, Go1}
<1>1. <<>> \notin {Init2, Init1, AbortAndPrepare, Prepare2, Prepare1, Go2, Go1, Cycle5, Cycle4, Cycle3, End1}
  BY Lengths
<1>2. AbortAndPrepare \notin {Prepare2, Prepare1, Cycle5, Cycle4, Init2, Init1, Go2, Go1, End1}
  BY Lengths
<1>3. AbortAndPrepare # Cycle3
  BY Heads
<1>4. Prepare2 \notin {Prepare1, Init1, Go1, End1, Cycle3}
  BY Lengths
<1>5. Prepare2 # Init2 /\ Prepare2 # Go2
  BY Heads
<1>6. Prepare1 # Init1 /\ Prepare1 # Go1 /\ Prepare1 # End1 /\ Go2 # Init2 /\ Go1 # Init1 /\ Go1 # End1
  BY Heads
<1>7. /\ Go2 # Go1
      /\ Cycle5 \notin {Cycle4, Cycle3, Go2, Go1} /\ Cycle4 \notin {Cycle3, Go2, Go1}
      /\ Cycle3 \notin {Go2, Go1}
  BY Lengths
<1>. QED
  BY <1>1, <1>2, <1>3, <1>4, <1>5, <1>6, <1>7

-----------------------------------------------------------------------------
(* The operations of the frontend. *)
LEMMA WriteCommandKeeps ==
  ASSUME IInv, WriteCommand
  PROVE  IInv'
<1>. USE DEF IInv, WriteCommand
<1>1. /\ reg_run_command = None /\ reset_state # "rNB" /\ ~Heard
      /\ UNCHANGED <<todo, pc, inrun, run_number, reg_run_command, reset_state>>
  BY DEF Processed, Heard, frontend, link
<1>2. Head(todo) \in Commands /\ Head(todo) # None
  BY ListTails DEF Written
<1>3. TypeOK'
  <2>1. reset_run_number' \in 0..MaxRuns
    <3>1. run_number \in 0..MaxRuns /\ reset_run_number \in 0..MaxRuns
      BY DEF TypeOK
    <3>3. 0 \in 0..MaxRuns
      BY Bounds
    <3>2. reset_run_number' \in {run_number, 0, reset_run_number}
      OBVIOUS
    <3>. QED
      BY <3>1, <3>2, <3>3
  <2>. QED
    BY <1>2, <2>1 DEF TypeOK, frontend, link, boards, listeners, bounds
<1>4. Written'
  BY <1>1 DEF Written
<1>5. NumberFirst'
  BY <1>1 DEF NumberFirst
<1>6. Rest' = Rest
  BY <1>1, <1>2 DEF Rest, Heard
<1>7. BoardsStay
  BY DEF BoardsStay, boards, link
<1>8. Way'
  BY <1>1, <1>6, <1>7, BoardsFrame, WayFrame DEF Quiet
<1>9. OffKnowsNothing' /\ Told'
  BY <1>7, BoardsFrame, ToldFrame DEF boards, listeners
<1>10. Numbers'
  BY <1>1 DEF Numbers, boards, link_active_from_odb
<1>. QED
  BY <1>3, <1>4, <1>5, <1>8, <1>9, <1>10

LEMMA ClearCommandKeeps ==
  ASSUME IInv, ClearCommand
  PROVE  IInv'
<1>. USE DEF IInv, ClearCommand
<1>1. /\ reset_state # "rNB" /\ Heard /\ ~Heard' /\ todo # <<>> /\ todo' = Tail(todo)
      /\ UNCHANGED <<pc, reg_run_command, reset_state>>
  BY DEF Processed, Heard, Written, link
<1>2. todo' \in Lists
  BY <1>1, ListTails DEF Written
<1>3. TypeOK'
  <2>1. todo' \in Seq(Commands)
    BY <1>2, ListType
  <2>. QED
    BY <2>1 DEF TypeOK, link, boards, listeners, bounds
<1>4. Written'
  BY <1>2 DEF Written
<1>5. NumberFirst'
  BY <1>1 DEF NumberFirst
<1>6. Rest' = Rest
  BY <1>1 DEF Rest
<1>7. BoardsStay
  BY DEF BoardsStay, boards, link
<1>8. Way'
  BY <1>1, <1>6, <1>7, BoardsFrame, WayFrame DEF Quiet
<1>9. OffKnowsNothing' /\ Told'
  BY <1>7, BoardsFrame, ToldFrame DEF boards, listeners
<1>10. Numbers'
  BY <1>1 DEF Numbers, boards, link_active_from_odb
<1>. QED
  BY <1>3, <1>4, <1>5, <1>8, <1>9, <1>10

LEMMA BeginOfRunKeeps ==
  ASSUME IInv, BeginOfRun
  PROVE  IInv'
<1>. USE DEF IInv, BeginOfRun
<1>1. Quiet
  BY DEF Way
<1>2. /\ Rest' = AbortAndPrepare /\ pc' = "begin" /\ reset_ctl' = None /\ reset_state' # "rNB"
      /\ reg_run_command' = None
  BY <1>1 DEF Rest, Heard, Quiet, link
<1>3. run_number \in Nat /\ run_number < MaxRuns /\ run_number + 1 \in 0..MaxRuns /\ 0 \in 0..MaxRuns
  BY Bounds DEF TypeOK
<1>4. TypeOK'
  <2>1. todo' \in Seq(Commands)
    BY ListType DEF Lists
  <2>2. /\ RUN_NR' \in 0..MaxRuns /\ run_number' \in 0..MaxRuns /\ reset_run_number' \in 0..MaxRuns
        /\ listened_number' \in [Febs -> 0..MaxRuns]
    BY <1>3 DEF TypeOK
  <2>. QED
    BY <2>1, <2>2 DEF TypeOK, link, boards, bounds
<1>5. Written' /\ NumberFirst'
  BY <1>2 DEF Written, NumberFirst, Lists
<1>6. Way'
  BY <1>2 DEF Way
<1>7. OffKnowsNothing' /\ Told'
  BY <1>3 DEF OffKnowsNothing, Told, boards
<1>8. Numbers'
  BY <1>3 DEF Numbers
<1>. QED
  BY <1>4, <1>5, <1>6, <1>7, <1>8

LEMMA PreparedKeeps ==
  ASSUME IInv, Prepared
  PROVE  IInv'
<1>. USE DEF IInv, Prepared
<1>1. Quiet /\ Rest = <<>>
  BY FreeIsQuiet
<1>2. UNCHANGED <<todo, reset_ctl, reg_run_command, reset_state, feb_state, feb_run>> /\ pc' = "ack"
  BY DEF registers, link, boards
<1>3. TypeOK'
  BY DEF TypeOK, registers, link, boards, listeners, bounds
<1>4. Written' /\ NumberFirst'
  BY <1>1, <1>2 DEF Written, NumberFirst, Quiet
<1>5. Way'
  <2>1. ToldNumber
    BY <1>1, Different DEF Way
  <2>. QED
    BY <1>1, <1>2, <2>1, BoardsFrame DEF Way, Quiet, BoardsStay
<1>6. OffKnowsNothing' /\ Told'
  BY <1>2, ToldFrame DEF OffKnowsNothing, boards, listeners
<1>7. Numbers'
  BY DEF Numbers, registers, boards
<1>. QED
  BY <1>3, <1>4, <1>5, <1>6, <1>7

LEMMA AcknowledgedKeeps ==
  ASSUME IInv, Acknowledged
  PROVE  IInv'
<1>. USE DEF IInv, Acknowledged
<1>1. Quiet /\ ToldNumber
  BY DEF Way
<1>2. UNCHANGED <<reset_ctl, reg_run_command, reset_state, feb_state, feb_run>> /\ pc' = "go" /\ todo' = Go2
  BY DEF registers, link, boards, Go2
<1>3. Rest' = Go2
  BY <1>1, <1>2 DEF Rest, Heard, Quiet
<1>4. TypeOK'
  <2>1. todo' \in Seq(Commands)
    BY <1>2, ListType DEF Lists
  <2>. QED
    BY <2>1 DEF TypeOK, registers, link, boards, listeners, bounds
<1>5. Written' /\ NumberFirst'
  BY <1>1, <1>2 DEF Written, NumberFirst, Quiet, Lists
<1>6. Way'
  <2>1. ToldNumber'
    BY <1>1, <1>2, BoardsFrame DEF BoardsStay
  <2>. QED
    BY <1>2, <1>3, <2>1 DEF Way, Going
<1>7. OffKnowsNothing' /\ Told'
  BY <1>2, ToldFrame DEF OffKnowsNothing, boards, listeners
<1>8. Numbers'
  <2>1. ASSUME NEW f \in link_active_from_odb PROVE <<f, run_number>> \in got
    <3>1. f \in Febs /\ listened_number[f] = run_number
      BY DEF runNr_ack, Numbers, TypeOK
    <3>2. run_number # 0
      BY DEF Numbers
    <3>. QED
      BY <3>1, <3>2 DEF Told
  <2>. QED
    BY <2>1 DEF Numbers, registers, boards
<1>. QED
  BY <1>4, <1>5, <1>6, <1>7, <1>8

LEMMA DeniedKeeps ==
  ASSUME IInv, Denied
  PROVE  IInv'
<1>. USE DEF IInv, Denied
<1>1. Quiet /\ ToldNumber
  BY DEF Way
<1>2. UNCHANGED <<todo, reset_ctl, reg_run_command, reset_state, feb_state, feb_run>> /\ pc' = "stopped"
  BY DEF registers, link, boards
<1>3. TypeOK'
  BY DEF TypeOK, registers, link, boards, listeners, bounds
<1>4. Written' /\ NumberFirst'
  BY <1>1, <1>2 DEF Written, NumberFirst, Quiet
<1>5. Way'
  <2>1. Safe
    BY <1>1 DEF ToldNumber, Together, Safe
  <2>. QED
    BY <1>1, <1>2, <2>1, BoardsFrame DEF Way, Quiet, BoardsStay
<1>6. OffKnowsNothing' /\ Told'
  BY <1>2, ToldFrame DEF OffKnowsNothing, boards, listeners
<1>7. Numbers'
  BY DEF Numbers, registers, boards
<1>. QED
  BY <1>3, <1>4, <1>5, <1>6, <1>7

LEMMA EndOfRunKeeps ==
  ASSUME IInv, EndOfRun
  PROVE  IInv'
<1>. USE DEF IInv, EndOfRun
<1>1. Quiet /\ (Running \/ Safe)
  BY DEF Way
<1>2. UNCHANGED <<reset_ctl, reg_run_command, reset_state, feb_state, feb_run>> /\ pc' = "end" /\ todo' = End1
  BY DEF registers, link, boards, End1
<1>3. Rest' = End1
  BY <1>1, <1>2 DEF Rest, Heard, Quiet
<1>4. TypeOK'
  <2>1. todo' \in Seq(Commands)
    BY <1>2, ListType DEF Lists
  <2>. QED
    BY <2>1 DEF TypeOK, registers, link, boards, listeners, bounds
<1>5. Written' /\ NumberFirst'
  BY <1>1, <1>2 DEF Written, NumberFirst, Quiet, Lists
<1>6. Way'
  <2>1. Running' \/ Safe'
    BY <1>1, <1>2, BoardsFrame DEF BoardsStay
  <2>. QED
    BY <1>2, <1>3, <2>1 DEF Way
<1>7. OffKnowsNothing' /\ Told'
  BY <1>2, ToldFrame DEF OffKnowsNothing, boards, listeners
<1>8. Numbers'
  BY DEF Numbers, registers, boards
<1>. QED
  BY <1>4, <1>5, <1>6, <1>7, <1>8

LEMMA RunCycleKeeps ==
  ASSUME IInv, RunCycle
  PROVE  IInv'
<1>. USE DEF IInv, RunCycle
<1>1. Quiet
  BY DEF Way
<1>2. /\ UNCHANGED <<reset_ctl, reg_run_command, reset_state, feb_state, feb_run>>
      /\ pc' = "cycle" /\ todo' = Cycle5
  BY CycleList DEF registers, link, boards
<1>3. Rest' = Cycle5
  BY <1>1, <1>2 DEF Rest, Heard, Quiet
<1>4. TypeOK'
  <2>1. todo' \in Seq(Commands)
    BY <1>2, ListType DEF Lists
  <2>2. cycles' = cycles + 1 /\ UNCHANGED <<restarts, offs>> /\ {cycles, restarts, offs} \subseteq Nat
    BY DEF TypeOK
  <2>3. {cycles', restarts', offs'} \subseteq Nat
    <3>. HIDE DEF RunCycle, IInv
    <3>. QED
      BY <2>2
  <2>. QED
    BY <1>2, <2>1, <2>3 DEF TypeOK, registers, link, boards, listeners
<1>5. Written' /\ NumberFirst'
  BY <1>1, <1>2 DEF Written, NumberFirst, Quiet, Lists
<1>6. Way'
  BY <1>2, <1>3 DEF Way
<1>7. OffKnowsNothing' /\ Told'
  BY <1>2, ToldFrame DEF OffKnowsNothing, boards, listeners
<1>8. Numbers'
  BY <1>2 DEF Numbers, registers, boards
<1>. QED
  BY <1>4, <1>5, <1>6, <1>7, <1>8

LEMMA ReturnKeeps ==
  ASSUME IInv, Return
  PROVE  IInv'
<1>. USE DEF IInv, Return
<1>1. Quiet /\ Rest = <<>>
  BY FreeIsQuiet
<1>2. UNCHANGED <<todo, run_number, reset_ctl, reg_run_command, reset_state, feb_state, feb_run>>
  BY DEF registers, link, boards
<1>3. TypeOK'
  <2>1. inrun' \in BOOLEAN /\ pc' \in {"running", "stopped", "cycled"}
    BY DEF TypeOK
  <2>. QED
    BY <2>1 DEF TypeOK, registers, link, boards, listeners, bounds
<1>4. Written' /\ NumberFirst'
  BY <1>1, <1>2 DEF Written, NumberFirst, Quiet
<1>5. Quiet' /\ (Running => Running') /\ (Safe => Safe')
  BY <1>1, <1>2, BoardsFrame DEF Quiet, BoardsStay
<1>6. Way'
  <2>1. CASE pc \in {"go", "cycle"}
    <3>1. Running /\ pc' \in {"running", "cycled"}
      BY <1>1, <2>1, Different DEF Way, Going
    <3>. QED
      BY <1>5, <3>1 DEF Way
  <2>2. CASE pc = "end"
    <3>1. Safe /\ pc' = "stopped"
      BY <1>1, <2>2, Different DEF Way
    <3>. QED
      BY <1>5, <3>1 DEF Way
  <2>3. CASE pc = "init"
    <3>1. AtRest /\ pc' = "stopped"
      BY <1>1, <2>3, Different DEF Way
    <3>2. Safe
      BY <3>1 DEF AtRest, Safe
    <3>. QED
      BY <1>5, <3>1, <3>2 DEF Way
  <2>. QED
    BY <2>1, <2>2, <2>3
<1>7. OffKnowsNothing' /\ Told'
  BY <1>2, ToldFrame DEF OffKnowsNothing, boards, listeners
<1>8. Numbers'
  BY <1>2 DEF Numbers, registers, boards
<1>. QED
  BY <1>3, <1>4, <1>6, <1>7, <1>8

LEMMA RestartKeeps ==
  ASSUME IInv, Restart
  PROVE  IInv'
<1>. USE DEF IInv, Restart
<1>1. Rest' = Init2 /\ pc' = "init" /\ todo' = Init2 /\ reset_ctl' = None
  BY DEF Rest, Heard, Init2
<1>2. TypeOK'
  <2>1. todo' \in Seq(Commands)
    BY <1>1, ListType DEF Lists
  <2>2. restarts' = restarts + 1 /\ UNCHANGED <<cycles, offs>> /\ {cycles, restarts, offs} \subseteq Nat
    BY DEF TypeOK
  <2>3. {cycles', restarts', offs'} \subseteq Nat
    <3>. HIDE DEF Restart, IInv
    <3>. QED
      BY <2>2
  <2>. QED
    BY <1>1, <2>1, <2>3 DEF TypeOK, link, boards, listeners
<1>3. Written'
  BY <1>1 DEF Written, Lists
<1>4. NumberFirst'
  BY <1>1 DEF NumberFirst, Init2
<1>5. Way'
  BY <1>1 DEF Way
<1>6. OffKnowsNothing' /\ Told'
  BY ToldFrame DEF OffKnowsNothing, boards, listeners
<1>7. Numbers'
  BY <1>1 DEF Numbers, boards
<1>. QED
  BY <1>2, <1>3, <1>4, <1>5, <1>6, <1>7

-----------------------------------------------------------------------------
(* a10_reset_link.  A command that has just been written is at an edge.    *)
LEMMA AtEdge ==
  ASSUME IInv, reset_ctl # None, reg_run_command # reset_ctl, reg_run_command' = reset_ctl,
         UNCHANGED <<pc, todo, reset_ctl>>
  PROVE  /\ reg_run_command = None /\ reset_state # "rNB" /\ reset_ctl \in Commands
         /\ Rest # <<>> /\ Rest \in Lists /\ reset_ctl = Head(Rest) /\ Rest' = Tail(Rest)
         /\ pc \in {"init", "begin", "go", "cycle", "end"}
<1>. USE DEF IInv
<1>1. todo # <<>> /\ todo \in Lists /\ reset_ctl = Head(todo) /\ reg_run_command = None
  BY DEF Written
<1>2. Rest = todo /\ Rest' = Tail(todo)
  BY <1>1 DEF Rest, Heard
<1>3. reset_state # "rNB"
  BY <1>1 DEF NumberFirst, None
<1>4. pc \in {"init", "begin", "go", "cycle", "end"}
  BY <1>1 DEF Way, Quiet, TypeOK
<1>5. reset_ctl \in Commands
  BY <1>1, ListTails
<1>. QED
  BY <1>1, <1>2, <1>3, <1>4, <1>5

LEMMA DirectWay ==
  ASSUME Way, Rest # <<>>, Rest' = Tail(Rest), pc' = pc, pc \in {"init", "begin", "go", "cycle", "end"},
         \/ Head(Rest) = "Abort Run"
         \/ Head(Rest) = "Stop Reset" /\ AtRest,
         AtRest'
  PROVE  Way'
<1>1. CASE pc = "init"
  <2>1. Rest = Init2 \/ Rest = Init1
    BY <1>1 DEF Way
  <2>2. Rest' \in {Init1, <<>>}
    BY <2>1, Tails
  <2>. QED
    BY <1>1, <2>2 DEF Way
<1>2. CASE pc = "begin"
  <2>1. Rest = AbortAndPrepare \/ Rest = Prepare2 \/ Rest = Prepare1
    BY <1>2 DEF Way
  <2>2. Rest' \in {Prepare2, Prepare1}
    BY <2>1, Heads, Tails
  <2>. QED
    BY <1>2, <2>2 DEF Way
<1>3. CASE pc = "cycle"
  <2>1. Rest = Cycle5 \/ Rest = Cycle4 \/ Rest = Cycle3 \/ Rest = Go2 \/ Rest = Go1
    BY <1>3 DEF Way, Going
  <2>2. Rest' \in {Cycle4, Cycle3}
    BY <2>1, Heads, Tails
  <2>. QED
    BY <1>3, <2>2 DEF Way
<1>4. CASE pc = "go"
  BY <1>4, Heads DEF Way, Going
<1>5. CASE pc = "end"
  BY <1>5, Heads DEF Way
<1>. QED
  BY <1>1, <1>2, <1>3, <1>4, <1>5

(* What the state of the boards is when a command comes. *)
LEMMA WayHere ==
  ASSUME Way, Rest # <<>>, pc \in {"init", "begin", "go", "cycle", "end"}
  PROVE  /\ Head(Rest) = "Stop Reset" => AtRest
         /\ Head(Rest) = "Run Prepare" =>
              AtRest /\ ((pc = "begin" /\ Rest = Prepare1) \/ (pc = "cycle" /\ Rest = Cycle3))
         /\ Head(Rest) = "Sync" => ToldNumber /\ pc \in {"go", "cycle"} /\ Rest = Go2
         /\ Head(Rest) = "Start Run" => Synced /\ pc \in {"go", "cycle"} /\ Rest = Go1
         /\ Head(Rest) = "End Run" => (Running \/ Safe) /\ pc = "end" /\ Rest = End1
<1>1. CASE pc = "init"
  BY <1>1, Heads DEF Way
<1>2. CASE pc = "begin"
  BY <1>2, Heads DEF Way
<1>3. CASE pc = "go"
  BY <1>3, Heads DEF Way, Going
<1>4. CASE pc = "cycle"
  BY <1>4, Heads DEF Way, Going
<1>5. CASE pc = "end"
  BY <1>5, Heads DEF Way
<1>. QED
  BY <1>1, <1>2, <1>3, <1>4, <1>5

(* What the clock leaves alone, and the parts that follow from that. *)
LEMMA ClockFrame ==
  ASSUME IInv, Clock
  PROVE  /\ reg_run_command' = reset_ctl
         /\ UNCHANGED <<pc, todo, inrun, run_number, RUN_NR, reset_ctl, reset_run_number>>
         /\ UNCHANGED <<listeners, time_is_zero, bounds>>
         /\ Written'
         /\ (BoardTypes' /\ reset_state' \in {"idle", "rNB", "sync", "start_run", "end_run"} => TypeOK')
         /\ (got \subseteq got' => Numbers')
<1>. USE DEF IInv
<1>1. /\ reg_run_command' = reset_ctl
      /\ UNCHANGED <<pc, todo, inrun, run_number, RUN_NR, reset_ctl, reset_run_number>>
      /\ UNCHANGED <<listeners, time_is_zero, bounds>>
  BY DEF Clock, frontend, registers
<1>2. Written'
  BY <1>1 DEF Written
<1>3. BoardTypes' /\ reset_state' \in {"idle", "rNB", "sync", "start_run", "end_run"} => TypeOK'
  BY <1>1 DEF TypeOK, BoardTypes, listeners, bounds
<1>4. got \subseteq got' => Numbers'
  BY <1>1 DEF Numbers
<1>. QED
  BY <1>1, <1>2, <1>3, <1>4

LEMMA SendDirectKeeps ==
  ASSUME IInv, Clock, SendDirect
  PROVE  IInv'
<1>. USE DEF IInv
<1>1. /\ reset_ctl # None /\ reg_run_command = None /\ reset_state' = "idle" /\ Hear(reset_ctl, 0)
      /\ reset_ctl \notin {"Run Prepare", "Sync", "Start Run", "End Run"}
  BY DEF SendDirect, Direct
<1>2. /\ Rest # <<>> /\ reset_ctl = Head(Rest) /\ Rest' = Tail(Rest) /\ reset_ctl \in Commands
      /\ pc' = pc /\ pc \in {"init", "begin", "go", "cycle", "end"}
  BY <1>1, ClockFrame, AtEdge
<1>3. /\ BoardTypes' /\ UNCHANGED <<feb_run, uplink, got>>
      /\ feb_state' = [f \in Febs |-> After(f, reset_ctl)]
  BY <1>1, <1>2, HearCommand
<1>4. reset_ctl = "Abort Run" \/ reset_ctl = "Stop Reset"
  BY <1>1, <1>2 DEF Commands
<1>5. AtRest'
  <2>1. CASE reset_ctl = "Abort Run"
    BY <1>1, <1>3, <2>1 DEF AtRest, After
  <2>2. CASE reset_ctl = "Stop Reset"
    BY <1>1, <1>2, <1>3, <2>2, WayHere DEF AtRest, After
  <2>. QED
    BY <1>4, <2>1, <2>2
<1>6. Way'
  BY <1>2, <1>4, <1>5, WayHere, DirectWay
<1>7. TypeOK' /\ Written' /\ Numbers'
  BY <1>1, <1>3, ClockFrame
<1>8. NumberFirst'
  BY <1>1 DEF NumberFirst
<1>9. OffKnowsNothing'
  BY <1>3 DEF OffKnowsNothing, After, TypeOK
<1>10. Told'
  BY <1>3, ClockFrame, ToldFrame DEF listeners
<1>. QED
  BY <1>6, <1>7, <1>8, <1>9, <1>10

LEMMA SendNumberKeeps ==
  ASSUME IInv, Clock, SendNumber
  PROVE  IInv'
<1>. USE DEF IInv
<1>1. reset_state = "rNB" /\ reset_state' = "sync" /\ Hear("number", reset_run_number)
  BY DEF SendNumber
<1>2. /\ reg_run_command' = reset_ctl /\ reset_run_number \in 0..MaxRuns
      /\ UNCHANGED <<pc, todo, reset_ctl, listened_number>>
  BY ClockFrame DEF TypeOK, listeners
<1>3. BoardTypes' /\ OffKnowsNothing' /\ Told' /\ Together("prepared")'
  BY <1>1, <1>2, HearNumber
<1>4. Rest' = Rest
  BY <1>1, <1>2 DEF NumberFirst, Rest, Heard
<1>5. Way'
  <2>1. ToldNumber'
    BY <1>1, <1>3 DEF ToldNumber
  <2>2. Safe'
    BY <1>3 DEF Together, Safe
  <2>. QED
    BY <1>1, <1>2, <1>4, <2>1, <2>2, WayFrame DEF Quiet, AtRest, Synced, Running
<1>6. TypeOK' /\ Written'
  BY <1>1, <1>3, ClockFrame
<1>7. Numbers'
  BY <1>1, ClockFrame DEF Hear
<1>8. NumberFirst'
  BY <1>1 DEF NumberFirst
<1>. QED
  BY <1>3, <1>5, <1>6, <1>7, <1>8

LEMMA StepKeeps ==
  ASSUME IInv, Clock,
         NEW state \in {"idle", "sync", "start_run", "end_run"},
         NEW command \in {"Run Prepare", "Sync", "Start Run", "End Run"},
         NEW next \in {"rNB", "start_run", "end_run", "idle"},
         <<state, command, next>> \in
           {<<"idle", "Run Prepare", "rNB">>, <<"sync", "Sync", "start_run">>,
            <<"start_run", "Start Run", "end_run">>, <<"end_run", "End Run", "idle">>},
         Step(state, command, next)
  PROVE  IInv'
<1>. USE DEF IInv
<1>1. /\ reset_ctl = command /\ reg_run_command = None /\ reset_state = state /\ reset_state' = next
      /\ Hear(command, 0) /\ command \in Commands /\ command # None
  BY DEF Step, Edge, Commands, None
<1>2. /\ Rest # <<>> /\ command = Head(Rest) /\ Rest' = Tail(Rest)
      /\ pc' = pc /\ pc \in {"init", "begin", "go", "cycle", "end"}
      /\ reg_run_command' = command /\ reset_ctl' = command
  BY <1>1, ClockFrame, AtEdge
<1>3. /\ BoardTypes' /\ UNCHANGED <<feb_run, uplink, got>>
      /\ feb_state' = [f \in Febs |-> After(f, command)]
  BY <1>1, HearCommand
<1>4. Way'
  <2>1. CASE command = "Run Prepare"
    <3>1. next = "rNB" /\ AtRest
      BY <1>2, <2>1, WayHere
    <3>2. ToldNumber'
      BY <1>1, <1>3, <2>1, <3>1 DEF AtRest, ToldNumber, After
    <3>3. (pc = "begin" /\ Rest' = <<>>) \/ (pc = "cycle" /\ Rest' = Go2)
      BY <1>2, <2>1, WayHere, Tails
    <3>. QED
      BY <1>2, <3>2, <3>3 DEF Way, Going
  <2>2. CASE command = "Sync"
    <3>1. state = "sync" /\ next = "start_run" /\ ToldNumber
      BY <1>2, <2>2, WayHere
    <3>2. Synced'
      BY <1>1, <1>3, <2>2, <3>1 DEF ToldNumber, Together, Synced, After
    <3>3. pc \in {"go", "cycle"} /\ Rest' = Go1
      BY <1>2, <2>2, WayHere, Tails
    <3>. QED
      BY <1>2, <3>2, <3>3 DEF Way, Going
  <2>3. CASE command = "Start Run"
    <3>1. next = "end_run" /\ Synced
      BY <1>2, <2>3, WayHere
    <3>2. Running'
      BY <1>1, <1>3, <2>3, <3>1 DEF Synced, Together, Running, After
    <3>3. pc \in {"go", "cycle"} /\ Rest' = <<>>
      BY <1>2, <2>3, WayHere, Tails
    <3>. QED
      BY <1>2, <3>2, <3>3 DEF Way, Going
  <2>4. CASE command = "End Run"
    <3>1. Running \/ Safe
      BY <1>2, <2>4, WayHere
    <3>2. Safe'
      BY <1>1, <1>3, <2>4, <3>1 DEF Running, Together, Safe, After
    <3>3. pc = "end" /\ Rest' = <<>>
      BY <1>2, <2>4, WayHere, Tails
    <3>. QED
      BY <1>2, <3>2, <3>3 DEF Way
  <2>. QED
    BY <2>1, <2>2, <2>3, <2>4
<1>5. TypeOK' /\ Written' /\ Numbers'
  BY <1>1, <1>3, ClockFrame
<1>6. NumberFirst'
  BY <1>1, <1>2 DEF NumberFirst
<1>7. OffKnowsNothing'
  BY <1>3 DEF OffKnowsNothing, After, TypeOK
<1>8. Told'
  BY <1>3, ClockFrame, ToldFrame DEF listeners
<1>. QED
  BY <1>4, <1>5, <1>6, <1>7, <1>8

LEMMA SendNothingKeeps ==
  ASSUME IInv, Clock, SendNothing
  PROVE  IInv'
<1>. USE DEF IInv
<1>1. /\ reset_state # "rNB" /\ reset_ctl # reg_run_command /\ ~Direct
      /\ UNCHANGED <<reset_state, feb_state, feb_run, uplink, got>>
  BY DEF SendNothing, boards
<1>2. /\ ~(reset_state = "idle" /\ Edge("Run Prepare")) /\ ~(reset_state = "sync" /\ Edge("Sync"))
      /\ ~(reset_state = "start_run" /\ Edge("Start Run")) /\ ~(reset_state = "end_run" /\ Edge("End Run"))
  BY DEF SendNothing
<1>3. reg_run_command' = reset_ctl /\ UNCHANGED <<pc, todo, reset_ctl>>
  BY ClockFrame
<1>4. BoardsStay
  BY <1>1 DEF BoardsStay
<1>5. Way'
  <2>1. CASE reset_ctl = None
    <3>1. Rest' = Rest
      BY <1>3, <2>1 DEF Rest, Heard
    <3>2. Quiet => Quiet'
      BY <1>1, <1>3, <2>1 DEF Quiet
    <3>. QED
      BY <1>3, <1>4, <3>1, <3>2, BoardsFrame, WayFrame
  <2>2. CASE reset_ctl # None
    <3>1. /\ reg_run_command = None /\ Rest # <<>> /\ reset_ctl = Head(Rest) /\ Rest' = Tail(Rest)
          /\ reset_ctl \in Commands /\ pc \in {"init", "begin", "go", "cycle", "end"}
      BY <1>1, <1>3, <2>2, AtEdge
    <3>2. reset_ctl \in {"Run Prepare", "Sync", "Start Run", "End Run"}
      BY <1>1, <2>2, <3>1 DEF Direct
    <3>3. reset_ctl # "Run Prepare"
      BY <1>2, <3>1, WayHere DEF AtRest, Edge
    <3>4. reset_ctl # "Sync"
      BY <1>1, <1>2, <3>1, WayHere DEF ToldNumber, Edge
    <3>5. reset_ctl # "Start Run"
      BY <1>2, <3>1, WayHere DEF Synced, Edge
    <3>6. reset_ctl = "End Run"
      BY <3>2, <3>3, <3>4, <3>5
    <3>7. Safe /\ pc = "end" /\ Rest' = <<>>
      BY <1>2, <3>1, <3>6, WayHere, Tails DEF Running, Edge
    <3>. QED
      BY <1>3, <1>4, <3>7, BoardsFrame DEF Way
  <2>. QED
    BY <2>1, <2>2
<1>6. BoardTypes' /\ got \subseteq got' /\ reset_state' \in {"idle", "rNB", "sync", "start_run", "end_run"}
  BY <1>1 DEF BoardTypes, TypeOK
<1>7. TypeOK' /\ Written' /\ Numbers'
  BY <1>6, ClockFrame
<1>8. NumberFirst'
  BY <1>1 DEF NumberFirst
<1>9. OffKnowsNothing'
  BY <1>4, BoardsFrame
<1>10. Told'
  BY <1>1, ClockFrame, ToldFrame DEF listeners
<1>. QED
  BY <1>5, <1>7, <1>8, <1>9, <1>10

LEMMA ClockKeeps ==
  ASSUME IInv, Clock
  PROVE  IInv'
<1>1. \/ SendDirect \/ SendNumber \/ SendNothing
      \/ Step("idle", "Run Prepare", "rNB") \/ Step("sync", "Sync", "start_run")
      \/ Step("start_run", "Start Run", "end_run") \/ Step("end_run", "End Run", "idle")
  BY DEF Clock
<1>. QED
  BY <1>1, SendDirectKeeps, SendNumberKeeps, SendNothingKeeps, StepKeeps

-----------------------------------------------------------------------------
(* Listeners and boards.  They leave the frontend, the registers and       *)
(* a10_reset_link alone.                                                   *)
Outside == UNCHANGED <<frontend, registers, link>>

LEMMA OutsideFrame ==
  ASSUME IInv, Outside
  PROVE  /\ Written' /\ NumberFirst' /\ Rest' = Rest /\ pc' = pc /\ (Quiet => Quiet')
         /\ (got' = got => Numbers')
  BY DEF IInv, Outside, frontend, registers, link, Written, NumberFirst, Rest, Heard, Quiet, Numbers

LEMMA TickKeeps ==
  ASSUME IInv, Tick
  PROVE  IInv'
<1>. USE DEF IInv, Tick
<1>1. Outside /\ BoardsStay
  BY DEF Outside, BoardsStay, boards, link
<1>2. TypeOK'
  BY DEF TypeOK, frontend, registers, link, boards, listeners, bounds
<1>3. Way' /\ OffKnowsNothing'
  BY <1>1, OutsideFrame, BoardsFrame, WayFrame
<1>4. Told'
  BY ToldFrame DEF boards, listeners
<1>. QED
  BY <1>1, <1>2, <1>3, <1>4, OutsideFrame DEF boards

LEMMA ListenKeeps ==
  ASSUME IInv, NEW f \in Febs, Listen(f)
  PROVE  IInv'
<1>. USE DEF IInv
<1>1. /\ Outside /\ BoardsStay /\ uplink[f] # <<>> /\ uplink' = [uplink EXCEPT ![f] = Tail(@)]
      /\ UNCHANGED <<got, time_is_zero, bounds>>
      /\ listened_number' = listened_number
           \/ listened_number' = [listened_number EXCEPT ![f] = Head(uplink[f])]
  BY DEF Listen, Outside, BoardsStay, link
<1>2. /\ uplink[f] \in Seq(0..MaxRuns) /\ Tail(uplink[f]) \in Seq(0..MaxRuns)
      /\ Head(uplink[f]) = uplink[f][1] /\ Head(uplink[f]) \in 0..MaxRuns
      /\ 1 \in 1..Len(uplink[f])
      /\ Len(Tail(uplink[f])) = Len(uplink[f]) - 1
      /\ \A i \in 1..Len(uplink[f]) - 1 : Tail(uplink[f])[i] = uplink[f][i + 1]
  <2>. DEFINE q == uplink[f]
  <2>1. q \in Seq(0..MaxRuns) /\ q # <<>>
    BY <1>1 DEF TypeOK
  <2>. HIDE DEF q, IInv
  <2>2. Head(q) \in 0..MaxRuns /\ Tail(q) \in Seq(0..MaxRuns) /\ Len(Tail(q)) = Len(q) - 1
    BY <2>1, HeadTailProperties
  <2>3. Head(q) = q[1] /\ \A i \in 1..Len(q) - 1 : Tail(q)[i] = q[i + 1]
    BY <2>1, <2>2
  <2>4. 1 \in 1..Len(q)
    BY <2>1
  <2>. QED
    BY <2>1, <2>2, <2>3, <2>4 DEF q
<1>3. TypeOK'
  <2>1. uplink' \in [Febs -> Seq(0..MaxRuns)] /\ listened_number' \in [Febs -> 0..MaxRuns]
    BY <1>1, <1>2 DEF TypeOK
  <2>2. run_prep_acknowledge_received' \subseteq Febs /\ end_of_run_received' \subseteq Febs
    BY DEF Listen, TypeOK
  <2>3. UNCHANGED <<feb_state, feb_run>>
    BY <1>1 DEF BoardsStay
  <2>. QED
    BY <1>1, <2>1, <2>2, <2>3 DEF TypeOK, Outside, frontend, registers, link, bounds
<1>4. Way' /\ OffKnowsNothing'
  BY <1>1, OutsideFrame, BoardsFrame, WayFrame
<1>5. Told'
  <2>1. ASSUME NEW g \in Febs, NEW i \in 1..Len(uplink'[g]), uplink'[g][i] # 0
        PROVE  <<g, uplink'[g][i]>> \in got
    <3>1. CASE g = f
      <4>1. uplink'[f] = Tail(uplink[f])
        BY <1>1 DEF TypeOK
      <4>2. i \in 1..Len(uplink[f]) - 1 /\ i + 1 \in 1..Len(uplink[f]) /\ uplink'[f][i] = uplink[f][i + 1]
        BY <1>2, <3>1, <4>1
      <4>. QED
        BY <2>1, <3>1, <4>2 DEF Told
    <3>2. CASE g # f
      <4>1. uplink'[g] = uplink[g]
        BY <1>1, <3>2 DEF TypeOK
      <4>. QED
        BY <2>1, <4>1 DEF Told
    <3>. QED
      BY <3>1, <3>2
  <2>2. ASSUME NEW g \in Febs, listened_number'[g] # 0
        PROVE  <<g, listened_number'[g]>> \in got
    <3>1. CASE listened_number'[g] = listened_number[g]
      BY <2>2, <3>1 DEF Told
    <3>2. CASE g = f /\ listened_number'[f] = uplink[f][1]
      BY <1>2, <2>2, <3>2 DEF Told
    <3>. QED
      BY <1>1, <1>2, <3>1, <3>2 DEF TypeOK
  <2>. QED
    BY <1>1, <2>1, <2>2 DEF Told
<1>. QED
  BY <1>1, <1>3, <1>4, <1>5, OutsideFrame

LEMMA BoardKeeps ==
  ASSUME IInv, NEW f \in Febs, Terminate(f) \/ PowerOff(f) \/ PowerOn(f)
  PROVE  IInv'
<1>. USE DEF IInv
<1>1. /\ Outside /\ UNCHANGED <<got, listeners, time_is_zero, cycles, restarts>>
      /\ reset_state' = reset_state /\ offs' \in Nat
  BY DEF Terminate, PowerOff, PowerOn, Outside, link, bounds, TypeOK
<1>2. \/ /\ feb_state[f] = "terminating" /\ feb_state' = [feb_state EXCEPT ![f] = "idle"]
         /\ feb_run' = feb_run
      \/ feb_state' = [feb_state EXCEPT ![f] = "off"] /\ feb_run' = [feb_run EXCEPT ![f] = 0]
      \/ /\ feb_state[f] = "off" /\ feb_state' = [feb_state EXCEPT ![f] = "idle"]
         /\ feb_run' = feb_run
  BY DEF Terminate, PowerOff, PowerOn
<1>3. /\ feb_state \in [Febs -> {"idle", "prepared", "synced", "running", "terminating", "off"}]
      /\ feb_run \in [Febs -> 0..MaxRuns]
  BY DEF TypeOK
<1>4. \A g \in Febs : g # f => feb_state'[g] = feb_state[g] /\ feb_run'[g] = feb_run[g]
  BY <1>2, <1>3
<1>5. /\ feb_state'[f] \in {"idle", "off"} /\ (feb_state'[f] = "off" => feb_run'[f] = 0)
      /\ (feb_run'[f] = 0 \/ feb_state[f] = "terminating")
  BY <1>2, <1>3 DEF OffKnowsNothing
<1>6. uplink' \in [Febs -> Seq(0..MaxRuns)] /\ Told'
  <2>1. CASE Terminate(f)
    <3>1. /\ uplink' = [uplink EXCEPT ![f] = Append(@, 0)] /\ uplink[f] \in Seq(0..MaxRuns)
          /\ 0 \in 0..MaxRuns
      BY <2>1, Bounds DEF Terminate, RunEnd, TypeOK
    <3>2. /\ Append(uplink[f], 0) \in Seq(0..MaxRuns)
          /\ Len(Append(uplink[f], 0)) = Len(uplink[f]) + 1
          /\ Append(uplink[f], 0)[Len(uplink[f]) + 1] = 0
          /\ \A i \in 1..Len(uplink[f]) : Append(uplink[f], 0)[i] = uplink[f][i]
      BY <3>1, AppendProperties
    <3>3. ASSUME NEW g \in Febs, NEW i \in 1..Len(uplink'[g]), uplink'[g][i] # 0
          PROVE  <<g, uplink'[g][i]>> \in got
      <4>1. CASE g = f
        <5>1. uplink'[f] = Append(uplink[f], 0)
          BY <3>1 DEF TypeOK
        <5>2. i = Len(uplink[f]) + 1 \/ i \in 1..Len(uplink[f])
          BY <3>1, <3>2, <4>1, <5>1
        <5>3. i \in 1..Len(uplink[f]) /\ uplink'[f][i] = uplink[f][i]
          BY <3>2, <3>3, <4>1, <5>1, <5>2
        <5>. QED
          BY <3>3, <4>1, <5>3 DEF Told
      <4>2. CASE g # f
        <5>1. uplink'[g] = uplink[g]
          BY <3>1, <4>2 DEF TypeOK
        <5>. QED
          BY <3>3, <5>1 DEF Told
      <4>. QED
        BY <4>1, <4>2
    <3>. QED
      BY <1>1, <3>1, <3>2, <3>3 DEF Told, TypeOK, listeners
  <2>2. CASE PowerOff(f)
    <3>1. uplink' = [uplink EXCEPT ![f] = <<>>]
      BY <2>2 DEF PowerOff
    <3>. QED
      BY <1>1, <3>1 DEF Told, TypeOK, listeners
  <2>3. CASE PowerOn(f)
    BY <1>1, <2>3 DEF PowerOn, Told, TypeOK, listeners
  <2>. QED
    BY <2>1, <2>2, <2>3
<1>7. TypeOK'
  <2>1. /\ feb_state' \in [Febs -> {"idle", "prepared", "synced", "running", "terminating", "off"}]
        /\ feb_run' \in [Febs -> 0..MaxRuns]
    BY <1>2, <1>3, Bounds
  <2>. QED
    BY <1>1, <1>6, <2>1 DEF TypeOK, Outside, frontend, registers, link, listeners
<1>8. OffKnowsNothing'
  BY <1>4, <1>5 DEF OffKnowsNothing
<1>9. Way'
  <2>1. AtRest => AtRest'
    BY <1>1, <1>4, <1>5 DEF AtRest
  <2>2. \A s \in {"prepared", "synced", "running"} : Together(s) => Together(s)'
    BY <1>4, <1>5 DEF Together
  <2>3. ToldNumber => ToldNumber'
    BY <1>1, <1>4, <1>5, <2>2 DEF ToldNumber
  <2>4. (Synced => Synced') /\ (Running => Running')
    BY <1>1, <2>2 DEF Synced, Running
  <2>5. Safe => Safe'
    BY <1>4, <1>5 DEF Safe
  <2>. QED
    BY <1>1, <2>1, <2>3, <2>4, <2>5, OutsideFrame, WayFrame
<1>. QED
  BY <1>1, <1>6, <1>7, <1>8, <1>9, OutsideFrame

-----------------------------------------------------------------------------
LEMMA InvInit ==
  ASSUME Init
  PROVE  IInv
<1>1. todo = Init2 /\ Rest = Init2
  BY DEF Init, Init2, Rest, Heard
<1>2. TypeOK
  <2>1. todo \in Seq(Commands)
    BY <1>1, ListType DEF Lists
  <2>2. <<>> \in Seq(0..MaxRuns)
    OBVIOUS
  <2>3. 0 \in 0..MaxRuns
    BY Bounds
  <2>4. {run_number, RUN_NR, reset_run_number} \subseteq 0..MaxRuns
    BY <2>3 DEF Init
  <2>5. feb_run \in [Febs -> 0..MaxRuns] /\ listened_number \in [Febs -> 0..MaxRuns]
    BY <2>3 DEF Init
  <2>6. uplink \in [Febs -> Seq(0..MaxRuns)]
    BY <2>2 DEF Init
  <2>7. feb_state \in [Febs -> {"idle", "prepared", "synced", "running", "terminating", "off"}]
    BY DEF Init
  <2>8. {cycles, restarts, offs} \subseteq Nat
    <3>1. cycles = 0 /\ restarts = 0 /\ offs = 0
      BY Zenon DEF Init
    <3>. QED
      BY <3>1
  <2>9. /\ pc = "init" /\ inrun \in BOOLEAN /\ time_is_zero \in BOOLEAN
        /\ reset_ctl = None /\ reg_run_command = None /\ reset_state = "idle"
        /\ got = {} /\ run_prep_acknowledge_received = {} /\ end_of_run_received = {}
    BY DEF Init
  <2>. QED
    BY <2>1, <2>4, <2>5, <2>6, <2>7, <2>8, <2>9 DEF TypeOK
<1>3. Written /\ NumberFirst /\ Way
  BY <1>1 DEF Written, NumberFirst, Way, Lists, Init
<1>4. OffKnowsNothing
  BY DEF OffKnowsNothing, Init
<1>5. Told
  <2>1. \A f \in Febs : Len(uplink[f]) = 0 /\ listened_number[f] = 0
    BY DEF Init
  <2>. QED
    BY <2>1 DEF Told
<1>6. Numbers
  BY DEF Numbers, Init
<1>. QED
  BY <1>2, <1>3, <1>4, <1>5, <1>6 DEF IInv

LEMMA InvNext ==
  ASSUME IInv, [Next]_vars
  PROVE  IInv'
<1>1. CASE Frontend
  BY <1>1, WriteCommandKeeps, ClearCommandKeeps, BeginOfRunKeeps, PreparedKeeps, AcknowledgedKeeps,
     DeniedKeeps, EndOfRunKeeps, RunCycleKeeps, ReturnKeeps, RestartKeeps DEF Frontend
<1>2. CASE Clock
  BY <1>2, ClockKeeps
<1>3. CASE Tick
  BY <1>3, TickKeeps
<1>4. CASE Board
  BY <1>4, BoardKeeps DEF Board
<1>5. CASE \E f \in Febs : Listen(f)
  BY <1>5, ListenKeeps
<1>6. CASE UNCHANGED vars
  <2>1. Outside /\ BoardsStay /\ UNCHANGED <<uplink, got, listened_number>>
    BY <1>6 DEF vars, Outside, BoardsStay, link, boards, listeners
  <2>2. TypeOK'
    BY <1>6 DEF IInv, TypeOK, vars, frontend, registers, link, boards, listeners, bounds
  <2>3. Way' /\ OffKnowsNothing' /\ Told'
    BY <2>1, OutsideFrame, BoardsFrame, WayFrame, ToldFrame DEF IInv
  <2>. QED
    BY <2>1, <2>2, <2>3, OutsideFrame DEF IInv
<1>. QED
  BY <1>1, <1>2, <1>3, <1>4, <1>5, <1>6 DEF Next

(* The invariant holds in every state a behaviour reaches. *)
THEOREM Invariant == Spec => []IInv
<1>1. Init => IInv
  BY InvInit
<1>2. IInv /\ [Next]_vars => IInv'
  BY InvNext
<1>. QED
  BY <1>1, <1>2, PTL DEF Spec

-----------------------------------------------------------------------------
(* Frontend, link, boards and listeners keep their types. *)
THEOREM RunTypes == Spec => []TypeOK
<1>1. IInv => TypeOK
  BY DEF IInv
<1>. QED
  BY <1>1, Invariant, PTL

(* A start that succeeds leaves no board behind that was prepared for the  *)
(* run: a10_reset_link ignores no command of it, whatever came before.     *)
THEOREM NoBoardBehind == Spec => []NoneLeftBehind
<1>1. IInv => NoneLeftBehind
  BY DEF IInv, Way, Running, Together, NoneLeftBehind
<1>. QED
  BY <1>1, Invariant, PTL

(* When the frontend is stopped, by whatever way, no board takes data.     *)
THEOREM AllStopped == Spec => []StoppedMeansStopped
<1>1. IInv => StoppedMeansStopped
  BY DEF IInv, Way, Safe, StoppedMeansStopped
<1>. QED
  BY <1>1, Invariant, PTL

(* A run starts on acknowledges of this run only, for any set of boards,   *)
(* however many attempts were made before.                                 *)
THEOREM AcknowledgesAreNew == Spec => []AckMeansPrepared
<1>1. IInv => AckMeansPrepared
  BY DEF IInv, Numbers, AckMeansPrepared
<1>. QED
  BY <1>1, Invariant, PTL
=============================================================================
