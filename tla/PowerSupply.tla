---------------------------- MODULE PowerSupply ----------------------------
(***************************************************************************)
(* One low voltage supply (HMP4040, over TCP) and the two threads of the   *)
(* frontend that share it: the main thread, which runs the callbacks on    *)
(* "Set State" and on the demand values and the periodic read_power, and   *)
(* the read thread of the driver.  The instrument works on the channel     *)
(* that was selected last; PowerDriver::power_mutex makes selecting and    *)
(* commanding one transaction.  Replies carry no mark of the question: the *)
(* driver takes what has arrived for the answer, and a late reply is taken *)
(* by the next question.                                                   *)
(***************************************************************************)
EXTENDS Integers, Sequences

CONSTANTS
  NChannels,   \* channels of the supply
  Readings,    \* what a pass measures of a channel, in order: all three in the code
  MaxRequests, \* bound: requests of the user in the ODB
  MaxTrips,    \* bound: channels switched off by their protection
  MaxLate      \* bound: replies later than the reply time-out

ASSUME ChannelAssumption == NChannels \in Nat \ {0}
Measurements == {"readVoltage", "readCurrent", "readOVPLevel"}
ASSUME ReadingAssumption == Readings \in Seq(Measurements) /\ Readings # <<>>
ASSUME BoundAssumption == {MaxRequests, MaxTrips, MaxLate} \subseteq Nat

Channels == 0..NChannels-1
Threads == {"main", "reader"}
NoThread == "none"

VARIABLES
  sel, out,         \* the instrument: selected channel, outputs
  replies,          \* replies sent and not yet read from the socket
  power_mutex,      \* the thread that holds it
  pc, job, ch,      \* of each thread: its place, its transaction, the index i
  res, word,        \* of each thread: the state read, its copy of the book keeping
  pass, bad,        \* of the reader: who wanted its pass, and an error met in it
  err,              \* err of SetStateChanged is FE_SUCCESS (else: not initialised)
  state,            \* the book keeping: a vector<bool>, so one word in memory
  odbState, odbSet, \* "State" and "Set State" in the ODB
  wanted,           \* channels whose "Demand Voltage" differs from the book keeping
  pending,          \* notifications for the main thread
  read, readonlythisindex,
  requests, trips, late

instrument == <<sel, out>>
places == <<pc, job, ch>>
local == <<res, word, pass, bad, err>>
odb == <<odbState, odbSet, wanted, pending>>
flags == <<read, readonlythisindex>>
bounds == <<requests, trips>>
vars == <<instrument, replies, power_mutex, places, local, state, odb, flags, bounds, late>>

Replies == {"opc", "on", "off", "number", "error"}
Jobs == Measurements \cup {"readState", "setState", "setVoltage", "errorQueue"}
Places == {"idle", "compare", "reread", "copy", "push", "levels", "read", "top", "second",
           "channel", "note", "begin", "selected", "await", "done", "load", "store"}

Unset == [i \in Channels |-> FALSE]   \* a local variable that is not in use

(* PowerDriver after Init, which ends with the last channel;               *)
(* readonlythisindex is set by no constructor.                             *)
Init ==
  /\ sel = NChannels-1 /\ out \in [Channels -> BOOLEAN] /\ replies = <<>>
  /\ power_mutex = NoThread
  /\ pc = [t \in Threads |-> IF t = "main" THEN "idle" ELSE "top"]
  /\ job = [t \in Threads |-> "readState"] /\ ch = [t \in Threads |-> 0]
  /\ res = [t \in Threads |-> FALSE] /\ word = [t \in Threads |-> Unset]
  /\ pass = "loop" /\ bad = FALSE /\ err = FALSE
  /\ state = out /\ odbState = out /\ odbSet = out /\ wanted = {} /\ pending = {}
  /\ read = FALSE /\ readonlythisindex \in -1..NChannels
  /\ requests = 0 /\ trips = 0 /\ late = 0

Goto(t, place) == pc' = [pc EXCEPT ![t] = place]
At(t, place, i) == Goto(t, place) /\ ch' = [ch EXCEPT ![t] = i]
Forget(t) == res' = [res EXCEPT ![t] = FALSE]
Start(t, j, i) == At(t, "begin", i) /\ job' = [job EXCEPT ![t] = j]

-----------------------------------------------------------------------------
(***************************************************************************)
(* A transaction.  ReadReply returns as soon as a few characters are       *)
(* there, with everything that is, or with nothing after the time-out; it  *)
(* never fails.                                                            *)
(***************************************************************************)
ReadReply(reply) ==
  \E n \in 0..Len(replies) :
    /\ reply = SubSeq(replies, 1, n)
    /\ IF n = Len(replies) THEN late' = late ELSE late < MaxLate /\ late' = late + 1

Has(reply, kind) == \E n \in 1..Len(reply) : reply[n] = kind
Rest(reply) == SubSeq(replies, Len(reply) + 1, Len(replies))
Taken == {SubSeq(replies, 1, n) : n \in 0..Len(replies)}

(* reply.find("1") or "ON": the reply of *OPC? is a 1, and a number may hold one. *)
Positive(reply) ==
  IF Has(reply, "opc") \/ Has(reply, "on") THEN {TRUE}
  ELSE IF Has(reply, "number") THEN BOOLEAN
  ELSE {FALSE}

(* Mutant: the error queue is read until there is no reply at all. *)
ReadDry(reply) == IF reply = <<>> THEN {TRUE} ELSE {FALSE}

(* The queue is empty when the reply begins with 0 or says so. *)
QueueEmpty(reply) ==
  IF Has(reply, "error") \/ (reply # <<>> /\ Head(reply) = "off") THEN {TRUE}
  ELSE IF reply # <<>> /\ Head(reply) = "number" THEN BOOLEAN
  ELSE {FALSE}

(* Mutant: the transaction begins without taking power_mutex. *)
BeginUnlocked(t) ==
  /\ pc[t] = "begin"
  /\ power_mutex' = t
  /\ IF job[t] = "errorQueue"
     THEN Goto(t, "await") /\ replies' = Append(replies, "error") /\ UNCHANGED sel
     ELSE Goto(t, "selected") /\ replies' = Append(replies, "opc") /\ sel' = ch[t]
  /\ UNCHANGED <<out, job, ch, local, state, odb, flags, bounds, late>>

(* lock_guard, then SelectChannel with the question of OPC, or SYST:ERR? *)
Begin(t) ==
  /\ pc[t] = "begin" /\ power_mutex = NoThread
  /\ power_mutex' = t
  /\ IF job[t] = "errorQueue"
     THEN Goto(t, "await") /\ replies' = Append(replies, "error") /\ UNCHANGED sel
     ELSE Goto(t, "selected") /\ replies' = Append(replies, "opc") /\ sel' = ch[t]
  /\ UNCHANGED <<out, job, ch, local, state, odb, flags, bounds, late>>

Answer(j) ==
  CASE j \in {"setState", "setVoltage"} -> "opc"
    [] j = "readState" -> IF out[sel] THEN "on" ELSE "off"
    [] j = "errorQueue" -> "error"
    [] OTHER -> "number"

Skipped(t) == job[t] = "readVoltage" /\ ~state[ch[t]]

(* Mutant: the reply to the selection is left in the socket. *)
CommandUnread(t) ==
  /\ pc[t] = "selected"
  /\ IF Skipped(t)
     THEN Goto(t, "done") /\ power_mutex' = NoThread /\ UNCHANGED <<instrument, replies>>
     ELSE /\ Goto(t, "await") /\ replies' = Append(replies, Answer(job[t]))
          /\ out' = IF job[t] = "setState" THEN [out EXCEPT ![sel] = res[t]] ELSE out
          /\ UNCHANGED <<sel, power_mutex>>
  /\ UNCHANGED <<job, ch, local, state, odb, flags, bounds, late>>

(* The reply of *OPC? is read, whatever it says; then the command itself.  *)
(* ReadVoltage asks only channels that are on by the book keeping.         *)
Command(t) ==
  /\ pc[t] = "selected"
  /\ \E reply \in Taken :
       /\ ReadReply(reply)
       /\ IF Skipped(t)
          THEN /\ Goto(t, "done") /\ power_mutex' = NoThread
               /\ replies' = Rest(reply) /\ UNCHANGED instrument
          ELSE /\ Goto(t, "await")
               /\ replies' = Append(Rest(reply), Answer(job[t]))
               /\ out' = IF job[t] = "setState" THEN [out EXCEPT ![sel] = res[t]] ELSE out
               /\ UNCHANGED <<sel, power_mutex>>
  /\ UNCHANGED <<job, ch, local, state, odb, flags, bounds>>

(* The reply to the command, and the end of the lock_guard.  ReadState     *)
(* takes no reply for off.  ReadErrorQueue asks again until it is empty.   *)
Finish(t) ==
  /\ pc[t] = "await"
  /\ \E reply \in Taken :
       /\ ReadReply(reply)
       /\ \/ /\ job[t] = "errorQueue" /\ FALSE \in QueueEmpty(reply)
             /\ replies' = Append(Rest(reply), "error")
             /\ UNCHANGED <<pc, power_mutex, res, bad, readonlythisindex>>
          \/ /\ job[t] = "errorQueue" => TRUE \in QueueEmpty(reply)
             /\ replies' = Rest(reply) /\ power_mutex' = NoThread /\ Goto(t, "done")
             /\ IF job[t] = "readState"
                THEN \E b \in Positive(reply) : res' = [res EXCEPT ![t] = b]
                ELSE res' = res
             /\ bad' = IF job[t] \in Measurements
                       THEN bad \/ reply = <<>> ELSE bad
             /\ readonlythisindex' = IF job[t] = "setVoltage" THEN ch[t] ELSE readonlythisindex
  /\ UNCHANGED <<instrument, job, ch, word, pass, err, state, odb, read, bounds>>

(***************************************************************************)
(* state[i] = b for one bit of a vector<bool>, outside power_mutex: the    *)
(* word is loaded and stored, and what the other thread writes in between  *)
(* is lost.                                                                *)
(***************************************************************************)
Load(t) ==
  /\ pc[t] = "load" /\ Goto(t, "store")
  /\ word' = [word EXCEPT ![t] = state]
  /\ UNCHANGED <<instrument, replies, power_mutex, job, ch, res, pass, bad, err, state, odb, flags, bounds, late>>

Store(t) ==
  /\ pc[t] = "store"
  /\ state' = [word[t] EXCEPT ![ch[t]] = res[t]]
  /\ word' = [word EXCEPT ![t] = Unset]
  /\ IF t = "main" THEN At(t, "reread", ch[t] + 1) /\ Forget(t)
                   ELSE At(t, "note", ch[t]) /\ UNCHANGED res
  /\ UNCHANGED <<instrument, replies, power_mutex, job, pass, bad, err, odb, flags, bounds, late>>

Transaction(t) == Begin(t) \/ Command(t) \/ Finish(t) \/ Load(t) \/ Store(t)

-----------------------------------------------------------------------------
(***************************************************************************)
(* The read thread: ReadLoop and its passes of ReadAll.  A pass asked for  *)
(* by read_power is followed by one of the loop's own, unless              *)
(* readonlythisindex names a channel.                                      *)
(***************************************************************************)
shared == <<instrument, replies, power_mutex, state, bounds, late>>
Reader == "reader"

Pass(p) == At(Reader, "channel", 0) /\ pass' = p /\ UNCHANGED <<job, res, word, bad, err, flags>>

Top ==
  /\ pc[Reader] = "top"
  /\ IF read THEN Pass("asked")
     ELSE Goto(Reader, "second") /\ UNCHANGED <<job, ch, local, flags>>
  /\ UNCHANGED <<shared, odb>>

Second ==
  /\ pc[Reader] = "second"
  /\ IF readonlythisindex < 0 THEN Pass("loop")
     ELSE Goto(Reader, "top") /\ UNCHANGED <<job, ch, local, flags>>
  /\ UNCHANGED <<shared, odb>>

(* Mutant: one channel too many. *)
ChannelPast ==
  LET i == ch[Reader] IN
  /\ pc[Reader] = "channel"
  /\ CASE i > NChannels -> Start(Reader, "errorQueue", i) /\ UNCHANGED bad
       [] i <= NChannels /\ readonlythisindex \in {-1, i} ->
            Start(Reader, "readState", i) /\ bad' = FALSE
       [] OTHER -> At(Reader, "channel", i + 1) /\ UNCHANGED <<job, bad>>
  /\ UNCHANGED <<shared, res, word, pass, err, odb, flags>>

(* The head of the loop over the channels, and ReadErrorQueue after it. *)
Channel ==
  LET i == ch[Reader] IN
  /\ pc[Reader] = "channel"
  /\ CASE i = NChannels -> Start(Reader, "errorQueue", i) /\ UNCHANGED bad
       [] i < NChannels /\ readonlythisindex \in {-1, i} ->
            Start(Reader, "readState", i) /\ bad' = FALSE
       [] OTHER -> At(Reader, "channel", i + 1) /\ UNCHANGED <<job, bad>>
  /\ UNCHANGED <<shared, res, word, pass, err, odb, flags>>

PassEnds ==
  /\ IF pass = "asked"
     THEN At(Reader, "second", 0) /\ read' = FALSE /\ UNCHANGED readonlythisindex
     ELSE At(Reader, "top", 0) /\ readonlythisindex' = -1 /\ UNCHANGED read
  /\ job' = [job EXCEPT ![Reader] = "readState"] /\ pass' = "loop" /\ bad' = FALSE
  /\ UNCHANGED res

(* After each transaction: the next reading, the next channel or the end.  *)
(* A channel with an error ends the pass: later ones are not read.         *)
Proceed ==
  /\ pc[Reader] = "done"
  /\ CASE job[Reader] = "readState" /\ state[ch[Reader]] # res[Reader] ->
            Goto(Reader, "load") /\ UNCHANGED <<job, ch, res, pass, bad, flags>>
       [] job[Reader] = "readState" /\ state[ch[Reader]] = res[Reader] ->
            Start(Reader, Readings[1], ch[Reader]) /\ Forget(Reader)
            /\ UNCHANGED <<pass, bad, flags>>
       [] \E n \in 2..Len(Readings) : job[Reader] = Readings[n-1] ->
            /\ \E n \in 2..Len(Readings) :
                 job[Reader] = Readings[n-1] /\ Start(Reader, Readings[n], ch[Reader])
            /\ UNCHANGED <<res, pass, bad, flags>>
       [] job[Reader] = Readings[Len(Readings)] /\ ~bad ->
            At(Reader, "channel", ch[Reader] + 1) /\ UNCHANGED <<job, res, pass, bad, flags>>
       [] OTHER -> PassEnds
  /\ UNCHANGED <<shared, word, err, odb>>

(* variables["State"][i] = bvalue, after the book keeping has been changed. *)
Note ==
  /\ pc[Reader] = "note"
  /\ odbState' = [odbState EXCEPT ![ch[Reader]] = res[Reader]]
  /\ Start(Reader, Readings[1], ch[Reader]) /\ Forget(Reader)
  /\ UNCHANGED <<shared, word, pass, bad, err, odbSet, wanted, pending, flags>>

ReadLoop == Transaction(Reader) \/ Top \/ Second \/ Channel \/ Proceed \/ Note

-----------------------------------------------------------------------------
(***************************************************************************)
(* The main thread: the callbacks and read_power, one at a time.           *)
(***************************************************************************)
Main == "main"

Done == At(Main, "idle", 0) /\ job' = [job EXCEPT ![Main] = "readState"]

SetStateChanged ==
  /\ pc[Main] = "idle" /\ "state" \in pending
  /\ At(Main, "compare", 0) /\ pending' = pending \ {"state"} /\ err' = FALSE
  /\ UNCHANGED <<shared, job, res, word, pass, bad, odbState, odbSet, wanted, flags>>

(* Every channel whose demand differs from the book keeping is switched, *)
(* not only the one the user has changed.                                 *)
Compare ==
  LET i == ch[Main] IN
  /\ pc[Main] = "compare"
  /\ \/ /\ i < NChannels /\ odbSet[i] # state[i]
        /\ res' = [res EXCEPT ![Main] = odbSet[i]]
        /\ Start(Main, "setState", i)
     \/ /\ i < NChannels /\ odbSet[i] = state[i]
        /\ At(Main, "compare", i + 1) /\ UNCHANGED <<job, res>>
     \/ /\ i = NChannels
        /\ At(Main, "reread", 0) /\ UNCHANGED <<job, res>>
     \/ /\ i = NChannels /\ ~err     \* err was never set
        /\ Goto(Main, "copy") /\ UNCHANGED <<job, ch, res>>
  /\ UNCHANGED <<shared, word, pass, bad, err, odb, flags>>

Switched ==
  /\ pc[Main] = "done" /\ job[Main] = "setState"
  /\ At(Main, "compare", ch[Main] + 1) /\ err' = TRUE /\ Forget(Main)
  /\ UNCHANGED <<shared, job, word, pass, bad, odb, flags>>

Reread ==
  /\ pc[Main] = "reread"
  /\ IF ch[Main] < NChannels THEN Start(Main, "readState", ch[Main])
     ELSE Goto(Main, "copy") /\ UNCHANGED <<job, ch>>
  /\ UNCHANGED <<shared, local, odb, flags>>

Keep ==
  /\ pc[Main] = "done" /\ job[Main] = "readState"
  /\ Goto(Main, "load")
  /\ UNCHANGED <<shared, job, ch, local, odb, flags>>

(* variables["State"] = state: the word is read, then all values are written. *)
Copy ==
  /\ pc[Main] = "copy" /\ Goto(Main, "push")
  /\ word' = [word EXCEPT ![Main] = state]
  /\ UNCHANGED <<shared, job, ch, res, pass, bad, err, odb, flags>>

Push ==
  /\ pc[Main] = "push" /\ Done
  /\ odbState' = word[Main] /\ word' = [word EXCEPT ![Main] = Unset]
  /\ err' = FALSE
  /\ UNCHANGED <<shared, res, pass, bad, odbSet, wanted, pending, flags>>

DemandVoltageChanged ==
  /\ pc[Main] = "idle" /\ "levels" \in pending
  /\ At(Main, "levels", 0) /\ pending' = pending \ {"levels"}
  /\ UNCHANGED <<shared, job, local, odbState, odbSet, wanted, flags>>

(* SetVoltage for every channel with a new demand; one out of range is refused. *)
Levels ==
  LET i == ch[Main] IN
  /\ pc[Main] = "levels"
  /\ \/ /\ i \in wanted /\ wanted' = wanted \ {i} /\ Start(Main, "setVoltage", i)
     \/ /\ i < NChannels /\ wanted' = wanted \ {i} /\ At(Main, "levels", i + 1) /\ UNCHANGED job
     \/ /\ i = NChannels /\ Done /\ UNCHANGED wanted
  /\ UNCHANGED <<shared, local, odbState, odbSet, pending, flags>>

LevelSet ==
  /\ pc[Main] = "done" /\ job[Main] = "setVoltage"
  /\ At(Main, "levels", ch[Main] + 1)
  /\ UNCHANGED <<shared, job, local, odb, flags>>

(* Mutant: read_power asks for a pass and leaves readonlythisindex. *)
StartReadingOnly ==
  /\ pc[Main] = "read" /\ Goto(Main, "idle")
  /\ UNCHANGED <<shared, job, ch, local, odb, flags>>

(* read_power: StartReading sets read, then readonlythisindex. *)
read_power ==
  /\ pc[Main] = "idle" /\ Goto(Main, "read") /\ read' = TRUE
  /\ UNCHANGED <<shared, job, ch, local, odb, readonlythisindex>>

StartReading ==
  /\ pc[Main] = "read" /\ Goto(Main, "idle")
  /\ readonlythisindex' = -1
  /\ UNCHANGED <<shared, job, ch, local, odb, read>>

MainContinues ==
  \/ Command(Main) \/ Finish(Main) \/ Load(Main) \/ Store(Main)
  \/ Compare \/ Switched \/ Reread \/ Keep \/ Copy \/ Push \/ Levels \/ LevelSet \/ StartReading

-----------------------------------------------------------------------------
(* The user in the ODB, and the instrument's protection. *)
Request ==
  /\ requests < MaxRequests /\ requests' = requests + 1
  /\ \E i \in Channels :
       \/ /\ odbSet' = [odbSet EXCEPT ![i] = ~@] /\ pending' = pending \cup {"state"}
          /\ UNCHANGED wanted
       \/ /\ wanted' = wanted \cup {i} /\ pending' = pending \cup {"levels"}
          /\ UNCHANGED odbSet
  /\ UNCHANGED <<instrument, replies, power_mutex, places, local, state, odbState, flags, trips, late>>

Trip ==
  /\ trips < MaxTrips /\ trips' = trips + 1
  /\ \E i \in Channels : out[i] /\ out' = [out EXCEPT ![i] = FALSE]
  /\ UNCHANGED <<sel, replies, power_mutex, places, local, state, odb, flags, requests, late>>

Next ==
  \/ ReadLoop \/ Begin(Main) \/ MainContinues
  \/ SetStateChanged \/ DemandVoltageChanged \/ read_power
  \/ Request \/ Trip

(* The threads run; the equipment is read every second; the read thread    *)
(* sleeps between its passes with the mutex free, so that the main thread  *)
(* gets it in the end.                                                     *)
Fairness ==
  /\ WF_vars(ReadLoop) /\ WF_vars(MainContinues) /\ SF_vars(Begin(Main)) /\ WF_vars(read_power)

Spec == Init /\ [][Next]_vars /\ Fairness

-----------------------------------------------------------------------------
(* The type of the variables (PowerDriver.h). *)
TypeOK ==
  /\ sel \in Channels /\ out \in [Channels -> BOOLEAN] /\ replies \in Seq(Replies)
  /\ power_mutex \in Threads \cup {NoThread}
  /\ pc \in [Threads -> Places] /\ job \in [Threads -> Jobs] /\ ch \in [Threads -> 0..NChannels]
  /\ res \in [Threads -> BOOLEAN] /\ word \in [Threads -> [Channels -> BOOLEAN]]
  /\ pass \in {"asked", "loop"} /\ bad \in BOOLEAN /\ err \in BOOLEAN
  /\ state \in [Channels -> BOOLEAN]
  /\ odbState \in [Channels -> BOOLEAN] /\ odbSet \in [Channels -> BOOLEAN]
  /\ wanted \subseteq Channels /\ pending \subseteq {"state", "levels"}
  /\ read \in BOOLEAN /\ readonlythisindex \in -1..NChannels
  /\ requests \in 0..MaxRequests /\ trips \in 0..MaxTrips /\ late \in 0..MaxLate

(* A command always goes to the channel it is for, whatever the other       *)
(* thread has selected in between.                                         *)
OwnChannel == \A t \in Threads : pc[t] = "selected" => sel = ch[t]

(* What a thread waits for is the last reply on the way, and no more older *)
(* ones are before it than replies have been late: one reply in time and   *)
(* the driver is in step with the instrument again.                        *)
Own(j) ==
  CASE j \in {"setState", "setVoltage"} -> {"opc"}
    [] j = "readState" -> {"on", "off"}
    [] j = "errorQueue" -> {"error"}
    [] OTHER -> {"number"}
InStep ==
  /\ power_mutex = NoThread => Len(replies) <= late
  /\ \A t \in Threads :
       pc[t] \in {"selected", "await"} =>
         /\ Len(replies) \in 1..late+1
         /\ replies[Len(replies)] \in (IF pc[t] = "selected" THEN {"opc"} ELSE Own(job[t]))

(* The book keeping comes to show the outputs: after trips, late replies   *)
(* and lost writes of a bit, and whatever channel readonlythisindex named. *)
StateFollows == <>[](state = out)

(* A callback of the ODB comes to its end. *)
CallbackReturns == pc[Main] # "idle" ~> pc[Main] = "idle"
=============================================================================
