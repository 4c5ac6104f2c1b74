----------------------------- MODULE RunControl -----------------------------
(***************************************************************************)
(* Starting and stopping a run: the quads frontend writes commands to      *)
(* registers, a10_reset_link turns them into words on the reset link that  *)
(* all front-end boards (FEBs) hear at once, the boards acknowledge on     *)
(* their data links, and run_control with one listener per link collects   *)
(* the acknowledges that begin_of_run waits for.  MIDAS calls              *)
(* begin_of_run and end_of_run; the frontend may be restarted and a board  *)
(* may lose its power at any moment.                                       *)
(***************************************************************************)
EXTENDS Integers, Sequences

CONSTANTS
  N_FEBS,      \* boards, board f on link f
  FEBsActive,  \* boards marked active in the ODB
  MaxRuns,     \* bound: runs begun
  MaxCycles,   \* bound: uses of the command "Run Cycle FEB"
  MaxRestarts, \* bound: restarts of the frontend
  MaxOff       \* bound: boards losing power

Febs == 0..N_FEBS-1

ASSUME FebAssumption == N_FEBS \in Nat \ {0} /\ FEBsActive \subseteq Febs
ASSUME BoundAssumption == {MaxRuns, MaxCycles, MaxRestarts, MaxOff} \subseteq Nat

VARIABLES
  pc,               \* what the frontend is doing
  todo,             \* commands it has yet to write, the one being written first
  inrun,            \* MIDAS takes the run for running
  run_number,       \* of MIDAS
  RUN_NR, reset_ctl, reset_run_number,     \* registers of the PCIe card
  reg_run_command, reset_state,            \* a10_reset_link
  feb_state, feb_run, uplink,              \* a board, and what it has sent
  run_prep_acknowledge_received, end_of_run_received, listened_number,
  time_is_zero,     \* o_time_counter = 0
  got,              \* history: boards and the run numbers they were prepared for
  cycles, restarts, offs

frontend == <<pc, todo, inrun, run_number>>
registers == <<RUN_NR, reset_ctl, reset_run_number>>
link == <<reg_run_command, reset_state>>
boards == <<feb_state, feb_run, uplink, got>>
listeners == <<run_prep_acknowledge_received, end_of_run_received, listened_number>>
bounds == <<cycles, restarts, offs>>
vars == <<frontend, registers, link, boards, listeners, time_is_zero, bounds>>

None == "none"     \* x"00", and no word on the link
Commands == {"Abort Run", "Stop Reset", "Run Prepare", "Sync", "Start Run", "End Run"}
AbortAndPrepare == <<"Abort Run", "Stop Reset", "Run Prepare">>

Init ==
  /\ pc = "init" /\ todo = <<"Abort Run", "Stop Reset">>
  /\ inrun = FALSE /\ run_number = 0
  /\ RUN_NR = 0 /\ reset_ctl = None /\ reset_run_number = 0
  /\ reg_run_command = None /\ reset_state = "idle"
  /\ feb_state = [f \in Febs |-> "idle"] /\ feb_run = [f \in Febs |-> 0]
  /\ uplink = [f \in Febs |-> <<>>] /\ got = {}
  /\ run_prep_acknowledge_received = {} /\ end_of_run_received = {}
  /\ listened_number = [f \in Febs |-> 0] /\ time_is_zero = TRUE
  /\ cycles = 0 /\ restarts = 0 /\ offs = 0

-----------------------------------------------------------------------------
(***************************************************************************)
(* The boards (not part of the repository): what they do on the words of   *)
(* the reset link.  A board that has no power hears nothing.               *)
(***************************************************************************)
After(f, word) ==
  IF feb_state[f] = "off" THEN "off" ELSE
  CASE word = "Abort Run" -> "idle"
    [] word = "number" -> "prepared"
    [] word = "Sync" /\ feb_state[f] = "prepared" -> "synced"
    [] word = "Start Run" /\ feb_state[f] = "synced" -> "running"
    [] word = "End Run" /\ feb_state[f] = "running" -> "terminating"
    [] OTHER -> feb_state[f]

Hear(word, n) ==
  LET prepared == {f \in Febs : word = "number" /\ feb_state[f] # "off"} IN
  /\ feb_state' = [f \in Febs |-> After(f, word)]
  /\ feb_run' = [f \in Febs |-> IF f \in prepared THEN n ELSE feb_run[f]]
  /\ uplink' = [f \in Febs |-> IF f \in prepared THEN Append(uplink[f], n) ELSE uplink[f]]
  /\ got' = got \cup (prepared \X {n})

RunEnd == 0     \* the word RUN_END, among acknowledged numbers
Terminate(f) ==
  /\ feb_state[f] = "terminating"
  /\ feb_state' = [feb_state EXCEPT ![f] = "idle"]
  /\ uplink' = [uplink EXCEPT ![f] = Append(@, RunEnd)]
  /\ UNCHANGED <<frontend, registers, link, feb_run, got, listeners, time_is_zero, bounds>>

PowerOff(f) ==
  /\ feb_state[f] # "off" /\ offs < MaxOff
  /\ offs' = offs + 1
  /\ feb_state' = [feb_state EXCEPT ![f] = "off"]
  /\ feb_run' = [feb_run EXCEPT ![f] = 0]
  /\ uplink' = [uplink EXCEPT ![f] = <<>>]
  /\ UNCHANGED <<frontend, registers, link, got, listeners, time_is_zero, cycles, restarts>>

PowerOn(f) ==
  /\ feb_state[f] = "off"
  /\ feb_state' = [feb_state EXCEPT ![f] = "idle"]
  /\ UNCHANGED <<frontend, registers, link, feb_run, uplink, got, listeners, time_is_zero, bounds>>

Board == \E f \in Febs : Terminate(f) \/ PowerOff(f) \/ PowerOn(f)

-----------------------------------------------------------------------------
(***************************************************************************)
(* a10_reset_link: one step per clock in which something happens.  The     *)
(* four bytes of the run number are one word.                              *)
(***************************************************************************)
Edge(command) == reg_run_command = None /\ reset_ctl = command
Direct == reg_run_command = None /\ reset_ctl \notin {None, "Run Prepare", "Sync", "Start Run", "End Run"}

Step(state, command, next) ==
  /\ reset_state = state /\ Edge(command)
  /\ reset_state' = next
  /\ Hear(command, 0)

SendDirect == Direct /\ reset_state' = "idle" /\ Hear(reset_ctl, 0)
SendNumber ==
  /\ ~Direct /\ reset_state = "rNB"
  /\ reset_state' = "sync"
  /\ Hear("number", reset_run_number)

\* In any other case the command is ignored.
SendNothing ==
  /\ ~Direct /\ reset_state # "rNB" /\ reset_ctl # reg_run_command
  /\ ~\E p \in {<<"idle", "Run Prepare">>, <<"sync", "Sync">>,
                <<"start_run", "Start Run">>, <<"end_run", "End Run">>} :
        reset_state = p[1] /\ Edge(p[2])
  /\ UNCHANGED <<reset_state, boards>>

\* Mutant: the end of a run is not taken in the state end_run.
ClockNoEnd ==
  /\ \/ SendDirect
     \/ Step("idle", "Run Prepare", "rNB")
     \/ SendNumber
     \/ Step("sync", "Sync", "start_run")
     \/ Step("start_run", "Start Run", "idle")
     \/ SendNothing
  /\ reg_run_command' = reset_ctl
  /\ UNCHANGED <<frontend, registers, listeners, time_is_zero, bounds>>

Clock ==
  /\ \/ SendDirect
     \/ Step("idle", "Run Prepare", "rNB")
     \/ SendNumber
     \/ Step("sync", "Sync", "start_run")
     \/ Step("start_run", "Start Run", "end_run")
     \/ Step("end_run", "End Run", "idle")
     \/ SendNothing
  /\ reg_run_command' = reset_ctl
  /\ UNCHANGED <<frontend, registers, listeners, time_is_zero, bounds>>

-----------------------------------------------------------------------------
(***************************************************************************)
(* run_control and its listeners.                                          *)
(***************************************************************************)
\* Mutant: any acknowledge counts.
AnyAck == run_prep_acknowledge_received

runNr_ack == {f \in run_prep_acknowledge_received : listened_number[f] = RUN_NR}

Listen(f) ==
  /\ uplink[f] # <<>>
  /\ uplink' = [uplink EXCEPT ![f] = Tail(@)]
  /\ IF Head(uplink[f]) = RunEnd
     THEN /\ run_prep_acknowledge_received' = run_prep_acknowledge_received \ {f}
          /\ end_of_run_received' = end_of_run_received \cup {f}
          /\ UNCHANGED listened_number
     ELSE /\ run_prep_acknowledge_received' = run_prep_acknowledge_received \cup {f}
          /\ end_of_run_received' = end_of_run_received \ {f}
          /\ listened_number' = [listened_number EXCEPT ![f] = Head(uplink[f])]
  /\ UNCHANGED <<frontend, registers, link, feb_state, feb_run, got, time_is_zero, bounds>>

\* o_time_counter counts, or is held at 0 as long as a board acknowledges.
Tick ==
  /\ time_is_zero' = (runNr_ack # {})
  /\ UNCHANGED <<frontend, registers, link, boards, listeners, bounds>>

-----------------------------------------------------------------------------
(***************************************************************************)
(* The quads frontend.                                                     *)
(***************************************************************************)
\* Mutant: it does not wait for the command to be processed.
Impatient == reset_state # "rNB"

\* It sleeps after each write until the command is processed.
Processed == reset_ctl = reg_run_command /\ reset_state # "rNB"
Free == todo = <<>> /\ Processed

WriteCommand ==
  /\ todo # <<>> /\ reset_ctl = None /\ Processed
  /\ reset_ctl' = Head(todo)
  /\ reset_run_number' = CASE Head(todo) = "Run Prepare" -> run_number
                           [] Head(todo) = "Stop Reset" /\ pc # "init" -> 0
                           [] OTHER -> reset_run_number
  /\ UNCHANGED <<frontend, RUN_NR, link, boards, listeners, time_is_zero, bounds>>

ClearCommand ==
  /\ reset_ctl # None /\ Processed
  /\ reset_ctl' = None /\ todo' = Tail(todo)
  /\ UNCHANGED <<pc, inrun, run_number, RUN_NR, reset_run_number, link, boards, listeners,
                 time_is_zero, bounds>>

\* Mutant: the number acknowledges are compared with is one ahead.
BeginOfRunAhead ==
  /\ pc \in {"stopped", "cycled"} /\ ~inrun /\ run_number < MaxRuns
  /\ pc' = "begin" /\ todo' = AbortAndPrepare
  /\ run_number' = run_number + 1 /\ RUN_NR' = run_number + 2
  /\ run_prep_acknowledge_received' = {} /\ listened_number' = [f \in Febs |-> 0]
  /\ UNCHANGED <<inrun, reset_ctl, reset_run_number, link, boards, end_of_run_received,
                 time_is_zero, bounds>>

\* RUN_START_ACK and RUN_END_ACK are reset together: the listeners see the first
\* and keep the run end. MIDAS increments the run number for each attempt.
BeginOfRun ==
  /\ pc \in {"stopped", "cycled"} /\ ~inrun /\ run_number < MaxRuns
  /\ pc' = "begin" /\ todo' = AbortAndPrepare
  /\ run_number' = run_number + 1 /\ RUN_NR' = run_number + 1
  /\ run_prep_acknowledge_received' = {} /\ listened_number' = [f \in Febs |-> 0]
  /\ UNCHANGED <<inrun, reset_ctl, reset_run_number, link, boards, end_of_run_received,
                 time_is_zero, bounds>>

\* false || (1 << idx) is 1, whatever idx.
link_active_from_odb == IF FEBsActive = {} THEN {} ELSE {0}

Prepared ==
  /\ pc = "begin" /\ Free
  /\ pc' = "ack"
  /\ UNCHANGED <<todo, inrun, run_number, registers, link, boards, listeners, time_is_zero, bounds>>

Acknowledged ==
  /\ pc = "ack" /\ link_active_from_odb \subseteq runNr_ack
  /\ pc' = "go" /\ todo' = <<"Sync", "Start Run">>
  /\ UNCHANGED <<inrun, run_number, registers, link, boards, listeners, time_is_zero, bounds>>

\* The last of 300 polls denies the start even if it finds all acknowledges.
Denied ==
  /\ pc = "ack"
  /\ pc' = "stopped"
  /\ UNCHANGED <<todo, inrun, run_number, registers, link, boards, listeners, time_is_zero, bounds>>

EndOfRun ==
  /\ pc \in {"running", "stopped"} /\ inrun
  /\ pc' = "end" /\ todo' = <<"End Run">>
  /\ UNCHANGED <<inrun, run_number, registers, link, boards, listeners, time_is_zero, bounds>>

\* "Run Cycle FEB" does not wait for acknowledges.
RunCycle ==
  /\ pc \in {"running", "stopped", "cycled"} /\ cycles < MaxCycles
  /\ pc' = "cycle" /\ cycles' = cycles + 1
  /\ todo' = AbortAndPrepare \o <<"Sync", "Start Run">>
  /\ UNCHANGED <<inrun, run_number, registers, link, boards, listeners, time_is_zero, restarts, offs>>

\* begin_of_run, end_of_run, the run cycle or frontend_init returns.
Return ==
  /\ Free
  /\ \/ pc = "go" /\ pc' = "running" /\ inrun' = TRUE
     \/ pc = "end" /\ pc' = "stopped" /\ inrun' = FALSE
     \/ pc = "init" /\ pc' = "stopped" /\ UNCHANGED inrun
     \/ pc = "cycle" /\ pc' = (IF inrun THEN "running" ELSE "cycled") /\ UNCHANGED inrun
  /\ UNCHANGED <<todo, run_number, registers, link, boards, listeners, time_is_zero, bounds>>

Restart ==
  /\ restarts < MaxRestarts
  /\ restarts' = restarts + 1
  /\ pc' = "init" /\ todo' = <<"Abort Run", "Stop Reset">>
  /\ reset_ctl' = None
  /\ UNCHANGED <<inrun, run_number, RUN_NR, reset_run_number, link, boards, listeners,
                 time_is_zero, cycles, offs>>

Frontend ==
  \/ WriteCommand \/ ClearCommand \/ BeginOfRun \/ Prepared \/ Acknowledged \/ Denied
  \/ EndOfRun \/ RunCycle \/ Return \/ Restart

Next == Frontend \/ Clock \/ Tick \/ Board \/ \E f \in Febs : Listen(f)

Spec == Init /\ [][Next]_vars

-----------------------------------------------------------------------------
\* Types of all variables.
TypeOK ==
  /\ pc \in {"init", "stopped", "begin", "ack", "go", "running", "end", "cycle", "cycled"}
  /\ todo \in Seq(Commands) /\ inrun \in BOOLEAN /\ time_is_zero \in BOOLEAN
  /\ {run_number, RUN_NR, reset_run_number} \subseteq 0..MaxRuns
  /\ {reset_ctl, reg_run_command} \subseteq Commands \cup {None}
  /\ reset_state \in {"idle", "rNB", "sync", "start_run", "end_run"}
  /\ feb_state \in [Febs -> {"idle", "prepared", "synced", "running", "terminating", "off"}]
  /\ {feb_run, listened_number} \subseteq [Febs -> 0..MaxRuns]
  /\ uplink \in [Febs -> Seq(0..MaxRuns)]
  /\ run_prep_acknowledge_received \subseteq Febs /\ end_of_run_received \subseteq Febs
  /\ got \subseteq Febs \X (0..MaxRuns)
  /\ {cycles, restarts, offs} \subseteq Nat

\* When begin_of_run has returned with success, every board that was prepared for
\* this run is running it: a10_reset_link has ignored none of the commands, after
\* whatever denied, ended, aborted or cycled run.
NoneLeftBehind ==
  pc = "running" => \A f \in Febs : feb_run[f] = run_number /\ feb_run[f] # 0 => feb_state[f] = "running"

\* No board takes data once a run has ended, was denied, or the frontend came back
\* from a restart.
StoppedMeansStopped ==
  pc = "stopped" => \A f \in Febs : feb_state[f] \notin {"synced", "running"}

\* A start that is acknowledged was heard by the boards waited for: an acknowledge
\* of an earlier attempt, still in a listener or on its way, does not count.
AckMeansPrepared ==
  pc \in {"go", "running"} => \A f \in link_active_from_odb : <<f, run_number>> \in got

\* begin_of_run waits "for run prepare acknowledge from all FEBs".
AllPrepared == pc \in {"go", "running"} => \A f \in FEBsActive : <<f, run_number>> \in got

=============================================================================
