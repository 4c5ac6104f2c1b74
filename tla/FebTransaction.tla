--------------------------- MODULE FebTransaction ---------------------------
(***************************************************************************)
(* What FEB_write, FEB_read and FEB_broadcast promise their callers. Each  *)
(* board is a register and a queue of posted commands. A write or a read   *)
(* is executed by its board exactly once between call and return, and the  *)
(* read returns what the register held then; a broadcast may return as     *)
(* soon as it is posted. A fault of the transport, or a call that gives    *)
(* up, suspends the promise (upset) until a call finds the boards owing    *)
(* nothing but broadcasts.                                                 *)
(***************************************************************************)
EXTENDS Integers, Sequences

CONSTANTS Caller, Feb,
  Command,    \* records with op ("WR", "RD" or "BC"), feb and id
  NoCommand

VARIABLES
  open,   \* the command of each caller's open call
  phase,  \* of each caller: "idle", "called" or "executed"
  todo,   \* commands posted to each board, in order
  reg,    \* id of the last write each board executed
  got,    \* the value of the open or of the latest read
  upset   \* the promise does not hold

vars == <<open, phase, todo, reg, got, upset>>

Init ==
  /\ open = [c \in Caller |-> NoCommand]
  /\ phase = [c \in Caller |-> "idle"]
  /\ todo = [f \in Feb |-> <<>>]
  /\ reg = [f \in Feb |-> 0]
  /\ got = [c \in Caller |-> 0]
  /\ upset = FALSE

\* One transaction at a time.
Call(c, x) ==
  /\ \A d \in Caller : phase[d] = "idle"
  /\ \A f \in Feb : \A i \in 1..Len(todo[f]) : todo[f][i].op = "BC"
  /\ open' = [open EXCEPT ![c] = x]
  /\ phase' = [phase EXCEPT ![c] = "called"]
  /\ todo' = [f \in Feb |-> IF x.op = "BC" \/ f = x.feb
                            THEN Append(todo[f], x) ELSE todo[f]]
  /\ got' = [got EXCEPT ![c] = 0]
  /\ upset' = FALSE
  /\ UNCHANGED reg

\* A board executes a broadcast whenever it comes to it.
ExecuteBroadcast(f) ==
  /\ todo[f] # <<>> /\ Head(todo[f]).op = "BC"
  /\ todo' = [todo EXCEPT ![f] = Tail(@)]
  /\ reg' = [reg EXCEPT ![f] = Head(todo[f]).id]
  /\ UNCHANGED <<open, phase, got, upset>>

\* It executes the command of the open call c and answers to c.
Execute(f, c) ==
  /\ todo[f] # <<>> /\ Head(todo[f]) = open[c]
  /\ phase[c] = "called" /\ open[c].op # "BC"
  /\ phase' = [phase EXCEPT ![c] = "executed"]
  /\ todo' = [todo EXCEPT ![f] = Tail(@)]
  /\ IF open[c].op = "WR"
     THEN reg' = [reg EXCEPT ![f] = open[c].id] /\ got' = got
     ELSE reg' = reg /\ got' = [got EXCEPT ![c] = reg[f]]
  /\ UNCHANGED <<open, upset>>

\* OK.
Return(c) ==
  /\ phase[c] = "executed" \/ (phase[c] = "called" /\ open[c].op = "BC")
  /\ open' = [open EXCEPT ![c] = NoCommand]
  /\ phase' = [phase EXCEPT ![c] = "idle"]
  /\ UNCHANGED <<todo, reg, got, upset>>

\* A fault, a call that gives up, and whatever follows.
Fail == upset' = TRUE

Next ==
  \/ \E c \in Caller, x \in Command : Call(c, x)
  \/ \E c \in Caller : Return(c)
  \/ \E f \in Feb : ExecuteBroadcast(f) \/ \E c \in Caller : Execute(f, c)
  \/ Fail

Spec == Init /\ [][Next]_vars
=============================================================================
