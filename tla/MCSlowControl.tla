--------------------------- MODULE MCSlowControl ---------------------------
(* An instance of SlowControl for TLC. *)
EXTENDS SlowControl

CONSTANTS c1, c2, f1, f2
MCCaller == {c1, c2}
MCFeb == {f1, f2}
MCReadLen == {1, 2}
=============================================================================
