----------------------------- MODULE MCScMain -----------------------------
(* Instances of ScMain for TLC. *)
EXTENDS ScMain

CONSTANTS f1, f2
MCFeb == {f1, f2}
MCHighFeb == {f2}
\* FEB_read, the shortest write, and the longest that fits the memory
MCSize == {0, 1, MemLen - 4}
=============================================================================
