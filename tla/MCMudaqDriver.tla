-------------------------- MODULE MCMudaqDriver --------------------------
(* An instance of MudaqDriver for TLC. *)
EXTENDS MudaqDriver, TLC

CONSTANTS u1, u2
MCUsers == {u1, u2}
MCHostPages == {1, 3, 4, 6}
Symmetry == Permutations(MCUsers)
=============================================================================
