----------------------------- MODULE MCReadout -----------------------------
(* An instance of Readout for TLC. *)
EXTENDS Readout
=============================================================================
