--------------------------- MODULE MCPowerSupply ---------------------------
(* An instance of PowerSupply for TLC. *)
EXTENDS PowerSupply

CONSTANT MaxEvents  \* bound: requests, trips and late replies together

Two == <<"readVoltage", "readCurrent">>

(* Both channels are on at first, and readonlythisindex happens to be -1.  *)
MCInit == Init /\ out = [i \in Channels |-> TRUE] /\ readonlythisindex = -1
MCNext == Next /\ requests' + trips' + late' <= MaxEvents
MCSpec == MCInit /\ [][MCNext]_vars /\ Fairness
=============================================================================
