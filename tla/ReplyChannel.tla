---------------------------- MODULE ReplyChannel ----------------------------
(***************************************************************************)
(* What SC secondary, the RO memory and FEBsc_read_packets promise: the    *)
(* answers of each link reach sc_packet_deque whole, once and in order;    *)
(* answers of different links are merged. A reset may lose what has not    *)
(* been fetched yet, and nothing else.                                     *)
(***************************************************************************)
EXTENDS SequencesExt

CONSTANTS Link, Packet

VARIABLES
  out,    \* per link: answers not yet in the RO memory
  ring,   \* answers in the RO memory
  got     \* answers fetched

vars == <<out, ring, got>>

Init == out = [l \in Link |-> <<>>] /\ ring = <<>> /\ got = <<>>

Send(l, p) ==
  /\ out' = [out EXCEPT ![l] = Append(@, p)]
  /\ UNCHANGED <<ring, got>>

Publish(l) ==
  /\ out[l] # <<>>
  /\ out' = [out EXCEPT ![l] = Tail(@)]
  /\ ring' = Append(ring, Head(out[l]))
  /\ UNCHANGED got

Fetch ==
  /\ ring # <<>>
  /\ ring' = Tail(ring)
  /\ got' = Append(got, Head(ring))
  /\ UNCHANGED out

Reset ==
  /\ ring' = <<>>
  /\ \A l \in Link : IsSuffix(out'[l], out[l])
  /\ DOMAIN out' = Link
  /\ UNCHANGED got

Next ==
  \/ \E l \in Link, p \in Packet : Send(l, p)
  \/ \E l \in Link : Publish(l)
  \/ Fetch
  \/ Reset

Spec == Init /\ [][Next]_vars
=============================================================================
