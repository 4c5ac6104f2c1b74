---------------------------- MODULE MCReplyRing ----------------------------
(* Instances of ReplyRing for TLC. *)
EXTENDS ReplyRing

MCOneLen == {1}
=============================================================================
