---------------------------- MODULE MCReplyChannels ----------------------------
(* A small instance of ReplyChannels for TLC. *)
EXTENDS ReplyChannels

CONSTANTS c1, c2, c3

ThreeCalls == {c1, c2, c3}
================================================================================
