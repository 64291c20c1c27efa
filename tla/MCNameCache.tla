----------------------------- MODULE MCNameCache -----------------------------
(* Instances of NameCache for TLC. *)
EXTENDS NameCache

CONSTANTS c1, c2, n1, n2

TwoConns == {c1, c2}
TwoNames == {n1, n2}
==============================================================================
