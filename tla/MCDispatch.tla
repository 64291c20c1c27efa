----------------------------- MODULE MCDispatch -----------------------------
(* A small instance of Dispatch for TLC. *)
EXTENDS Dispatch, TLC

CONSTANTS p1, p2

TwoPaths == {p1, p2}
=============================================================================
