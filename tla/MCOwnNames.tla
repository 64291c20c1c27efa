------------------------------ MODULE MCOwnNames ------------------------------
(* Small instances of OwnNames for TLC. *)
EXTENDS OwnNames, TLC

CONSTANTS c1, c2, c3, c4, n1, p1

FourCalls  == {c1, c2, c3, c4}
OneName    == {n1}
OnePeer    == {p1}

\* A peer that waits, one that lets others take over, and would wait then or not,
\* and one that takes over.
FourFlags  == {{}, {"ALLOW_REPLACEMENT"}, {"ALLOW_REPLACEMENT", "DO_NOT_QUEUE"},
               {"REPLACE_EXISTING"}}

Symmetry   == Permutations(Calls)
================================================================================
