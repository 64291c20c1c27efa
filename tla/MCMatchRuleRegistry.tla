-------------------------- MODULE MCMatchRuleRegistry --------------------------
(* A small instance of MatchRuleRegistry for TLC. *)
EXTENDS MatchRuleRegistry, TLC

CONSTANTS c1, c2, c3, c4, r1, r2

FourCalls == {c1, c2, c3, c4}
TwoRules  == {r1, r2}
OneThrows == {c1}
Symmetry  == Permutations(Calls \ Throwing) \cup Permutations(Rules)
================================================================================
