\* Four calls, so that two additions of a rule meet a removal and a rule is
\* added again; one of the callbacks throws.
SPECIFICATION Spec
CONSTANTS
  c1 = c1  c2 = c2  c3 = c3  c4 = c4  r1 = r1  r2 = r2
  Calls <- FourCalls
  Rules <- TwoRules
  Throwing <- OneThrows
  MaxSignals = 2
SYMMETRY Symmetry
INVARIANTS ListedRulesAreKnown
PROPERTIES WatchersAreCalled
\* The calls are made once each.
CHECK_DEADLOCK FALSE
