\* The user's rule is tried after the cache's.
SPECIFICATION FairSpec
CONSTANTS
  c1 = c1  c2 = c2  n1 = n1  n2 = n2  None = None
  Conns <- TwoConns
  Names <- TwoNames
  MaxPending = 3
  UserRuleFirst = FALSE
INVARIANTS OneOwner ListsTheOwner
PROPERTIES ImplementsNameDirectory CatchesUp
