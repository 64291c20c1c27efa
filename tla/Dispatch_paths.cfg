\* One message and a handler for each of two paths.
SPECIFICATION Spec
CONSTANTS
  p1 = p1  p2 = p2
  Paths <- TwoPaths
  MaxMessages = 1
  MaxFilters = 1
  MaxHandlers = 1
  MaxIncoming = 1
INVARIANTS OnlyItsPath
CHECK_DEADLOCK FALSE
