\* Two messages, two paths, and two callbacks wherever their order matters.
SPECIFICATION FairSpec
CONSTANTS
  p1 = p1  p2 = p2
  Paths <- TwoPaths
  MaxMessages = 2
  MaxFilters = 2
  MaxHandlers = 1
  MaxIncoming = 2
INVARIANTS TypeOK HandledOrAnswered HandlersStartInOrder
PROPERTIES EveryMessageIsSettled
\* Everything may be registered, and every message settled.
CHECK_DEADLOCK FALSE
