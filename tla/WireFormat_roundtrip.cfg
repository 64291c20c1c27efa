\* Every kind of value at every position, to and from this library and its peers.
SPECIFICATION Spec
CONSTANTS
  SmallBuffer = 32
  MaxArray = 32
  MaxNameLength = 255
  Letters <- SomeLetters
  ReadAs <- SomeReaders
INVARIANTS WritesAsPeers UnderstandsPeers UnderstandsItself
\* A letter that was read, or refused, stays so.
CHECK_DEADLOCK FALSE
