\* A peer's message, and one built by the user, changed up to twice.
SPECIFICATION Spec
CONSTANTS
  SmallBuffer = 4
  MaxArray = 1024
  MaxNameLength = 6
  PeerMessages <- SomePeerMessages
  Arguments <- SomeArguments
  Members <- SomeMembers
  Paths <- SomePaths
  Interfaces <- SomeInterfaces
  Destinations <- SomeDestinations
  ErrorNames <- SomeErrorNames
  Texts <- SomeTexts
  SenderName <- One
  Serial = 5
  MaxSetters = 2
INVARIANTS SerializesAsPeers ArrivesWhole SentIsAccepted RepliesCorrelate
\* A message that was refused, or read, is the last.
CHECK_DEADLOCK FALSE
