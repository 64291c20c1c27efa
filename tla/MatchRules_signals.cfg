\* Rules of up to two conditions against signals of every kind; every string of up
\* to six characters, where names have five at most.
SPECIFICATION Spec
CONSTANTS
  SmallBuffer = 32
  MaxArray = 1024
  MaxNameLength = 6
  Alphabet <- SomeCharacters
  MaxTyped = 6
  Types <- SomeTypes
  Senders <- SomeSenders
  InterfaceNames <- SomeInterfaceNames
  MemberNames <- SomeMemberNames
  ObjectPaths <- SomeObjectPaths
  UniqueNames <- SomeUniqueNames
  Indices <- SomeIndices
  ArgumentTexts <- SomeArgumentTexts
  Namespaces <- SomeNamespaces
  MaxCalls = 2
  Signals <- SomeSignals
INVARIANTS RulesAreAccepted DeliversWhatTheDaemonSends HandlesOnlyWhatMatches
           ValidatesLikeTheProtocol
\* A rule that is empty, or refused by the daemon, stays so; so does an answer.
CHECK_DEADLOCK FALSE
