\* The daemon stays but may refuse any request; a message and two name requests
\* may be queued.
SPECIFICATION FairSpec
CONSTANTS
  connect = connect  loss = loss  s1 = s1  s2 = s2  k1 = k1  k2 = k2
  o1 = o1  o2 = o2  n1 = n1  n2 = n2  None = None
  Connector <- connect
  LossHandler <- loss
  Senders <- OneSender
  Closers <- OneCloser
  Owners <- TwoOwners
  Names <- TwoNames
  OwnNames <- OneOwnName
  Faults <- Refusals
PROPERTIES ConnectEnds FirstQueuedIsSent CloseReturns
\* Every coroutine may have ended, or wait for a reply that never comes.
CHECK_DEADLOCK FALSE
