\* A sender, two closers and a name request; the daemon may refuse the
\* connection or a request, the connection may be lost or closed too early, a
\* wait cancelled.
SPECIFICATION FairSpec
CONSTANTS
  connect = connect  loss = loss  s1 = s1  s2 = s2  k1 = k1  k2 = k2
  o1 = o1  o2 = o2  n1 = n1  n2 = n2  None = None
  Connector <- connect
  LossHandler <- loss
  Senders <- OneSender
  Closers <- TwoClosers
  Owners <- OneOwner
  Names <- TwoNames
  OwnNames <- OneOwnName
  Faults <- AllFaults
INVARIANTS TypeOK LostStaysLost OwnCloseIsNoLoss ReadyMeansReading RulesAgree
           LoopEndsBeforeClose
PROPERTIES LossReported
\* Every coroutine may have ended, or wait for a reply that never comes.
CHECK_DEADLOCK FALSE
