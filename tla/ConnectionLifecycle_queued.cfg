\* Two messages are queued.
SPECIFICATION FairSpec
CONSTANTS
  connect = connect  loss = loss  s1 = s1  s2 = s2  k1 = k1  k2 = k2
  o1 = o1  o2 = o2  n1 = n1  n2 = n2  None = None
  Connector <- connect
  LossHandler <- loss
  Senders <- TwoSenders
  Closers <- OneCloser
  Owners <- NoOwner
  Names <- OneName
  OwnNames <- NoOwnName
  Faults <- Calm
PROPERTIES QueuedMessagesAreSent
\* Every coroutine may have ended, or wait for a reply that never comes.
CHECK_DEADLOCK FALSE
