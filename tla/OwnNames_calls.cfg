\* Four calls for one name, so that two requests at a time meet a release and a
\* request after it, against one other client that does what it likes.
SPECIFICATION Spec
CONSTANTS
  c1 = c1  c2 = c2  c3 = c3  c4 = c4  n1 = n1  p1 = p1
  Calls <- FourCalls
  Names <- OneName
  Us = Us
  Peers <- OnePeer
  PeerFlags <- FourFlags
SYMMETRY Symmetry
INVARIANTS KnownNamesAreListed ListedNamesAreKnown
\* The calls are made once each.
CHECK_DEADLOCK FALSE
