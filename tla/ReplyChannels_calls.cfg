\* Three messages over two slots, serials 1, 2 and 0: the third meets the second's
\* slot, by a fallback channel when that is unreleased, and a wrapped counter.
CONSTANTS
  c1 = c1  c2 = c2  c3 = c3
  Calls <- ThreeCalls
  NumSlots = 2
  SerialModulus = 3
  None = None
  Absent = Absent
SPECIFICATION FairSpec
INVARIANTS OwnReply NoUnknownReply RoomForEveryReply ChannelsAccounted
PROPERTIES TakenByItsCaller ImplementsMethodCalls EveryCallEnds
\* Messages are sent once each and a lost connection stays lost.
CHECK_DEADLOCK FALSE
