\* Two stations, the first packet in three fragments, two sequence numbers.
SPECIFICATION FairSpec
CONSTANTS
  Stations = {s1, s2}
  Broadcast = Broadcast
  NoMpdu = NoMpdu
  m_maxSize = 2
  m_maxSsrc = 2
  SequenceModulo = 2
  Pieces = 3
  LongPackets = {1}
  MaxPackets = 3
CHECK_DEADLOCK FALSE
INVARIANTS
  AccessIsPending
  AckedIsForwarded
  ForwardedOnce
PROPERTIES
  EveryPacketLeaves
  LinkSpec
