SPECIFICATION Spec
CONSTANTS
  Stations = {s1, s2}
  Broadcast = Broadcast
  NoMpdu = NoMpdu
  m_maxSize = 2
  m_maxSsrc = 2
  SequenceModulo = 4
  Pieces = 2
  LongPackets = {1, 2}
  MaxPackets = 2
CHECK_DEADLOCK FALSE
INVARIANTS
  FragmentsOfOnePacket
