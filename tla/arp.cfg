\* Two hosts share the cache's timer; the link changes once.
SPECIFICATION FairSpec
CONSTANTS
  Hosts = {h1, h2}
  m_aliveTimeout = 2
  m_deadTimeout = 2
  m_waitReplyTimeout = 2
  m_maxRetries = 1
  m_pendingQueueSize = 2
  MaxJitter = 0
  MaxPackets = 3
  MaxLookups = 3
  MaxFlushes = 1
INVARIANTS
  QueuedOnlyWhileWaiting
  TimerCoversWaiting
  PacketsOnce
PROPERTIES
  EveryWaitEnds
  ResolverSpec
