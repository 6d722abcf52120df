\* Three areas on a lossy channel, rounds 1 to 5, from the fourth on with few packets of
\* closed rounds; the script runs out of rounds.
SPECIFICATION Spec
CONSTANTS
  total_of_node = 3
  MaxRound = 5
  MaxSends = 1
  Lossy = TRUE
  NoArea = NoArea
  MAX_ITER = 4
  FreeRounds = 3
  MaxLate = 1
CONSTRAINT FewLate
\* The process may die and the bounds end every behaviour.
CHECK_DEADLOCK FALSE
INVARIANTS
  TypeOK
  CounterCountsAreas
  OnePacketPerAreaAndRound
  NothingFromTheFuture
  NoMixedIterations
  EarlyRequestsAreOwn
  AbortHasCause
  NoOldResults
  TimersBounded
PROPERTIES
  BarrierSpec
  AsksEveryArea
