\* A timer of an earlier round closes a later one.
SPECIFICATION Spec
CONSTANTS
  total_of_node = 3
  MaxRound = 4
  MaxSends = 1
  Lossy = FALSE
  NoArea = NoArea
  MAX_ITER = 200
  FreeRounds = 99
  MaxLate = 99
\* The process may die and the bounds end every behaviour.
CHECK_DEADLOCK FALSE
PROPERTIES
  TimerBelongsToRound
