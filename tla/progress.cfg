\* Two clients that send their start vector twice or never answer.
SPECIFICATION ProgressSpec
CONSTANTS
  total_of_node = 2
  MaxRound = 4
  MaxSends = 2
  Lossy = TRUE
  NoArea = NoArea
  MAX_ITER = 200
  FreeRounds = 99
  MaxLate = 99
\* The process may die and the bounds end every behaviour.
CHECK_DEADLOCK FALSE
INVARIANTS
  FirstRoundHasEveryArea
  MiscountStaysInFirstRound
PROPERTIES
  RoundsKeepClosing
  FirstRoundCloses
