\* A late area counts with the request it was sent.
SPECIFICATION Spec
CONSTANTS
  N = 3
  rho = 2
  Scale = 8
  XValues = {1, 3}
  MaxRound = 5
\* The bound on rounds and a failed script end every behaviour.
CHECK_DEADLOCK FALSE
INVARIANTS
  LateCountWithPreviousData
