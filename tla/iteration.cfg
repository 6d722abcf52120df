\* Vectors of three entries instead of 24, rounds 2 to 5, up to two updates.
SPECIFICATION Spec
CONSTANTS
  N = 3
  rho = 2
  Scale = 8
  XValues = {0, 1, 3}
  MaxRound = 5
\* The bound on rounds and a failed script end every behaviour.
CHECK_DEADLOCK FALSE
INVARIANTS
  DualsBalance
  AreasUseStoredVectors
  OnlyPartnersFail
