SPECIFICATION Spec
CONSTANTS
  Tasks = {1, 2, 3}
  Deps <- ThirdAfterSecond
  Writers = {1, 2}
  Teams <- OneOrTwo
  p1 = p1
  p2 = p2
  Procs = {p1, p2}
  MaxConcurrency = 2
  MaxGeneration <- FirstRecovers
SYMMETRY ProcSymmetry
INVARIANTS SpawnedOnce IntegrationStands RunningIsRecoverable
CHECK_DEADLOCK FALSE
