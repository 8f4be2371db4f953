SPECIFICATION Spec
CONSTANTS
  c1 = c1
  c2 = c2
  c3 = c3
  Callers = {c1, c2, c3}
  Starter = c1
  None = None
  Budget = 3
  BindInner = TRUE
  Commands = {"cancel"}
  Faults = {"runner"}
SYMMETRY RetrySymmetry
CONSTRAINT CancelsFirst
INVARIANTS OrphansBlockRecovery
CHECK_DEADLOCK FALSE
