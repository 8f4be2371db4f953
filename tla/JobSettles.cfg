SPECIFICATION FairSpec
CONSTANTS
  c1 = c1
  c2 = c2
  Callers = {c1, c2}
  Starter = c1
  None = None
  Budget = 2
  BindInner = FALSE
  Commands = {"cancel", "recover"}
  Faults = {"runner"}
INVARIANTS OneOwnerPerAttempt
PROPERTIES ImplementsLifecycle JobSettles
CHECK_DEADLOCK FALSE
