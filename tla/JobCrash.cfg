SPECIFICATION Spec
CONSTANTS
  c1 = c1
  c2 = c2
  Callers = {c1, c2}
  Starter = c1
  None = None
  Budget = 2
  BindInner = TRUE
  Commands = {"cancel", "recover", "gc"}
  Faults = {"spawn", "identity", "caller", "canceller", "runner"}
INVARIANTS TypeOK OneLiveProvider LostIsDead CancelSticks CancelledAttemptIsQuiet
CHECK_DEADLOCK FALSE
