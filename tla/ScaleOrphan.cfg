SPECIFICATION Spec
CONSTANTS
  Launched = 1
  MaxWorkers = 2
  Sizes = {1}
  Views = {"same_window"}
  AddViews = {"same_window"}
  MaxPanes = 4
  MaxGeneration = 1
  MaxEnds = 0
  MaxFaults = 0
  MaxKills = 1
INVARIANTS LaunchedOnce
CHECK_DEADLOCK FALSE
