SPECIFICATION FairSpec
CONSTANTS
  Launched = 2
  MaxWorkers = 4
  Sizes = {1, 2}
  Views = {"legacy_windows", "same_window", "detached_session"}
  AddViews = {"legacy_windows"}
  MaxPanes = 10
  MaxGeneration = 2
  MaxEnds = 1
  MaxFaults = 1
  MaxKills = 2
INVARIANTS LaunchedOnce NothingOrphaned ChainFollowsTeam StoppedIsQuiet
PROPERTIES PendingCommits
CHECK_DEADLOCK FALSE
