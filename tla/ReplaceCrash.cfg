SPECIFICATION FairSpec
CONSTANTS
  Keys = {1, 2, 3}
  None = None
  Bystander = Bystander
  Topologies = {"job", "pane"}
  Modes = {"lost", "restart"}
  DryRuns = {TRUE, FALSE}
  Careful = TRUE
  MaxJobs = 4
  MaxKills = 2
INVARIANTS TypeOK OneLiveExecution ReplacedHoldsNoClaim
PROPERTIES ReplacementSettles
ACTION_CONSTRAINT KeysInOrder
CHECK_DEADLOCK FALSE
