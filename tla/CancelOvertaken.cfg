SPECIFICATION FairSpec
CONSTANTS
  r1 = r1
  r2 = r2
  p1 = p1
  p2 = p2
  Runs = {r1, r2}
  Procs = {p1, p2}
  None = None
  Autopilots = {r2}
  MaxHosts = 2
  MaxCommands = 3
  MaxKills = 1
PROPERTIES NextOwnerFinalizes
CHECK_DEADLOCK FALSE
