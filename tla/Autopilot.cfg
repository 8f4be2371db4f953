SPECIFICATION FairSpec
CONSTANTS
  a = a
  b = b
  f = f
  t1 = t1
  Testers = {t1}
  None = None
  Sources = {a, b}
  Surfaces = {f}
  Evidence = {TRUE, FALSE}
  MaxEpoch = 2
  MaxKills = 1
INVARIANTS FilesAgree
PROPERTIES StampsAreFresh VerifiedSyncs
CHECK_DEADLOCK FALSE
