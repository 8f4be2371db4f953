SPECIFICATION FairSpec
CONSTANTS
  e1 = e1
  e2 = e2
  e3 = e3
  Events = {e1, e2, e3}
  None = None
  MaxRecords = 2
  MaxSegments = 2
  MaxAttempts = 2
  ScanLimit = 4
  Tears = {"partial"}
  MaxAppends = 2
  MaxCrashes = 1
INVARIANTS TypeOK NothingLost
PROPERTIES NotSentAgain EverythingSettles
CHECK_DEADLOCK FALSE
