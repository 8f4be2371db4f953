SPECIFICATION FairSpec
CONSTANTS
  w1 = w1
  w2 = w2
  Workers = {w1, w2}
  None = None
  BatchSize = 2
  BatchDeps <- TwoInARow
  Lease = 1
  DepSets = {{2}}
  MaxId = 3
  MaxTime = 2
  MaxClaims = 3
  MaxPatches = 1
  MaxKills = 1
INVARIANTS ClaimsCoherent DependenciesFirst BatchIsWhole
PROPERTIES ClaimsEndRightly VersionsTellChanges BatchCommits ExpiredClaimsEnd
CHECK_DEADLOCK FALSE
