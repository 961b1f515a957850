SPECIFICATION FairPublication
CONSTANTS
  r1 = r1
  r2 = r2
  s1 = s1
  s2 = s2
  v1 = v1
  v2 = v2
  b1 = b1
  b2 = b2
  None = None
  Requests <- OneRequest
  Snapshots <- MCSnapshots
  Releases <- TwoReleases
  Runs <- OneRun
  MaxMoves = 1
  MaxLosses = 1
  MaxChoices = 1
CHECK_DEADLOCK FALSE
INVARIANT ReportsAreTrue
PROPERTY ResolvesUnlessReplaced
