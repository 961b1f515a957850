SPECIFICATION SpecPublication
CONSTANTS
  r1 = r1
  r2 = r2
  s1 = s1
  s2 = s2
  v1 = v1
  v2 = v2
  b1 = b1
  b2 = b2
  None = None
  Requests <- MCRequests
  Snapshots <- MCSnapshots
  Releases <- OneRelease
  Runs <- MCRuns
  MaxMoves = 1
  MaxLosses = 2
  MaxChoices = 0
SYMMETRY MCSymmetry
CHECK_DEADLOCK FALSE
INVARIANTS
  PublicationTypeOK
  ArchiveAvailable
  ReportsMatchResults
  AuthorizedWasConfirmed
  CommitsAreFollowed
PROPERTIES
  RespectsHost
