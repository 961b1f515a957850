SPECIFICATION OrderedSpec
CONSTANTS
  job = job
  op = op
  c1 = c1
  c2 = c2
  bad = bad
  v1 = v1
  v2 = v2
  b1 = b1
  b2 = b2
  b3 = b3
  b4 = b4
  None = None
  Actors <- MCActors
  Reconciler = job
  Contents <- MCContents
  Valid <- MCValid
  Releases <- MCReleases
  Runs <- MCRuns
  Deployments <- MCDeployments
  MaxClock = 4
  MaxFaults = 1
  MaxEdits = 1
  MaxOps = 1
CHECK_DEADLOCK FALSE
INVARIANTS
  LocalTypeOK
  SelectsWhatItChecked
  OutcomeTellsPromotion
PROPERTY Converges
