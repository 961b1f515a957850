SPECIFICATION FairWarmSpec
CONSTANTS
  host = host
  op = op
  r1 = r1
  r2 = r2
  s1 = s1
  s2 = s2
  b1 = b1
  b2 = b2
  b3 = b3
  v1 = v1
  v2 = v2
  e1 = e1
  e2 = e2
  None = None
  Actors <- MCActors
  Processor = host
  Requests <- OneRequest
  Snapshots <- MCSnapshots
  Policies <- OnePolicy
  Runs <- MCRuns
  Deployments <- MCDeployments
  MaxClock = 4
  MaxFaults = 1
  MaxOps = 1
PROPERTIES
  CommitsSettle
  RequestsAnswered
  RollbackFinishes
  ProjectionConverges
