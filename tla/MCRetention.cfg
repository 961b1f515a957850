SPECIFICATION UsedSpec
CONSTANTS
  host = host
  op = op
  planner = planner
  r1 = r1
  r2 = r2
  s1 = s1
  s2 = s2
  s3 = s3
  s4 = s4
  b1 = b1
  b2 = b2
  b3 = b3
  b4 = b4
  b5 = b5
  b6 = b6
  v1 = v1
  e1 = e1
  None = None
  Actors <- MCActors
  Processor = host
  Planner = planner
  Keep = 1
  Readers = 1
  Requests <- MCRequests
  Snapshots <- MCSnapshots
  Policies <- OnePolicy
  Runs <- MCRuns
  Deployments <- MCDeployments
  MaxClock = 8
  MaxFaults = 1
  MaxOps = 1
INVARIANTS
  PlanTypeOK
  PlannedStaysUnused
PROPERTIES
  PlanKeepsNeeded
  PlanKeepsRecent
