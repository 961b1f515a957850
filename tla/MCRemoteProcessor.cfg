SPECIFICATION SpecHost
CONSTANTS
  host = host
  op = op
  r1 = r1
  r2 = r2
  s1 = s1
  s2 = s2
  b1 = b1
  b2 = b2
  b3 = b3
  v1 = v1
  v2 = v2
  e1 = e1
  e2 = e2
  None = None
  Actors <- MCActors
  Processor = host
  Requests <- MCRequests
  Snapshots <- MCSnapshots
  Policies <- SomePolicies
  Runs <- TwoRuns
  Deployments <- PolicyDeployments
  MaxClock = 4
  MaxFaults = 1
  MaxOps = 1
SYMMETRY MCSymmetry
INVARIANTS
  HostTypeOK
  AppliedOnce
  AppliedAsAuthorized
  SelectedWasEvaluated
PROPERTIES
  ImplementsHost
