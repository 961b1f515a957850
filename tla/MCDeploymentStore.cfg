SPECIFICATION Spec
CONSTANTS
  a1 = a1
  a2 = a2
  d1 = d1
  d2 = d2
  d3 = d3
  None = None
  Actors <- MCActors
  Deployments <- MCDeployments
  MaxClock = 4
  MaxFaults = 1
SYMMETRY MCSymmetry
CHECK_DEADLOCK FALSE
PROPERTY ImplementsSelection
INVARIANTS
  TypeOK
  JournalBrackets
  ProjectionWasSelected
  SelectionsAreRecorded
