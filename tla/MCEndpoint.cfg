SPECIFICATION SpecEndpoint
CONSTANTS
  p1 = p1
  p2 = p2
  p3 = p3
  NoInode = NoInode
  Processes <- MCProcesses
  MaxStarts = 4
  MaxFailures = 2
SYMMETRY MCSymmetry
CHECK_DEADLOCK FALSE
INVARIANTS
  ServedStaysReachable
PROPERTIES
  StaleIsReplaced
