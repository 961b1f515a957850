SPECIFICATION Spec
CONSTANTS
  f1 = f1
  f2 = f2
  t1 = t1
  t2 = t2
  t3 = t3
  m1 = m1
  m2 = m2
  None = None
  Files <- MCFiles
  Texts <- MCTexts
  Malformed <- MCMalformed
  Ids <- MCIds
  MaxEdits = 2
  MaxFaults = 1
SYMMETRY MCSymmetry
CHECK_DEADLOCK FALSE
PROPERTIES
  AllOrNothing
INVARIANTS
  MigrationTypeOK
  SnapshotBeforeChange
