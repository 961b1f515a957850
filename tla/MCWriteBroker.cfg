SPECIFICATION FairSpec
CONSTANTS
  r1 = r1
  r2 = r2
  n1 = n1
  u1 = u1
  None = None
  Requests <- MCRequests
  Notes <- MCNotes
  Subjects <- MCSubjects
  MaxEdits = 2
  MaxFaults = 2
CHECK_DEADLOCK FALSE
INVARIANTS
  BrokerTypeOK
  AnswersAgree
PROPERTIES
  CapturesSettle
  OnlyCreates
  ImplementsCapture
