SPECIFICATION FairSpec
CONSTANTS
  d1 = d1
  d2 = d2
  q1 = q1
  q2 = q2
  q3 = q3
  Requests = {q1, q2, q3}
  Days = {d1, d2}
  Results <- TwoReadings
  MaxAttempts = 2
CHECK_DEADLOCK FALSE
INVARIANTS
  TypeOK
  
  WorkbookIsCurrent
PROPERTIES
  ParsingEnds
  LedgerSpec
