SPECIFICATION Spec
CONSTANTS
  Tx = {t1, t2}
  Containers = {c1}
  Facts = {f1, f2}
  DraftOf <- OneEach
  f1 = f1
  f2 = f2
  t1 = t1
  t2 = t2
  Asks <- EditsAndEnds
  Jobs = {j1, j2}
  Corrected <- Once
  MaxRevision = 2
  Incomplete = Incomplete
  Null = Null
SYMMETRY Interchangeable
CHECK_DEADLOCK FALSE
INVARIANTS
  TypeOK
  ApprovedIsProved
  SummaryIsCurrent
PROPERTIES
  FrozenOnce
  ClosedIsFinal
