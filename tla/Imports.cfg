SPECIFICATION Spec
CONSTANTS
  t1 = t1
  t2 = t2
  i1 = i1
  i2 = i2
  i3 = i3
  f1 = f1
  f2 = f2
  NoImport = NoImport
  Tx = {t1, t2}
  Imports = {i1, i2}
  Files = {f1, f2}
  FileOf <- TwoFiles
  Needed = 2
  Earlier = {1}
  Busy = {i1}
  Mortal = {"work", "delete"}
CHECK_DEADLOCK FALSE
SYMMETRY Interchangeable
INVARIANTS
  TypeOK
  TrustIsEarned
  ReviewedStays
PROPERTIES
  
  BusinessRecordsStay
