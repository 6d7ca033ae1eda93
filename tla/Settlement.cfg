SPECIFICATION Spec
CONSTANTS
  Tx = {t1, t2}
  Containers = {c1, c2}
  Transfers = {x1}
  Teams = {g1, g2}
  Rates = {r1, r2}
  Months = {m1, m2}
  NoUnit = NoUnit
  NoTeam = NoTeam
  NoMonth = NoMonth
  MaxSettlements = 3
  MaxEdits = 4
  GenerationAlone = TRUE
SYMMETRY Interchangeable
CHECK_DEADLOCK FALSE
INVARIANTS
  TypeOK
  GeneratedIsCurrent
  SettledIsPaid
  NeverPaidTwice
