SPECIFICATION FairSpec
CONSTANTS
  t1 = t1
  t2 = t2
  j1 = j1
  j2 = j2
  p1 = p1
  p2 = p2
  p3 = p3
  d1 = d1
  d2 = d2
  c1 = c1
  NoJob = NoJob
  Nobody = Nobody
  Same = Same
  Containers = {c1}
  Tx = {t1, t2}
  Jobs = {j1}
  Pallets = {p1, p2, p3}
  Dests = {d1}
  DestOf <- ThreePallets
  ContOf <- OneContainer
  Plans <- PlanOne
  Ops = {"create", "update", "scan", "delete", "deplete"}
  DockEdits = {"set"}
  StartStatus = {"LABEL_PRINTED"}
  ContStart = {"LABELS_GENERATED"}
CHECK_DEADLOCK FALSE
INVARIANTS
  OverrunBounded
PROPERTIES
  EveryRequestEnds
