SPECIFICATION Spec
CONSTANTS
  t1 = t1
  t2 = t2
  j1 = j1
  j2 = j2
  p1 = p1
  p2 = p2
  p3 = p3
  d1 = d1
  d2 = d2
  c1 = c1
  NoJob = NoJob
  Nobody = Nobody
  Same = Same
  Containers = {c1}
  Tx = {t1}
  Jobs = {j1, j2}
  Pallets = {p1, p2}
  Dests = {d1, d2}
  DestOf <- TwoDests
  ContOf <- SameContainer
  Plans <- PlanMixed
  Ops = {"create", "update", "close", "delete", "scan", "override", "reverse"}
  DockEdits = {"keep", "set", "clear"}
  StartStatus = {"LABEL_PRINTED"}
  ContStart = {"CORRECTED", "LABELS_GENERATED", "UNLOADED"}
CHECK_DEADLOCK FALSE
INVARIANTS
  ContainerAgrees
  LineLimit
  PlanCoversLoaded
PROPERTIES
  CompletedIsFinal
