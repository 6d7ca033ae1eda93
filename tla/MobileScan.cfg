SPECIFICATION Spec
CONSTANTS
  Tasks = {a1, a2}
  Pallets = {p1, p2}
  NoPallet = NoPallet
  MaxTokens = 3
  Apart <- TasksApart
SYMMETRY Interchangeable
CHECK_DEADLOCK FALSE
INVARIANTS
  TypeOK
  
PROPERTIES
  SessionKept
