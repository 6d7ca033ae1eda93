SPECIFICATION FairSpec
CONSTANTS
  r1 = r1
  r2 = r2
  o1 = o1
  k1 = k1
  k2 = k2
  w1 = w1
  w2 = w2
  a1 = a1
  a2 = a2
  NoRecord = NoRecord
  Keys = {k1, k2}
  KeyOf <- KeyedHere
  Records = {r1, r2}
  Outbox = {}
  Replays = {}
  Calls = {a1, a2}
  Workers = {w1, w2}
  MaxAttempts = 2
  MaxStalls = 1
  MaxFaults <- FaultsEnding
CHECK_DEADLOCK FALSE
INVARIANTS
  OneRunPerKey
PROPERTIES
  EveryJobEnds
