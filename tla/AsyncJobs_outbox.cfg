SPECIFICATION CatchUpSpec
CONSTANTS
  r1 = r1
  r2 = r2
  o1 = o1
  k1 = k1
  k2 = k2
  w1 = w1
  w2 = w2
  a1 = a1
  a2 = a2
  NoRecord = NoRecord
  Keys = {k1, k2}
  KeyOf <- KeyedHere
  Records = {o1}
  Outbox = {o1}
  Replays = {k2}
  Calls = {a1, a2}
  Workers = {w1, w2}
  MaxAttempts = 2
  MaxStalls = 1
  MaxFaults <- FaultsCaughtUp
CHECK_DEADLOCK FALSE
INVARIANTS
  OneHolder
PROPERTIES
  CaptureReachesQueue
