SPECIFICATION Spec
CONSTANTS
  w1 = w1
  w2 = w2
  s1 = s1
  s2 = s2
  Workers = {w1, w2}
  Subs = {s1}
  Events = {1, 2}
  Batch = 2
  PerSub = 2
  FailureStreak = 1
  Schedule <- OneDelay
  Lease = 2
  Budget = 1
  Timeout = 1
  Reserve = 0
  ReadMax = 2
  Answers <- UpOrDown
  MaxFaults = 0
SYMMETRY WorkerSymmetry
PROPERTIES
  KeepsItsPromise
