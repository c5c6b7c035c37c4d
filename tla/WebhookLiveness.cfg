SPECIFICATION FairSpec
CONSTANTS
  w1 = w1
  w2 = w2
  s1 = s1
  s2 = s2
  Workers = {w1}
  Subs = {s1, s2}
  Events = {1}
  Batch = 1
  PerSub = 2
  FailureStreak = 1
  Schedule <- OneDelay
  Lease = 3
  Budget = 1
  Timeout = 1
  Reserve = 1
  ReadMax = 1
  Answers <- UpOrDown
  MaxFaults = 1
PROPERTIES
  EventuallyFinished
