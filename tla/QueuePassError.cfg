SPECIFICATION Spec
CONSTANTS
  a = a
  b = b
  i1 = i1
  i2 = i2
  Instances = {i1, i2}
  Recipients = {a, b}
  Lease = 6
  RenewEvery = 2
  Slack = 1
  MaxMissed = 0
  Pattern <- OneRetry
  PaceDelay = 1
  SharedEvents = TRUE
  ReplyErrors <- MCReplyErrors
  PassErrors <- MissingObjectErrors
  Refusals = TRUE
  HistoryMayFail = FALSE
  Decoders = {i1, i2}
  MaxFaults = 0
  MaxLost = 0
SYMMETRY Symmetry
INVARIANTS
  OnlyBlamedSuppressed
