SPECIFICATION FairSpec
CONSTANTS
  a = a
  b = b
  i1 = i1
  i2 = i2
  Instances = {i1, i2}
  Recipients = {a}
  Lease = 2
  RenewEvery = 1
  Slack = 0
  MaxMissed = 2
  Pattern <- OneRetry
  PaceDelay = 1
  SharedEvents = TRUE
  ReplyErrors <- OneReply
  PassErrors = {}
  Refusals = FALSE
  HistoryMayFail = FALSE
  Decoders = {i1}
  MaxFaults = 1
  MaxLost = 0
PROPERTIES
  EventuallySettled
