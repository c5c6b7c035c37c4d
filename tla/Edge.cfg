SPECIFICATION Spec
CHECK_DEADLOCK FALSE
CONSTANTS
  Posts = {"a", "b"}
  Readers = {"poll", "idle"}
  Instances = {1, 2}
  Verdicts = {"deliver", "reject", "tag", "hold"}
  Lease = 1
  MaxNow = 2
  MaxFaults = 1
  MaxRuns = 2
  Editors = {e1, e2}
  Changes <- ChangesValue
  Ports = {587}
  MaxReports = 1
  Providers = {"p1", "p2"}
  TenantOf <- HomeOf
  Versions = {1, 2}
  MaxSessions = 3
  MaxDelay = 1
  Jobs = {j1, j2}
  Filers = {1, 2}
  BatchSize = 2
  ClaimLease = 1
  AppendLimit = 1
  MaxAttempts = 2
  CopyUntil = 2
  Mails <- SomeMails
  Notices <- SomeNotices
  Topics = {"t1", "t2"}
  Region <- RegionOf
  MaxSteps = 4
  Hosts = {"h"}
  Public = {"public"}
  Private = {"private"}
  Schemes = {"http", "https"}
  Wanted = {"sent"}
  Restricted = TRUE
  MaxHops = 1
  Secrets = {"s1", "s2"}
  MaxEdits = 2
  MaxPosts = 2
INVARIANTS
  InboundOnce
  TargetsKept
  CopiesAccounted
PROPERTIES
  ListenerKeepsServing
