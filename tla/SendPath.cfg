SPECIFICATION Spec
CHECK_DEADLOCK FALSE
CONSTANTS
  p1 = p1
  p2 = p2
  p3 = p3
  Clients = {c1, c2}
  SendKeys = {"key"}
  NoKey = ""
  Contents = {"x", "y"}
  Suppressible = {"x"}
  ContentCost <- CostOf
  SendPairs <- SendsOf
  Invalid = {"bad"}
  NoContent = "none"
  Window = 0
  TenantLimit <- OneATick
  CeilingRows = 1
  CountTTL = 0
  Tenant = "tenant"
  MaxIds = 2
  MaxNow = 1
  MaxFaults = 1
  MaxBuckets = 2
  IdleTTL = 3
  Minute = 1
  Conns = {1, 2}
  Jobs <- Submissions
  NoId = ""
  NoProvider = ""
  BadProvider = "bad"
  Usernames = {"", "p"}
  MaxRecipients = 2
  MaxDrops = 2
  Nodes = {n1, n2}
  Catalogue <- SomeRules
  Messages <- OneMessage
  Direction = "outbound"
  EnabledTTL = 1
  MaxQuery = 1
  MaxWrites = 3
  TemplateTTL = 1
  MaxRead = 1
  MaxVersion = 2
  MaxAge = 3
SYMMETRY Symmetry
INVARIANTS
  RetriesAreSafe
  TrailTellsTheTruth
  CeilingsKept
  EditsReach
  SubmissionsKept
  MessagesReadRight
