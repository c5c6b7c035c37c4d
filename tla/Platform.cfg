SPECIFICATION Spec
CHECK_DEADLOCK FALSE
CONSTANTS
  ApiKeys = {"k"}
  Members = {"m"}
  Levels = {1}
  Gateways = {1, 2}
  TTL = 1
  Slow = 1
  AccessUntil = 4
  MaxGrants = 1
  Subjects = {"s", "t", "u"}
  Max = 2
  BlockFor = 1
  Capacity = 2
  EvictionProbe = 1
  SweepInterval = 1
  Records = {1, 2, 3}
  Slots = {1, 2}
  NoSubject = "nobody"
  SignInUntil = 3
  Factors = {1, 2}
  Roles = {1, 4}
  DataKeys = {"k1", "k2", "k3"}
  FirstKey = "k1"
  Stores <- StoresValue
  Values = {1}
  Writers = {w1}
  MaxChanges = 2
  MaxKeyFaults = 1
  Databases = {"d1", "d2"}
  Emails = {"a", "b"}
  MaxAttempts = 2
  MaxSetupFaults = 3
  Servers = {1}
  Pages = {e1, e2}
  Messages <- SavesValue
  FromConfig <- OldFile
  DefaultDays = 14
  MaxDays = 20
  Absent <- NotSaid
  MaxSaves = 2
  MaxQueryFaults = 1
  Ids = {"p", "q"}
  KindOf <- KindsValue
  Fold <- FoldCase
  Requests <- RequestsValue
  Drafts <- DraftsValue
  Froms <- FromsValue
  Forms = {e1, e2}
  Sends = {s1, s2}
  MaxEdits = 2
  MaxBuilt = 2
  Instances = {1, 2}
  Steps <- StepsOf
  Listeners = {"http"}
  MaxRequests = 1
  Attempts = 2
  MaxFaults = 2
  Stopping = {1}
  StoppingListeners = {"http", "smtp"}
  MaxStoppingRequests = 2
  MaxStoppingFaults = 1
  Probers = {1, 2}
  Dependencies = {"db", "other"}
  CacheFor = 1
  Timeout = 1
  ReadyUntil = 2
  MaxTurns = 1
INVARIANTS
  RightsSound
  SignInSound
  CredentialsReadable
  PolicyInForce
  ProvidersSound
  LifecycleSound
