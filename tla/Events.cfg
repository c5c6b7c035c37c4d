SPECIFICATION Spec
CHECK_DEADLOCK FALSE
CONSTANTS
  Messages = {1, 2}
  Providers = {"sendgrid", "postmark"}
  Stores = {"pebble", "postgres"}
  Tolerance = 0
  MaxNow = 1
  MaxEvents = 4
  MaxReports = 1
  MaxEdits = 1
  Modes = {"pebble", "shadow", "mirror", "stopped"}
  Keys = {"key"}
  MaxId = 3
  MaxTs = 1
  QueueCap = 2
  WriterCap = 1
  ChunkSize = 2
  MaxFaults = 1
  MaxPasses = 2
  PageKeys = {"k", "l"}
  PageSize = 1
  PageIds = 4
  MaxWrites = 1
  MinutesPerHour = 2
  HoursPerDay = 2
  Last = 6
  MaxCounted = 2
  MaxPrunes = 2
  LogKeys = {1, 2, 3}
  LogTenants = {"t"}
  LogCap = 1
  BatchMax = 2
  ViewCap = 1
  ListMax = 1
  ScanBudget = 2
  TruncMax = 1
  MaxLogFaults = 1
  Fragments <- SomeFragments
  MaxFragments = 3
  Digits = {0, 1, 5, 9}
  MinDigits = 3
  MaxDigits = 4
  TemplateBodies <- SomeBodies
  Recipients <- TwoRecipients
  MaxChanges = 3
INVARIANTS
  EventsKept
  ReadsTellAll
  SecretsHidden
  LinksLeadHome
PROPERTIES
  SuppressionsRight
