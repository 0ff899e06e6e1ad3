CONSTANTS
  Clients = {c1, c2}
  Nobody = nobody
  Offered <- MCOffered
  Texts <- MCTexts
  Passwords <- MCPasswords
  Faults = {"database", "uv", "browser", "channel"}
  Names = {n1, n2}
  Sources = {"v1", "v2", "uses", "raises", "misdeclared", "unparsable"}
  Unparsable = {"unparsable"}
  Raising = {"raises"}
  Misdeclared = {"misdeclared"}
  Packages = {"lib", "aux"}
  Imports <- MCImports
  Versions = {"1", "2"}
  AnyVersion = "any"
  Absent = "absent"
  Restorer = restorer
  Attempts = {a1}
  Policies = {"default", "always", "on_success", "on_failure", "malformed"}
  Kinds = {"HTTP", "Redis", "MySQL", "RabbitMQ", "MongoDB", "PostgreSQL"}
  Targets = 2
  MaxInterrupts = 2
  Workloads <- MCWorkloads
  MaxCrashes = 1
SPECIFICATION Spec
INVARIANTS
  PlatformTypeOK
  PasswordIsHash
  
  
  DriftIsExplained
  
  OpenSessionsOwned
  NotificationsTruthful
  MessagesCarrySecret
  NothingLeftOpen
  VerdictEarned
PROPERTIES
  
  SecretsSurviveEcho
  SettingsRequestsEnd
  PackageRequestsEnd
  
CHECK_DEADLOCK FALSE
