CONSTANTS
  Clients = {c1}
  Nobody = nobody
  Offered <- MCToken
  Texts <- MCTexts
  Passwords <- MCPasswords
  Faults = {}
  Names = {n1, n2}
  Sources = {"v1", "v2", "uses", "raises", "misdeclared", "unparsable"}
  Unparsable = {"unparsable"}
  Raising = {"raises"}
  Misdeclared = {"misdeclared"}
  Packages = {"lib", "aux"}
  Imports <- MCImports
  Versions = {"1", "2"}
  AnyVersion = "any"
  Absent = "absent"
  Restorer = restorer
  Attempts = {a1}
  Policies = {"default", "always", "on_success", "on_failure", "malformed"}
  Kinds = {"HTTP", "Redis", "MySQL", "RabbitMQ", "MongoDB", "PostgreSQL"}
  Targets = 2
  MaxInterrupts = 2
  Workloads <- MCOnePut
  MaxCrashes = 0
SPECIFICATION Spec
INVARIANT DriverSeesRow
CHECK_DEADLOCK FALSE
