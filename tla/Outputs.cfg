CONSTANTS
  Sessions = {1, 2, 3}
  Port <- MCPort
  Number <- MCNumber
  MaxEvents <- MCMaxEvents
  Conns = {1, 2}
  Logs <- MCLogs
  MaxFaults <- MCMaxFaults
  Ips = {1}
  Tolerances = {1, 3}
  Window = 1
  Rereport = 2
  CleanEvery = 1
  RetryAfter = {1, 3}
  MaxTime = 5
  MaxAttempts = 2
  MaxRefusals = 2
  MaxRestarts = 2
  MaxMishaps = 1
  Files = {"f"}
  Urls = {"u"}
  Fresh = 1
  MaxVtTime = 3
  MaxDownloads = 3
  MaxVtFailures = 1
SPECIFICATION Spec
CHECK_DEADLOCK FALSE
INVARIANTS
    
    SqlInv
    AbuseInv
    VtOutInv
PROPERTIES
    AnsweredUrlsRest
