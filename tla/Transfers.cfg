CONSTANTS
  Kinds = {"wget", "wgetftp", "curl", "curlhead", "ftpget", "tftp", "nc", "scp"}
  MaxTotal = 3
  Limit = 1
  BlockWrap = 3
  MaxRetries = 3
  Hosts = {h1, h2}
  MaxRequests = 2
  Window = 2
  MaxKeys = 1
  MaxTime = 4
  MaxOthers = 3
SPECIFICATION TransfersSpec
CHECK_DEADLOCK FALSE
INVARIANTS
    TransfersInv
    TransfersEnd
