SPECIFICATION FairSpec
CONSTANTS
  Threads = {scan, main}
  NoThread = NoThread
  RESPONSE_LEN = 2
  DATA_LEN = 3
  MaxCalls = 3
  MaxTimeouts = 3
  Downloads <- PlainOnly
  Lossy = TRUE
  Serialised = FALSE
  SleepCovers = TRUE
PROPERTY CallsReturn
CHECK_DEADLOCK FALSE
