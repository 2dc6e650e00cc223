SPECIFICATION Spec
CONSTANTS
  Threads = {scan, main}
  NoThread = NoThread
  RESPONSE_LEN = 2
  DATA_LEN = 3
  MaxCalls = 4
  MaxTimeouts = 0
  Downloads <- AnyKind
  Lossy = FALSE
  Serialised = TRUE
  SleepCovers = TRUE
INVARIANTS TypeOK LinkInv OwnResponse FramesExact QuietBetweenCalls
PROPERTY ImplementsRpc
CHECK_DEADLOCK FALSE
