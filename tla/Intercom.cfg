SPECIFICATION FairSpec
CONSTANTS
  Loops = {l1, l2}
  Interval = 3
  PressNum = 2
  ByteSize = 3
  ButtonTicks = 1
  Hours = 4
  StartTime = 1
  EndTime = 2
INVARIANTS IntercomInv
PROPERTIES OpensOnPresses FreeOnlyInHours StopReturns
