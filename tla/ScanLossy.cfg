SPECIFICATION FairSpec
CONSTANTS
  Scans = {s1}
  alice = alice
  mallory = mallory
  Fingers <- MCFingers
  NoFinger = NoFinger
  Enrolled <- MCEnrolled
  TemplateId <- MCTemplateId
  MainCommands = {"stop", "start", "dump", "count"}
  Disciplined = TRUE
  Lossy = TRUE
  MaxTouches = 1
  MaxLate = 1
PROPERTY StopReturns
CHECK_DEADLOCK FALSE
