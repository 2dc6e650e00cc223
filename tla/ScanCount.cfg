SPECIFICATION Spec
CONSTANTS
  Scans = {s1}
  alice = alice
  mallory = mallory
  Fingers <- MCFingers
  NoFinger = NoFinger
  Enrolled <- MCEnrolled
  TemplateId <- MCTemplateId
  MainCommands = {"count"}
  Disciplined = TRUE
  Lossy = FALSE
  MaxTouches = 1
  MaxLate = 0
INVARIANT StrangersStayOut
CHECK_DEADLOCK FALSE
