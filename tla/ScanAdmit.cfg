SPECIFICATION FairSpec
CONSTANTS
  Scans = {s1, s2}
  alice = alice
  mallory = mallory
  Fingers <- MCFingers
  NoFinger = NoFinger
  Enrolled <- MCEnrolled
  TemplateId <- MCTemplateId
  MainCommands = {"stop", "start", "dump", "wipe"}
  Disciplined = TRUE
  Lossy = FALSE
  MaxTouches = 2
  MaxLate = 0
INVARIANTS TypeOK AdmitsOnlyIdentified OneAdmissionPerTouch StoppedMeansQuiet
PROPERTY HeldFingerDecided
CHECK_DEADLOCK FALSE
