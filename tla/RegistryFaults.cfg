SPECIFICATION Spec
CONSTANTS
  alice = alice
  bob = bob
  a1 = a1
  a2 = a2
  b1 = b1
  Users <- MCUsers
  Fingers <- MCFingers
  Owner <- MCOwner
  Nothing = Nothing
  MAX_FGP_COUNT = 2
  Commands = {"enroll", "create user", "delete fingerprint", "delete all fingerprints", "reload fingerprints"}
  Faults = {"scan", "GetTemplate", "SetTemplate", "answer", "DeleteID", "DeleteAll", "restore", "database", "crash"}
  MaxLinks = 2
  MaxMishaps = 2
INVARIANTS RegistryInv DevicesAgree TemplatesRecorded ReloadRestores
SYMMETRY MCSymmetry
