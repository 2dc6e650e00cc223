SPECIFICATION FairSpec
CONSTANTS
  Nobody = "nobody"
  Scanners = {"entry"}
  Pins = {0, 2, 7}
  gPinLockRelay = 0
  LedPin <- EntryPins
  Openers = {o1, o2}
  Emergencies = {e1, e2}
  Shutters = {h1, h2}
  RELAY_INTERVAL = 3
  LED_INTERVAL = 2
INVARIANTS TypeOK RaisedIsAttended
PROPERTIES FallsAfterInterval LocksAgain VerdictGoesOut
