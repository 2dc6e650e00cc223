SPECIFICATION FairSpec
CONSTANTS
  Threads <- MCThreads
  NoThread = "nobody"
  Gone = "gone"
  Main = "main"
  Scanners <- MCScanners
  Intercom <- MCIntercom
  MaxEvents = 2
  Faults = {"statement", "commit", "post"}
  MaxFaults = 1
  MaxRestarts = 2
INVARIANTS LifecycleInv PostedIsStored OneWriterPerTransaction CleanBetweenLives
PROPERTIES
  EventsReturn
  CommandsEnd
  WatchdogActs
CHECK_DEADLOCK FALSE
