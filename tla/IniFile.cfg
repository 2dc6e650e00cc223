SPECIFICATION Spec
CONSTANTS
  Keys <- AllKeys
  Vals = {"null", "1", "2", "more"}
  Hole = Hole
  NULL = "null"
  Missing = Missing
  DICTMINSZ = 2
  Files <- AllFiles
  Text <- Texts
  Empty = ""
  Found <- FoundIn
  NoSection = ""
  NoKey = ""
  Wanted <- WantedKeys
  MaxEdits = 2
  MaxLines = 4
INVARIANTS IniFileInv LoadedIsWritten
PROPERTIES ImplementsMap
CHECK_DEADLOCK FALSE
