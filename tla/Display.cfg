SPECIFICATION Spec
CONSTANTS
  Scanners = {entry, exit}
  Timers = {t1, t2}
  Main = main
  d0 = d0
  welcome = welcome
  name = name
  refused = refused
  Messages <- MCMessages
  Defaults <- MCDefaults
  Blank = Blank
  Free = Free
  Destroyed = Destroyed
  USE_LCD = {TRUE, FALSE}
  Found = {TRUE, FALSE}
  COLS = 2
  WIDTH = 3
  MaxMessages = 2
  MaxRestarts = 1
INVARIANTS DisplayInv

PROPERTY DefaultsReturn
CHECK_DEADLOCK FALSE
