------------------------------- MODULE Display -------------------------------
(***************************************************************************)
(* The display that both scanners share (scanner.cpp over lcd_i2c.c).  A   *)
(* scan thread shows its verdict under sLCDMutex; a thread per verdict     *)
(* restores the default lines two seconds later, without the mutex; so     *)
(* does the main thread, which also switches the display off and on again  *)
(* at a restart.                                                           *)
(*                                                                         *)
(* Whether a display is used is read at every restart, but only the setting*)
(* up and the switching off depend on it: the texts are written anyway.    *)
(*                                                                         *)
(* A step starts or ends a byte.  Two bytes on the bus at once tear: their *)
(* nibbles, and the output register both threads change, mix, and what the *)
(* display shows is anybody's guess until it is initialised again.         *)
(*                                                                         *)
(* A line is a text and its length; each of its cells holds the text.      *)
(***************************************************************************)
EXTENDS Naturals, Sequences, FiniteSets

CONSTANTS
  Scanners,     \* the scan threads
  Timers,       \* identities for thread_shut_lcd; bounds how many overlap
  Main,
  Messages,     \* the verdicts: pairs of lines
  Defaults,     \* gLCDDefaultLine0 and gLCDDefaultLine1
  Blank,        \* an empty cell
  Free,         \* nobody holds the mutex
  Destroyed,    \* there is no mutex
  COLS,         \* lcd_i2c_t.cols, 16
  WIDTH,        \* cells of a row in the display's memory, 40
  USE_LCD,      \* what the configuration may say of a display, at each start
  Found,        \* whether lcd_i2c_setup may find the display, when it is called
  MaxMessages,  \* bound: verdicts in a behaviour
  MaxRestarts   \* bound: restarts in a behaviour

ROWS == 2
Threads == Scanners \cup Timers \cup {Main}
\* Those that write without asking for the mutex.
Bare == Threads \ Scanners

NoLine == [text |-> Blank, len |-> 0]
Nothing == <<NoLine, NoLine>>

\* Two empty lines that a verdict shows are not Nothing: their text is not Blank.
ASSUME DisplayAssumption ==
  /\ IsFiniteSet(Scanners) /\ Scanners # {}
  /\ Scanners \cap Timers = {} /\ Main \notin Scanners \cup Timers
  /\ {Free, Destroyed} \cap Scanners = {} /\ Free # Destroyed
  /\ Nothing \notin Messages
  /\ COLS \in Nat \ {0} /\ WIDTH \in Nat /\ WIDTH >= COLS
  /\ \A m \in Messages \cup {Defaults} : \A i \in 1..ROWS : m[i].len \in 0..COLS
  /\ USE_LCD \in SUBSET BOOLEAN /\ Found \in SUBSET BOOLEAN
  /\ MaxMessages \in Nat /\ MaxRestarts \in Nat

VARIABLES
  ddram,      \* ddram[y][x]: the display's memory
  address,    \* its address counter
  torn,       \* have bytes met on the bus?
  lit,        \* the backlight
  xy,         \* lcd_i2c_t.x and y: where the program thinks it is
  rest,       \* rest[t]: bytes t still writes
  mid,        \* threads in the middle of a byte
  clash,      \* those whose byte has met another
  gUseLCD,
  fd,         \* did lcd_i2c_setup succeed, when it was called last?
  sLCDInit,
  sLCDMutex,  \* its holder, Free or Destroyed
  asleep,     \* timers in their usleep
  mpc,        \* the main thread: "run", "delete", "destroy", "create", "default"
  objects,    \* Scanner objects there are
  writes,     \* writes[t]: the lines t writes, or Nothing
  overlapped, \* threads whose text a thread without the mutex has overlapped
  last,       \* the text written last: its lines, and was it overlapped?
  met,        \* has a thread without the mutex met another since lcd_i2c_init?
  messages, restarts

lcdVars == <<ddram, address, torn, lit>>
busVars == <<lcdVars, xy, rest, mid, clash>>
objectVars == <<gUseLCD, fd, sLCDInit, mpc, objects, restarts>>
ghostVars == <<overlapped, last, met>>
vars == <<busVars, objectVars, sLCDMutex, asleep, writes, ghostVars, messages>>

Rows == 0..(ROWS - 1)
Dark == [y \in Rows |-> [x \in 0..(WIDTH - 1) |-> Blank]]
Origin == [x |-> 0, y |-> 0]

\* What a whole text looks like.
Picture(m) ==
  [y \in Rows |-> [x \in 0..(COLS - 1) |->
     IF x < m[y + 1].len THEN m[y + 1].text ELSE Blank]]

Screen == [y \in Rows |-> [x \in 0..(COLS - 1) |-> ddram[y][x]]]

(***************************************************************************)
(* lcd_i2c.c: the bytes of a call, and what the display makes of them.     *)
(***************************************************************************)
Byte(op, arg) == [op |-> op, arg |-> arg]
lcd_i2c_clear == <<Byte("clear", 0)>>
lcd_i2c_gotoxy(x, y) == <<Byte("address", [x |-> x, y |-> y])>>
lcd_i2c_puts(line) == [i \in 1..line.len |-> Byte("data", line.text)]
lcd_i2c_backlight(on) == <<Byte("light", on)>>
\* The software reset, then the modes, clear and home.
lcd_i2c_init == <<Byte("reset", 0)>> \o lcd_i2c_clear \o <<Byte("home", Origin)>>

\* lcd_default and the body of ShowLCDMessage.
Text(m) ==
  lcd_i2c_clear \o lcd_i2c_gotoxy(0, 0) \o lcd_i2c_puts(m[1])
  \o lcd_i2c_gotoxy(0, 1) \o lcd_i2c_puts(m[2])

Sent(t) == rest' = [rest EXCEPT ![t] = Tail(@)]
Busy(t) == rest[t] # <<>>
Busies == {t \in Threads : Busy(t)}

\* The display takes a byte that met no other.
Take(b) ==
  CASE b.op = "data" ->
         /\ ddram' = [ddram EXCEPT ![address.y][address.x] = b.arg]
         /\ address' = IF address.x + 1 < WIDTH
                       THEN [address EXCEPT !.x = @ + 1]
                       ELSE [x |-> 0, y |-> (address.y + 1) % ROWS]
         /\ UNCHANGED lit
    [] b.op \in {"address", "home"} ->
         address' = b.arg /\ UNCHANGED <<ddram, lit>>
    [] b.op \in {"clear", "reset"} ->
         ddram' = Dark /\ address' = Origin /\ UNCHANGED lit
    [] OTHER -> lit' = b.arg /\ UNCHANGED <<ddram, address>>

Scrambled == ddram' = Dark /\ address' = Origin /\ lit' = FALSE

\* lcd_i2c_putc follows the cursor and moves it at the end of a line.
Advance(t) ==
  IF xy.x + 1 # COLS
  THEN /\ xy' = [xy EXCEPT !.x = @ + 1]
       /\ Sent(t)
  ELSE LET y == (xy.y + 1) % ROWS
       IN /\ xy' = [x |-> 0, y |-> y]
          /\ rest' = [rest EXCEPT ![t] = lcd_i2c_gotoxy(0, y) \o Tail(@)]

StartByte(t) ==
  /\ Busy(t) /\ t \notin mid
  /\ mid' = mid \cup {t}
  /\ clash' = IF mid = {} THEN {} ELSE mid'
  /\ torn' = (torn \/ (fd /\ mid # {}))
  /\ IF torn' THEN Scrambled ELSE UNCHANGED <<ddram, address, lit>>
  /\ UNCHANGED <<xy, rest, writes, objectVars, sLCDMutex, asleep, ghostVars, messages>>

\* A reset that meets no other byte brings the nibbles into step again.
EndByte(t) ==
  LET b == Head(rest[t])
      again == b.op = "reset" /\ t \notin clash
  IN
  /\ t \in mid
  /\ mid' = mid \ {t} /\ clash' = clash \ {t}
  /\ torn' = (torn /\ ~(fd /\ again))
  /\ IF fd /\ ~torn' THEN Take(b) ELSE UNCHANGED <<ddram, address, lit>>
  /\ CASE b.op = "data" -> Advance(t)
       [] b.op \in {"address", "home"} -> xy' = b.arg /\ Sent(t)
       [] OTHER -> UNCHANGED xy /\ Sent(t)
  /\ met' = (met /\ ~(again /\ Busies = {t}))
  /\ IF Busy(t)' THEN UNCHANGED <<overlapped, last>>
     ELSE /\ last' = [text |-> writes[t], alone |-> t \notin overlapped]
          /\ overlapped' = overlapped \ {t}
  /\ UNCHANGED <<writes, objectVars, sLCDMutex, asleep, messages>>

\* The threads that write without the mutex: to lock one that was destroyed
\* fails, which nobody looks at.
Unlocked == IF sLCDMutex = Destroyed THEN Threads ELSE Bare

\* t begins a text that shows m.  Whoever writes without the mutex, or while
\* such a thread writes, is no longer alone.
Write(t, bytes, m) ==
  LET others == Busies \ {t}
      bare == (others \cup {t}) \cap Unlocked # {} /\ others # {}
  IN /\ rest' = [rest EXCEPT ![t] = bytes]
     /\ writes' = [writes EXCEPT ![t] = m]
     /\ overlapped' = IF bare THEN Busies \cup {t} ELSE overlapped
     /\ met' = (met \/ bare)
     /\ UNCHANGED <<xy, mid, clash, last>>

(***************************************************************************)
(* Scanner::ShowLCDMessage and thread_shut_lcd.                            *)
(***************************************************************************)
\* Mutant: the mutex is not taken.
ShowLCDMessageUnlocked(s, m) ==
  /\ mpc = "run" /\ writes[s] = Nothing /\ messages < MaxMessages
  /\ messages' = messages + 1
  /\ Write(s, Text(m), m)
  /\ UNCHANGED <<lcdVars, objectVars, sLCDMutex, asleep>>

\* A scan thread shows a verdict when it gets the mutex, or fails to.
ShowLCDMessage(s, m) ==
  /\ mpc = "run" /\ writes[s] = Nothing /\ messages < MaxMessages
  /\ sLCDMutex \in {Free, Destroyed}
  /\ sLCDMutex' = IF sLCDMutex = Free THEN s ELSE Destroyed
  /\ messages' = messages + 1
  /\ Write(s, Text(m), m)
  /\ UNCHANGED <<lcdVars, objectVars, asleep>>

\* Identities no thread_shut_lcd has now; it does not matter which one it gets.
Idle == {t \in Timers \ asleep : ~Busy(t)}

\* Mutant: a verdict with a second line is not taken back.
UnlockForGood(s) ==
  /\ writes[s] # Nothing /\ ~Busy(s)
  /\ sLCDMutex' = IF sLCDMutex = s THEN Free ELSE sLCDMutex
  /\ Idle # {}
  /\ asleep' = IF writes[s][2].len > 0 THEN asleep
               ELSE asleep \cup {CHOOSE t \in Idle : TRUE}
  /\ writes' = [writes EXCEPT ![s] = Nothing]
  /\ UNCHANGED <<busVars, objectVars, ghostVars, messages>>

\* The mutex is left, and a thread is created that will restore the defaults.
Unlock(s) ==
  /\ writes[s] # Nothing /\ ~Busy(s)
  /\ sLCDMutex' = IF sLCDMutex = s THEN Free ELSE sLCDMutex
  /\ Idle # {} /\ asleep' = asleep \cup {CHOOSE t \in Idle : TRUE}
  /\ writes' = [writes EXCEPT ![s] = Nothing]
  /\ UNCHANGED <<busVars, objectVars, ghostVars, messages>>

\* thread_shut_lcd has slept its two seconds.
Wake(t) ==
  /\ t \in asleep
  /\ asleep' = asleep \ {t}
  /\ Write(t, Text(Defaults), Defaults)
  /\ UNCHANGED <<lcdVars, objectVars, sLCDMutex, messages>>

(***************************************************************************)
(* The main thread: restart.                                               *)
(***************************************************************************)
\* cleanup has joined the scan threads.
StopScanners ==
  /\ mpc = "run" /\ restarts < MaxRestarts
  /\ \A s \in Scanners : writes[s] = Nothing
  /\ mpc' = "delete" /\ restarts' = restarts + 1
  /\ UNCHANGED <<busVars, writes, gUseLCD, fd, sLCDInit, objects, sLCDMutex, asleep,
                 ghostVars, messages>>

\* The destructor that comes first switches off a display that is in use.
DeleteScanner ==
  /\ mpc = "delete" /\ ~Busy(Main) /\ objects > 0
  /\ objects' = objects - 1
  /\ IF gUseLCD /\ sLCDInit
     THEN /\ sLCDInit' = FALSE /\ mpc' = "destroy"
          /\ Write(Main, lcd_i2c_clear \o lcd_i2c_backlight(FALSE), Nothing)
     ELSE UNCHANGED <<sLCDInit, mpc, xy, rest, mid, clash, writes, ghostVars>>
  /\ UNCHANGED <<lcdVars, gUseLCD, fd, restarts, sLCDMutex, asleep, messages>>

DestroyMutex ==
  /\ mpc = "destroy" /\ ~Busy(Main)
  /\ sLCDMutex' = Destroyed
  /\ mpc' = "delete"
  /\ UNCHANGED <<busVars, writes, gUseLCD, fd, sLCDInit, objects, restarts, asleep,
                 ghostVars, messages>>

\* The first constructor brings what the configuration says now.  One that finds
\* a display off that is to be used tries to set it up; setting it up clears the
\* register that a byte on its way is made of.
CreateScanner ==
  /\ ~Busy(Main)
  /\ \/ mpc = "delete" /\ objects = 0 /\ gUseLCD' \in USE_LCD
     \/ mpc = "create" /\ objects < Cardinality(Scanners) /\ UNCHANGED gUseLCD
  /\ mpc' = "create" /\ objects' = objects + 1
  /\ IF ~gUseLCD' \/ sLCDInit
     THEN UNCHANGED <<busVars, writes, fd, sLCDInit, sLCDMutex, ghostVars>>
     ELSE \E ok \in Found :
            /\ fd' = ok
            /\ torn' = (torn \/ mid # {})
            /\ IF torn' THEN Scrambled ELSE UNCHANGED <<ddram, address, lit>>
            /\ sLCDInit' = ok
            /\ sLCDMutex' = IF ok THEN Free ELSE sLCDMutex
            /\ IF ok
               THEN Write(Main, lcd_i2c_init \o lcd_i2c_backlight(TRUE), Nothing)
               ELSE /\ met' = (met \/ mid # {})
                    /\ UNCHANGED <<xy, rest, mid, clash, writes, overlapped, last>>
  /\ UNCHANGED <<restarts, asleep, messages>>

SetCommonStrings ==
  /\ mpc = "create" /\ ~Busy(Main) /\ objects = Cardinality(Scanners)
  /\ mpc' = "default"
  /\ Write(Main, Text(Defaults), Defaults)
  /\ UNCHANGED <<lcdVars, gUseLCD, fd, sLCDInit, objects, restarts, sLCDMutex, asleep, messages>>

StartScanners ==
  /\ mpc = "default" /\ ~Busy(Main)
  /\ mpc' = "run"
  /\ UNCHANGED <<busVars, writes, gUseLCD, fd, sLCDInit, objects, restarts, sLCDMutex,
                 asleep, ghostVars, messages>>

-----------------------------------------------------------------------------
\* The first life: with a display that shows the defaults, or without one.
Init ==
  /\ gUseLCD \in USE_LCD /\ fd \in (IF gUseLCD THEN Found ELSE {FALSE})
  /\ sLCDInit = fd /\ lit = fd
  /\ ddram = [y \in Rows |-> [x \in 0..(WIDTH - 1) |->
       IF fd /\ x < Defaults[y + 1].len THEN Defaults[y + 1].text ELSE Blank]]
  /\ xy = IF Defaults[2].len < COLS THEN [x |-> Defaults[2].len, y |-> 1] ELSE Origin
  /\ address = xy
  /\ torn = FALSE
  /\ rest = [t \in Threads |-> <<>>]
  /\ mid = {} /\ clash = {}
  /\ writes = [t \in Threads |-> Nothing]
  /\ mpc = "run" /\ objects = Cardinality(Scanners) /\ restarts = 0
  /\ sLCDMutex = Free
  /\ asleep = {}
  /\ overlapped = {} /\ met = FALSE
  /\ last = [text |-> Defaults, alone |-> TRUE]
  /\ messages = 0

Bytes(t) == StartByte(t) \/ EndByte(t)
Scan(s) == Bytes(s) \/ Unlock(s)
Shut(t) == Bytes(t) \/ Wake(t)
Restart == \/ Bytes(Main) \/ DeleteScanner \/ DestroyMutex \/ CreateScanner
           \/ SetCommonStrings \/ StartScanners

Next == \/ \E s \in Scanners : Scan(s) \/ \E m \in Messages : ShowLCDMessage(s, m)
        \/ \E t \in Timers : Shut(t)
        \/ StopScanners \/ Restart

\* Threads that can run run.  Verdicts and restarts come or do not come.
Spec == /\ Init /\ [][Next]_vars
        /\ \A s \in Scanners : WF_vars(Scan(s))
        /\ \A t \in Timers : WF_vars(Shut(t))
        /\ WF_vars(Restart)

-----------------------------------------------------------------------------
Cells == {Blank} \cup {m[i].text : m \in Messages \cup {Defaults}, i \in 1..ROWS}
Places == [x : 0..(COLS - 1), y : Rows]
TextByte ==
  [op : {"clear"}, arg : {0}] \cup [op : {"address"}, arg : Places]
  \cup [op : {"data"}, arg : Cells]
LcdByte ==
  TextByte \cup [op : {"reset"}, arg : {0}] \cup [op : {"home"}, arg : Places]
  \cup [op : {"light"}, arg : BOOLEAN]
Texts == Messages \cup {Defaults, Nothing}

TypeOK ==
  /\ ddram \in [Rows -> [0..(WIDTH - 1) -> Cells]]
  /\ address \in [x : 0..(WIDTH - 1), y : Rows]
  /\ xy \in Places
  /\ rest \in [Threads -> Seq(LcdByte)] /\ writes \in [Threads -> Texts]
  /\ torn \in BOOLEAN /\ lit \in BOOLEAN
  /\ gUseLCD \in BOOLEAN /\ fd \in BOOLEAN /\ sLCDInit \in BOOLEAN
  /\ mid \subseteq Busies /\ clash \subseteq mid
  /\ overlapped \subseteq Threads /\ met \in BOOLEAN
  /\ last \in [text : Texts, alone : BOOLEAN]
  /\ asleep \subseteq Timers
  /\ sLCDMutex \in Scanners \cup {Free, Destroyed}
  /\ mpc \in {"run", "delete", "destroy", "create", "default"}
  /\ objects \in 0..Cardinality(Scanners)
  /\ messages \in 0..MaxMessages /\ restarts \in 0..MaxRestarts

\* sLCDMutex keeps the verdicts of the two scanners apart: a text that no
\* thread without the mutex has overlapped stands on the display whole, and
\* nothing of an earlier one with it; bytes meet only where there was such a
\* thread.  (A scan thread is one too where the mutex was destroyed and no display
\* set up since.)
WholeUnlessOverlapped ==
  /\ torn => met
  /\ Busies = {} /\ fd /\ ~torn /\ last.alone => Screen = Picture(last.text)

\* The flag sLCDInit is one for both scanners and all lives of the daemon, in
\* which USE_LCD may change: when the scanners run, a display that is used and
\* could be set up is lit and has its mutex.
ReadyWhileRunning ==
  mpc = "run" /\ gUseLCD /\ fd => sLCDMutex # Destroyed /\ (lit \/ torn)

\* A verdict leaves a thread_shut_lcd behind, whatever others write meanwhile: with
\* no verdict under way and no timer asleep the default lines were written last.
VerdictsTakenBack ==
  mpc = "run" /\ Busies = {} /\ asleep = {} /\ (\A s \in Scanners : writes[s] = Nothing)
    => last.text = Defaults

\* The invariants together, with the types.
DisplayInv == TypeOK /\ WholeUnlessOverlapped /\ ReadyWhileRunning /\ VerdictsTakenBack

\* Every verdict is followed by the default lines, if threads without the
\* mutex do not spoil them and the display can still be reached.
DefaultsReturn ==
  \A s \in Scanners :
    writes[s] # Nothing ~>
      \/ torn \/ ~fd
      \/ Busies = {} /\ (Screen = Picture(Defaults) \/ ~last.alone)
=============================================================================
