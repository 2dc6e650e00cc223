# A specification of digilock

digilock is the daemon behind a coworking space's door: two GT-511 fingerprint
modules (one outside, `ENTRY`; one inside, `EXIT`), a relay for the lock, LEDs,
an LCD, an intercom, an emergency button, an SQLite database and a prompt for
the operator.  It is about 3000 lines of C and C++ in `src/digilock`, with one
thread per scanner, one for the intercom, one per emergency poll, short-lived
threads for every relay pulse, LED and LCD message, and the main thread at the
prompt.  This directory has TLA+ modules of it, TLC configurations that check
them, and proofs checked by TLAPS.

## 1. The system

| component | source | state | operations | talks to |
|---|---|---|---|---|
| serial link | `FPS_GT511Linux.cpp`, `rs232.c` | port, `_mutex`, bytes on the line | `SendCommand`, `SendData`, `GetResponse`, `GetResponse(n)`, `GetData` | the module, over RS-232; called by scan thread, main thread, blink thread |
| driver commands | `FPS_GT511Linux.cpp` | templates and image in the module | `IsPressFinger`, `CaptureFinger`, `Identify1_N`, `EnrollStart`, `Enroll1..3`, `CheckEnrolled`, `GetTemplate`, `SetTemplate`, `DeleteID`, `DeleteAll`, `GetEnrollCount`, `SetLED` | the link |
| scan loop | `scanner.cpp` | `_enabled`, `_scan_thread`, `detect` | `scan_thread`, `SetEnabled`, `Dump` | driver, relay, LEDs, LCD, database |
| relay, button, LEDs | `scanner.cpp` | output pins, sleeping threads | `thread_open_relay`, `thread_scan_emergency`, `ShowLED`, `thread_shut_leds`, `Heartbeat` | wiringPi |
| enrollment and records | `main.cpp`, `db.c` | tables `User`, `Fingerprint`, `UserFingerprint`; both modules' templates | `enroll`, `create user`, `delete fingerprint`, `delete all fingerprints`, `reload fingerprints` | both drivers, database |
| database access | `db.c` | handle, its mutex, an open transaction, event tables | `exec`, `db_insert_*_event`, `db_get_*` | SQLite; called by every thread |
| lifecycle | `main.cpp` | the objects, the watchdog's time stamp | `init`, `cleanup`, `restart`, `quit` | all |
| intercom | `intercom.cpp` | pins, `_enabled`, `_thread`, the press count of a turn | `loop_open`, `loop_cheat`, `ring_buzzer`, `open_door`, `SetEnabled` | wiringPi, database, a forked player |
| LCD | `lcd_i2c.c`, `scanner.cpp` | display, output register, cursor, `sLCDInit`, `sLCDMutex` | `ShowLCDMessage`, `thread_shut_lcd`, `SetCommonStrings`, constructor, destructor | I2C; called by scan threads, timers, main thread |
| templates as text | `base64.h`, `db.c`, `FPS_GT511Linux.cpp` | a row of `Fingerprint`, a data packet | `base64`, `unbase64`, `db_get_fingerprint`, `GetData`, `SendData` | both modules, database |
| configuration | `iniparser.c`, `dictionary.c`, `main.cpp` | a dictionary while `init` reads it | `iniparser_load`, `dictionary_set`, `_get`, `_unset`, `init` | all, at every restart |
| HTTP log | `req.c` | none that lasts | POST, once per event, its result printed and dropped | the server |

Hard behaviours, and where they are: two critical sections per driver call with a gap
between them, and no name in a response that says which command it answers; a timeout that
leaves an answer behind; an answer that is lost after the module has done what it was
asked; reads that over-read; a finger that moves between the three calls of a decision;
threads that are joined by a handle another start overwrites; timers that lower a pin
somebody else has just raised, and LEDs on that pin; enrollment in four places, one after
the other, with most results unread; a display that two threads write a nibble at a time;
a forked child that goes on as a second daemon; checksums that are sums; a file that is
read again, and may refuse, while the doors are watched by nobody.  `PROJECT.json` lists
them as hazards, each at its line.

What makes a component correct:

- *link*: a caller gets the whole answer to its own command; every call ends;
  the array that receives a packet is not exceeded; nothing is left on the line;
- *scan loop*: whoever is let in has been identified, once per touch; a finger
  that is held is decided about; a stopped scanner leaves its module alone;
  stopping ends;
- *relay*: the door opens when it is told to, stays open for the interval and
  is locked again; verdicts go out;
- *records*: the scanners agree; what opens the door is recorded under its
  owner; deletion deletes, reload restores;
- *database and lifecycle*: what is posted is stored, and what is stored is posted unless
  the POST fails; a transaction has one writer;
  no thread outlives its life; commands, and the watchdog's restart, come to an end;
- *intercom*: the street door opens for the code or in the free hours only; the
  button is let go; a stop leaves no loop behind;
- *display*: a verdict stands whole and goes away; a restart leaves a display that
  is used lit and its mutex usable;
- *templates as text*: what comes back is what was enrolled;
- *configuration*: what is loaded is what the file says; the dictionary is a map.

## 2. Modules

| module | what |
|---|---|
| `FpsLink` | the serial link at the grain of bytes, any number of threads on one scanner |
| `FpsRpc` | what the link promises: one call at a time, each given its own answer |
| `FpsLinkProofs` | theorems about `FpsLink`, including that it implements `FpsRpc` |
| `ScanLoop` | one scanner at the grain of packets: finger, module, scan threads, operator |
| `ScanLoopProofs` | theorems about `ScanLoop` |
| `Registry` | who is enrolled where: two scanners and three tables, step by step, with faults |
| `RegistryProofs` | theorems about `Registry`, and about the bytes of `Template` |
| `DoorRelay` | output pins and the threads that sleep over them |
| `DoorRelayProofs` | theorems about `DoorRelay` |
| `EventLog` | `exec` step by step: the database's mutex, its transaction, connections that close or do not |
| `Lifecycle` | `EventLog` under the threads that log, enrollment, restart and the watchdog |
| `LifecycleProofs` | theorems about `Lifecycle` and `EventLog` |
| `Intercom` | the loop of the intercom, the processes it forks, the buzzer, the clock |
| `IntercomProofs` | theorems about `Intercom` |
| `Display` | the LCD under the scan threads, the timers and a restart, a byte at a time |
| `DisplayProofs` | theorems about `Display` |
| `Template` | a template on its way: data packets, base64 text, checksums |
| `Dictionary` | the arrays of `dictionary.c`: holes, growth, lookup |
| `KeyMap` | what a dictionary promises: a map that changes a key at a time |
| `IniFile` | `iniparser_load` into a `Dictionary`, and what `init` does with the result |
| `IniFileProofs` | theorems about `IniFile` and `Dictionary`, including that they implement `KeyMap` |
| `MCFpsLink`, `MCScanLoop`, `MCRegistry`, `MCDoorRelay`, `MCLifecycle`, `MCIntercom`, `MCDisplay`, `MCTemplate`, `MCIniFile` | instances for TLC |

`ScanLoop` uses the link at a coarser grain: it takes from `FpsLink` that a
caller receives the packet that comes next.  `DoorRelay` takes a decision of
the scan loop as a free choice, and `Registry` takes a whole enrollment scan as
one step; neither is weaker for it, since their properties hold for every
decision and every scan.  `Intercom` leaves the event of an opening to `Lifecycle`,
whose intercom thread logs when it likes; `Template` follows one of `Registry`'s
templates to its bytes; `Display` takes verdicts as they come.

### FpsLink

The device writes one stream of bytes, numbered from 0.  A byte is its number:
`answerAt[c]` is the number of the first byte of the answer to command `c`, and
the packet a thread has parsed is an interval `[start, start + len)`.  `produced`,
`arrived` and `consumed` are the three ends of the stream (written by the
device, in the kernel's buffer, returned by `read`).  One action per critical
section or turn of a read loop: `SendCommand`, `LockResponse`, `Poll`,
`Timeout`, `LockData`, `PollData`; `Answer`, `Lose` and `Arrive` are the device
and the line.  `Poll` reads up to `RESPONSE_LEN` bytes *whatever the number that
is missing*, as the code does; a copy past the end of the array is the place
`"overrun"`, which has no next step.  What a torn or timed-out packet says is a free
choice (`AckSeen`).

Three parameters say in which regime the callers are.  `Serialised`: a caller
starts only when no other is in a call, which is what the commands that stop
the scan threads first get.  `SleepCovers`: the `usleep` before `GetResponse` in
the download commands is longer than the answer needs.  `MaxTimeouts`: how
often the timeout strikes.

### ScanLoop

`pc[s]` is where scan thread `s` is in `scan_thread`; a driver call is `Send`
followed by `Receive`, with everything else in between.  The module answers in
order, with the finger that is there *when it answers*; `captured[s]` remembers
what the thread's own `CaptureFinger` took, so that an admission can be compared
with it.  The main thread runs the commands *start*, *stop*, *count*, *dump* and
*delete all fingerprints* (`"wipe"`).  `Disciplined` keeps the operator from
starting a scanner that scans and from stopping one that does not (the second
would join a thread twice, which is undefined).

### Registry

One action per step of a command that changes a scanner or a table.  A step
goes well or fails, and `Faults` says which may fail.  A module that refuses a scan or a
transfer says so (`ScanRefused`, `NotSet`), the code undoes what went before, and this may
happen any number of times.  A fault that lasts is remembered in `mishaps`, so that a
property can say without which faults it holds.  Among these is `"answer"`: an answer that is
lost or comes too late.  Then the module may have done what it was asked or not
(`ScanUnanswered`, `Upload`), and the code takes whatever its buffer holds for the answer, so
that it goes on or gives up, and gives up without removing anything if it takes the finger for
not enrolled.  A crash is the loss of the command: the flash and the tables
keep what they have.  A link is a row of `UserFingerprint` with the number SQLite
gives it, one above the largest (`NextRow`): the last row of a template number says
whose it is, and a deletion looks at the first row of its user (`Oldest`).

### DoorRelay

Each thread that sleeps has a countdown.  A thread that is due runs before the
next `Tick`: the scheduler's latency and the pulses of milliseconds are shorter
than a tick.  `Write` changes one pin, and all pins are one array, so that a
configuration in which two outputs share a pin behaves as the board would.  It has to:
`gPinLockRelay` is a static that nobody assigns, so that the code drives pin 0 as the relay's,
and `config.ini` gives 0 to the red LED of the entry and 3 (`EPinLockRelay`) to the relay.
The instance is the entry on these pins, and the properties say what the LEDs may do to the
relay's; that those of the exit, which has none there, do nothing to it is in the proofs.

### EventLog and Lifecycle

`at[t]` is where thread `t` is in a call of the database; `Enter`, `Begin`,
`Statement`, `End`, `Leave`, `Post` are `exec` and its callers, with every other
thread in between.  The mutex is recursive and belongs to the connection.  Two
early returns of `exec` keep it: the thread that took it may come in again, the
others wait; a thread that ends while it holds it leaves it to `Gone`.  A
statement fails because the file is locked, by another process (`Faults`) or by
a connection of the daemon itself (`stale`): `db_insert_fingerprint` never finalizes its
SELECT, so that the next `db_close` refuses, and `db_open` then opens a second
connection, to which the first is a stranger with a lock.  A thread that
uses the connection after `db_close` is at `"undefined"`, from where nothing is said.

A stored event is posted once.  curl's result is printed and dropped: the request may not
arrive, or it may arrive and its answer not (`Post`), which `lost` remembers.  An answer of
the server is success to curl whatever its status says.  The posts of an enrollment
(`req_enroll`, `req_user`) read no state that lasts and are not modelled.

`Lifecycle` extends `EventLog`.  A command is a list of steps in `todo`, each an
action of the main thread: disable, join, enable, close, open, insert, log.
`Turn` is the test at the head of a thread's loop and `Decide` what the turn comes
to, so that a thread may log after it was told to stop.  One watched door is
enough for the database: the second scan thread is in the same places.

The watchdog is looked at by `Top` only, once per line, as in the code:
`WatchdogActs` is about an operator, or a terminal, that keeps sending lines.

### Intercom

`pc[l]` is where loop `l` is: at the test of `loop_thread`, in `loop_open`, in the
counting of `loop_cheat`, in `open_door`, or about to ring.  A tick is the 10 ms
of a poll; `elapsed[l]` stands for `millis() - ms`.  `presses[l]` is the program's
counter, modulo the size of its byte; `released[l]` counts what the visitor did,
and the two are compared at the opening only.  When the player cannot be executed
(`player`) the child of `ring_buzzer` takes the next identity in `Loops` with a copy
of the variables, its own `_enabled` among them, and nothing stops it.  The visitor
may toggle the buzzer at any moment, also between two looks of the loop; the hour
may change at any moment outside of the short stretches between reading the clock
and a free opening, where it may change once.  `tm_hour[l]` keeps the hour that was
read if it is a free one: of another nothing is asked again.  `IsFree` compares with both
ends as the code does, so that the hour of the end is free, and with equal ends that hour.

### Display

A call is a sequence of bytes in `rest[t]`; `StartByte` and `EndByte` of different
threads may interleave.  Bytes that meet (`clash`) put the display out of step
(`torn`), and then what it shows is unknown until a software reset that meets
nobody.  The cursor `xy` is the program's, `address` the display's: `lcd_i2c_putc`
moves both at the end of a line.  `sLCDMutex` is taken by `ShowLCDMessage` only;
`thread_shut_lcd` and the main thread write without it.  `mpc` is the main thread
in a restart: the destructors, the constructors, `SetCommonStrings`, the start.  `gUseLCD`
comes from the configuration with the first constructor of each life (`USE_LCD`), and only
the constructors and destructors look at it: texts are written to whatever `fd` there is.
A mutex that was destroyed is not made again by a life without a display; whoever locks it
fails, does not look, and writes without it (`Unlocked`).  `overlapped`, `last` and `met`
remember which texts nobody without the mutex met.

### Template

One template number.  Bytes are numbers, a text is the sequence of the values of
its characters, so that `base64`, `unbase64`, the header and the sums are what the
code computes.  Of every packet a byte may change (`Sends`), and once in a behaviour
(`scratched`) a character of the file: two changed characters can keep the sum.
`Buffers` is what `SetTemplate` reads behind a buffer that is too short.  `IsBase64` is
the definition of RFC 4648 over groups of 24 bits, without the code's shifts.  The names
are apart from those of `Registry`, which its proofs see as well.

### Dictionary, KeyMap and IniFile

`key`, `val`, `n` and `size` are those of `dictionary_`.  A new key goes to the first
hole from `n` on, around the end; the code rests on `n` being the number of keys for
that search to end (`FirstHole` would have no value).  `Map` is the refinement: a
lookup of every key.  A line of `IniFile` is a text and three marks that matter to
`iniparser_load`: does it go on in the next, does it end in a newline, is it one character
without one.  The last is overlooked, since the code goes on with the next line before it
looks for the newline (`SkipLine`); any other line without a newline ends the process
(`RefuseLine`).  `Found` is `iniparser_line`, a parameter: it is given the texts that are
joined, so that a line may be split anywhere, in a key or in a section too.  `errs`
follows the code, which lets the result of `dictionary_set` take the place of the errors so
far.  `Says` reads the same file at once, by the lines that end (`Ends`), the first line of
each (`First`), sections and last occurrences, and `LoadedIsWritten` compares the two.

## 3. Runs

| run | instance | shows |
|---|---|---|
| `FpsLinkSerial` | 2 threads, 4 commands with or without download, packets of 2 and 3 bytes, callers serialised, no timeout | types, `LinkInv` (the proofs' invariant), `OwnResponse`, `FramesExact`, `QuietBetweenCalls`; implements `FpsRpc` |
| `FpsLinkLossy` | 2 threads that do not wait, 3 commands, each may be lost or time out | every call returns (`CallsReturn`) |
| `ScanAdmit` | 2 scan threads in turn, an enrolled and an unknown finger, 2 touches, stop/start/dump/wipe | `AdmitsOnlyIdentified`, `OneAdmissionPerTouch`, `StoppedMeansQuiet`, `HeldFingerDecided` |
| `ScanLossy` | the same with a lossy module and up to 1 late answer | a stop returns (`StopReturns`) |
| `ScanCount` | 1 scan thread, an enrolled and an unknown finger, 1 touch, `count` while scanning | **violated** (`StrangersStayOut`): the answers are out of step, the acknowledgement of `CaptureFinger` is taken for the identifier 0, and the unknown finger opens the door |
| `RegistryFaults` | 2 users, 3 fingers (one of alice's two is as good as the other: symmetry), 2 template numbers, 2 row numbers for links, all commands and faults, 2 kinds of lasting faults | `RegistryInv` (types, and the last user of a number owns its template), `DevicesAgree`, `TemplatesRecorded`, `ReloadRestores` |
| `DoorRelay` | the entry on the pins of `config.ini`, 2 openers, 2 emergency threads, 2 LED threads, intervals 3 and 2 | types; a raised relay is attended (`RaisedIsAttended`), falls only after an interval or by the LEDs of a scanner with one on its pin (`FallsAfterInterval`), and falls in the end (`LocksAgain`); LEDs go out (`VerdictGoesOut`) |
| `Lifecycle` | a scan thread, the intercom's, the main thread; 2 events, 2 restarts, 1 locked file, POSTs that fail | `LifecycleInv` (types, and who may hold the mutex), `PostedIsStored`, `OneWriterPerTransaction`, `CleanBetweenLives`; events and commands end (`EventsReturn`, `CommandsEnd`); `WatchdogActs` |
| `Intercom` | 2 loops, an interval of 3 ticks, a code of 2 presses, a byte of 3 values, a day of 4 hours with 2 free | `IntercomInv` (types, no push without its loop, a stop leaves nobody), `OpensOnPresses`, `FreeOnlyInHours`; a stop returns (`StopReturns`) |
| `IniFile` | all files of up to 3 lines of 13 kinds, and those of 4 that begin with a section, 2 edits, a dictionary that starts with 2 slots | `IniFileInv` (types, slots in order), `LoadedIsWritten`; implements `KeyMap` (`ImplementsMap`) |
| `Template` | templates of 2 to 4 bytes out of 5 values, 4 kinds of noise, 5 of scratches | `TemplateInv` (types, the row is RFC 4648 of what was enrolled), `HeldIsEnrolled` |
| `Display` | 2 scanners, 2 timers, 2 verdicts, 2 columns of 3 cells, 1 restart, at which `USE_LCD` may change and the display may not be found | `DisplayInv` (types, whole texts, ready when the scanners run, verdicts taken back); the default lines come back (`DefaultsReturn`) |

The violation is a disagreement between the code and its comments, and
`PROJECT.json` quotes the lines.  Other places where the code does not do what a
document says were met on the way.  No run repeats them, since each can be read
off a line or two:

- After a timeout the answer stays on the line and is taken for that of the next
  command (FPS_GT511Linux.cpp:1058; the comment at 1037 promises "the response to
  the command").  With `MaxTimeouts = 1` in `FpsLinkSerial`, `OwnResponse` and
  `QuietBetweenCalls` fail.
- `delete fingerprint` ("Delete a single fingerprint", README.md:35) deletes rows and
  leaves both scanners as they are: the finger opens the door (main.cpp:518).
- `reload fingerprints` goes over `0..count-1`, and deletions leave gaps: templates
  with higher numbers are not reloaded (main.cpp:615).  `ReloadRestores` says what is.
- An enrollment that fails is undone ("remove fgp id cuz something went wrong",
  main.cpp:415) only if `Enroll3` has returned 0 (line 416): when its answer is lost the
  template stays on the exit scanner, opens it, and has no row.  With `"answer"` no longer
  excepted, `DevicesAgree` and `TemplatesRecorded` fail in `RegistryFaults`.
- `gPinLockRelay` is never assigned: openings drive pin 0, the red LED of the entry
  in `config.ini`, and never the relay's pin 3, `EPinLockRelay` (scanner.cpp:38).
- The hour at which free opening ends is free as well (intercom.cpp:194), and equal ends,
  announced as "CHEAT CODE ALWAYS ON" (intercom.cpp:254), leave one hour in which a ring
  alone opens: `FreeOnlyInHours` says what the hours are, for equal ends too.
- After a restart with `USE_LCD` set from 1 to 0 ("do we use an external I2C LCD 16x2 ?",
  config.ini:15) verdicts and default lines are still written to the display, dark and
  under a destroyed mutex (scanner.cpp:222).

- The watchdog "will restart scanning threads every xxx HOURS" (config.ini:93), but
  only after a line of input.

**Bounds.**  Packets of two bytes can be torn and a data packet of three is longer than a
response, which is what the over-read needs; one more byte adds places to tear it but no
new one.  Two threads suffice for a crossed response and four commands for two calls of
each.  Two touches give a scan loop a former image and a new one.  Two template numbers
give a full scanner, a number that is used again, and a row above a gap; two row numbers
are an older and a newer link of a user or of a template number.  Two openers and two
emergency threads are every kind of overlap of two timers; the intervals differ so that an
LED's and the relay's timer end in either order; the entry is the scanner that shares a pin with the
relay.  Two events are one that is left in a transaction
and one that meets it; the rows
of an enrollment are transactions besides; two restarts are a connection that cannot be
closed and one opened beside it.  In `Intercom` an interval of three ticks has room for
the code, for one press more and for a press that ends after it, and a byte of three
values goes round within it; two loops are the thread and a child or a second thread; an
hour before and one after the two that are free are all there is to a day, and between the
two the hour may change in the middle of a turn.  Four lines are a section, a key, and
both again, or lines that go on between them: among the 13 kinds of lines are a section, a
key, the halves of a key, a comment and an empty line that go on, a line without a newline
and one of a single character.  The keys are more than twice the first two slots, so that
the dictionary doubles, and two edits make a hole and fill it.  Templates of two, three
and four bytes end in one, none and two `=`; 255 and 128 set every bit a shift can lose.
Two columns of a display with three cells tell the end of a line from the end of its
memory; two verdicts overlap with each other's timers, and one restart has both lives,
with a display,
without one, or with one in either only; a welcome fills its first line and has a second, a
refusal and the default text fill none.  `MaxCalls`, `MaxTimeouts`,
`MaxTouches`, `MaxLate`, `MaxLinks`, `MaxMishaps`, `MaxEvents`, `MaxFaults`,
`MaxRestarts`, `MaxMessages`, `MaxEdits`, `MaxLines` and the identities of threads
(`Scans`, `Openers`, `Emergencies`, `Shutters`, `Loops`, `Timers`) are the bounds.
Deadlock is not checked where the bounds stop the system (`FpsLink`, `ScanLoop` with
bounded touches and commands), nor in `Lifecycle`, where a mutex that is kept stops every
thread, in `Display`, whose verdicts are bounded, and in `IniFile`, where the daemon may
exit; `DoorRelay`, `Registry`, `Intercom` and `Template` are checked for it where their
cfg says nothing.

**Fairness.**  `FpsLink`: the device and the line go on, and a thread in a driver call
goes on; this is what a running module and a preemptive scheduler do. Nobody is bound to
start a call.  The timeout is part of the thread's fairness, since `millisecs()` grows;
`Lose` may stand for the device's step.  `ScanLoop`: the same, for the module, each scan
thread and the main thread; people and the operator are free.  `DoorRelay`: time passes
and threads that are due run; nobody has to come, push or type, and the scan loops are not
bound to run at all, so that `VerdictGoesOut` rests on `thread_shut_leds` and not on the
heartbeat. `Lifecycle`: the main thread and each thread that logs go on when they can;
weak fairness is enough, because the events that compete for the mutex are bounded.  That
a POST ends is an assumption about the server and the net: `req.c` gives curl no timeout.
The operator and the watchdog's clock are free; `WatchdogActs` assumes lines of input,
empty ones, for ever. `Intercom`: time passes, loops that are awake run, the main thread
joins; nobody has to ring, and `StopReturns` assumes that the buzzer is let go in the end.
`Display`: threads that write go on, timers wake, a restart goes on; verdicts and
restarts are free.  A scan thread is in `ShowLCDMessage` or not, so that nobody waits
long for the mutex.  `EventsReturn` and `CommandsEnd` say "or `Trouble`": after a locked
file, a connection that could not be closed or a use of a closed one the code does stop
for ever, and nothing in it recovers.

## 4. Proofs

`tlapm` proves in `FpsLinkProofs`, `ScanLoopProofs`, `RegistryProofs`, `DoorRelayProofs`,
`LifecycleProofs`, `IntercomProofs`, `DisplayProofs` and `IniFileProofs`, for every value of
the constants that satisfies the modules' assumptions:

| module | theorem | states | assumes |
|---|---|---|---|
| `FpsLinkProofs` | `TypeCorrect` | `Spec => []TypeOK` of the link, in every regime | |
| | `LinkInvariant` | `Spec => []LinkInv` | callers serialised, sleeps that cover, no timeout |
| | `ResponsesMatch`, `FramesAreExact`, `LineIsQuiet` | `OwnResponse`, `FramesExact`, `QuietBetweenCalls` | the same |
| | `LinkImplementsRpc` | `Spec => Rpc!Spec`: a refinement | the same |
| `ScanLoopProofs` | `TypeCorrect` | `Spec => []TypeOK`, in every regime | |
| | `OnlyIdentified` | `Spec => []AdmitsOnlyIdentified` | `Calm`: disciplined, no lost answer, no `count` |
| | `OnePerTouch` | `Spec => []OneAdmissionPerTouch` | the same |
| | `StoppedIsQuiet` | `Spec => []StoppedMeansQuiet` | the same |
| `RegistryProofs` | `OwnersBound` | `Spec => []RegistryInv`: types, and whose a template is | |
| | `BothDoors` | `Spec => []DevicesAgree` | |
| | `AllRecorded` | `Spec => []TemplatesRecorded` | |
| | `ReloadedOpen` | `Spec => []ReloadRestores` | |
| | `Base64IsBase64`, `Unbase64Base64` | `IsBase64(base64(s), s)`, `unbase64(base64(s)) = s` | `s` has a byte |
| | `HurtPacket` | a packet with a byte changed gives its data or nothing | |
| | `TemplatesStored` | `TemplateSpec => []TemplateInv`: types, and what the row is | |
| | `HeldEnrolled` | `TemplateSpec => []HeldIsEnrolled` | |
| `DoorRelayProofs` | `TypeCorrect` | `Spec => []TypeOK`, on any pins | |
| | `DoorIsAttended` | `Spec => []RaisedIsAttended`, on any pins | |
| | `DoorStaysOpen` | `Spec => FallsAfterInterval`, on any pins | |
| `LifecycleProofs` | `MutexOrTransaction` | `Spec => []LifecycleInv`: types, and who may hold the mutex | |
| | `ServerKnowsStored` | `Spec => []PostedIsStored` | |
| | `OneWriter` | `Spec => []OneWriterPerTransaction` | |
| | `NobodySurvives` | `Spec => []CleanBetweenLives` | |
| `IntercomProofs` | `IntercomIsSafe` | `Spec => []IntercomInv` | |
| | `OpeningTakesTheCode` | `Spec => OpensOnPresses` | |
| | `FreeOpeningIsInTime` | `Spec => FreeOnlyInHours` | |
| `DisplayProofs` | `DisplayIsWhole` | `Spec => []DisplayInv`: types, whole texts, ready when the scanners run, verdicts taken back | |
| `IniFileProofs` | `InOrder` | `Spec => []IniFileInv`: types, and the dictionary's slots | |
| | `LoadedAsWritten` | `Spec => []LoadedIsWritten` | |
| | `BehavesAsMap` | `Spec => ImplementsMap`: a refinement | |

Where nothing is assumed the faults are in the model: what may go wrong is free, and the
property says itself after which faults it no longer promises anything (`Without`,
`MutexKept`).  Each inductive invariant was first checked by TLC on an instance of its run.

*The link.*  `OwnResponse` is not inductive: it says nothing of the bytes that
are under way.  `LinkInv` adds that at most one thread is in a call and holds
the mutex exactly in a read loop (`OneCall`); the order of the three ends of the
stream, and that at most one command is unanswered (`LineInv`); that answers have
places of their own, in the order of their commands (`AnswersInv`); and what the
thread in a call may find on the line, by its place in the call (`ExchangeInv`):
nothing, or its own answer from where it has read to, with the data packet
behind it if there is one.  For a download the answer must have arrived whole
before the first read, which is what the sleep is for: without it the loop
takes bytes of the data packet, and the model has the overrun.  There is one
lemma per action.  The refinement maps a call to `"waiting"` until its response is
parsed, and the bytes to the set of calls whose answer they are (`Handed`).

The three assumptions are the code's own: where one is dropped the property
fails, and `ScanCount` is what happens without the first.

*The scan loop.*  `AdmitsOnlyIdentified` rests on whose answer a response is, which nothing
in a response says.  `IInv` therefore says first that there is one conversation: only the
thread in the handle is not off, the main thread calls the module only once that thread
is joined (`OneActive`), who waits is in a call (`Waits`), and the link has that thread's
command or the answer to it and nothing else (`Exchange`).  Then it says what the finger
may have done meanwhile, by the thread's place in its turn (`Turn`): a thread whose latch
is set has not opened for this touch (`Armed`); a capture that has been answered is the
module's image (`Taken`); and an identifier below 2000 that is on the way is that of the
image, of an enrolled finger.  That a finger moves between the three calls is harmless
for exactly this reason: the identifier is of the image, and the image is the thread's
own.  `Calm` is what the properties need and no more: `Disciplined` keeps the operator from
starting what runs, which overwrites the handle; a lost answer leaves the next one to the
wrong call; and `count` is the run `ScanCount`.

*The records.*  Each property speaks of the prompt, and is broken in the middle of every
command.  `IInv` says how far: between the scan and the upload the exit scanner is ahead
of the entry scanner by one finger, after a `DeleteAll` behind it by all (`Copied`); a
template without a row is one that is being enrolled or deleted (`Recorded`); the last row
of a number is its owner's or is about to be inserted (`Bound`); and the reload loop has
on both scanners what it has passed (`Restored`).  Each part is under the faults after
which it no longer holds, which are fewer than those of the property that follows from
it, so that one fault does not take the others' promises with it.  A lost answer takes all but
`ReloadRestores`, which names `"restore"`: the module has the template or has it not, the
code may believe either.  `Registers` is what a
command remembers between its steps, above all that the number found free is still free
when the finger is stored.

*The templates.*  The steps are few and the data is all of it.  `TemplateIInv` says of
each place the template is in what it may have become there: on the line a packet of which
one byte has changed (`OneByteOff`), in the row the text or the text but for a character
(`RowIs`), in the buffer and on the scanner what can be read of that (`ReadIs`, `HeldIs`).
Four facts about the operators carry it.  A byte that changes in a packet moves the sum
by less than 65536 and never by 0, and the bytes of the header and of the checksum are
no data (`HurtPacket`, on `SumsDiffer`).  The text of a template is that of
RFC 4648 and is read back (`Base64IsBase64`, `Unbase64Base64`): `Cut` names the bits of three
bytes where four digits divide them, so that shifts, `div` and `mod` are met in two
lemmas only.  And a text one character of which has changed differs from the template in
the group of that character alone (`OtherGroups`), where a sum that has not changed leaves
no choice (`GroupSum`, `SameSum`), except at the end: `=` and a digit of value 0 are the same
digit with another length (`Repads`), so that a zero at the end may be lost.  It is never more than
one byte, which `HeldIsEnrolled` says with `i = Len(held)`.

*The lives.*  `PostedIsStored` is inductive only together with what a transaction holds
at each step of the thread that began it (`Transaction`), and with `MutexKept`, which says
that no other thread is there to add to it.  An event is in `lost` only when its POST is
over, so that a failure moves it from the events still to be posted and loses it nowhere
else.  `CleanBetweenLives` needs the whole of the command that is left to run: each write
of the main thread is waited for before its next step (`Waited`), and before a step that
opens the database every thread that lives is joined, and none is started (`Reopens`).

*The configuration.*  The dictionary's part of `IInv` is `SlotsInOrder`: that `n` counts the
keys is what makes the search for a hole end, and doubling leaves one.  A key is added in
the first hole from `n` on, around the end, and found from slot 0, so that the lemmas are
about the least element of a set of slots.  `ReadSoFar` says that the dictionary, the
section and `errs` are what the lines that have ended by `pos` say (`SaysTo`, `SectionTo`,
`SoundTo`), and that `part` holds the texts of the line that has not, from its first line on
(`Began`, `Joined`); a line that goes on is one line with its first, and one without a
newline that is passed over is the last (`Lost`).  At the end of the file this is
`LoadedIsWritten`.  Of `Found` nothing is assumed but that it names keys there are.
For `ImplementsMap` a line sets one key of the map, or none, and `dictionary_del` drops all.

*Numbers.*  The prover cannot use induction over an operator, so that the least element of
a set of numbers, which `Min`, `Max`, `Oldest`, `Latest` and `FirstHole` choose, comes from the
well-foundedness of `<` on the naturals, a relation and no operator: `MinimalNumber`,
`MinimalIsLeast` and `LeastNumber` in `IniFileProofs`, and their like in `RegistryProofs`.
Induction comes from there too: `AllUpTo` is induction for a *set* of numbers, by the
least that is not in it, and a set may be defined by what one wants to show of its
elements.  `Sum`, a recursive function, is what any function that adds one number after
the other ends with (`AddsExist`, `SumIs`), and so sums can be split, padded and compared.

*The relay.*  The invariant is `IInv == Shape /\ RaisedIsAttended`: the types of the threads,
and the property.  A raised pin outlives the wake of one thread only if that thread lowers
it, so that a thread that wakes cannot leave the pin raised without a sleeper.  Nothing is
assumed of the pins: an LED on the relay's raises it too, by `ShowLED`, and then its scanner
is deciding with its wait LED there (`Waits`), or the decision has started the thread that
puts its LEDs out (`Lit`); whichever of the two kinds of threads lowers the pin first leaves
it lowered, early or not.  Early is what `FallsAfterInterval` allows to a scanner with an LED
on the pin and to nobody else.

*The intercom.*  None of the three is inductive.  `IInv` adds to the types and to
`PushIsAttended` what each loop knows of its visitor by its place in a turn (`Visit`:
`presses` is at most `released`, and strictly less once the press that is waited out is
over; the ring of a free turn was at its hour or the one before), and that a loop
without a handle comes from a fork or a second start (`Handles`).  `Others` says what a
step of one loop may do to another, so that each action is looked at for its own loop
only.  The counter is taken modulo its width: an overflow can refuse a visitor who
pressed too often, but it never opens for fewer presses than the code has.  The one
assumption is `IntercomAssumption`: constants of the right kind, and a code below 256.

*The display.*  That a text is whole in the end says nothing of it on its way.  `Progress`
does: what is left of it, and with it what of it is on the display and where both cursors
are, in the six stages that a text goes through; after the last cell of a full line the
cursor's move to the other line comes in between.  `Texting` claims this only of a thread
that is `Alone`, not overlapped on a display that is found and in step, and that thread is
the only one that writes: two scan threads would both need the mutex, and where it is
destroyed they write without it, which is remembered as it is of timers and the main thread
(`Meetings`).  A display that is said to be set up is one that is used, was found and has its
mutex (`SetUp`), and at the start of the scanners one that is used and was found is set up,
whatever `USE_LCD` was before; a scan thread that writes holds the mutex if there is one
(`Callers`).  In a restart the main thread writes no text but clears the display
(`Clearing`), and what it has left to write (`MainBytes`) says that a reset, which brings the
nibbles into step again, is sent only to a display that was just set up.  The sizes of the
display and the number of scanners are free.
`TakesBack` is what `DefaultsReturn` needs of safety: if the text that ended last is not
the default lines, a scan thread has yet to leave the mutex and start a timer, or a timer
sleeps or writes (`Pending`), whichever order their bytes took; a timer writes nothing
else, so that without any of them no verdict is left (`VerdictsTakenBack`).

*Assumptions on constants* are the named ones of the modules, as weak as the code
justifies: identities are distinct (the main thread is no scan thread, nobody is no
user), a code is below 256, template numbers are below `MAX_FGP_COUNT` and no more fingers
are enrolled than there are numbers, a template has a byte and is not `NULL`, `=` is no
digit, a file is a sequence of lines whose keys, however its lines are split, are in `Keys`,
and a single character without a newline is the last of them; a line of a verdict fits
in a row.  Two CASEs whose guards overlapped, in `ScanLoop`'s `Work` and `EventLog`'s `Open`,
were met by the proofs: TLA+ leaves open which arm of such a CASE is taken, and the order in
which the code looks is now written out.

**Model-checked only**: everything under fairness (`CallsReturn`, `StopReturns`,
`HeldFingerDecided`, `LocksAgain`, `VerdictGoesOut`, `EventsReturn`, `CommandsEnd`,
`WatchdogActs`, `DefaultsReturn`), which is out of the prover's reach.  Every invariant, every
action property and both refinements of the passing runs have a theorem.

## 5. Not modelled, and why

- *The blink thread* (main.cpp:438): it stops both scanners behind the main thread's
  back, and any later command joins a thread a second time, which is undefined.
  The same goes for stopping what is stopped, and for `cleanup` with an intercom that
  was never started.
- *`quit` from the signal handler*: it is `cleanup` in the middle of anything, and the
  process ends; `Registry`'s `Crash` is what remains of it.
- *An operator who starts a scanner that scans* (`Disciplined = FALSE` in `ScanLoop`):
  the handle is overwritten and `StoppedMeansQuiet` fails, by one missing test
  (main.cpp:487).
- *The characters of a line* of config.ini: what the `sscanf` patterns of
  `iniparser_line` match is what `Found` says of a text.  A line of blanks only reads `line[-1]`,
  and is left out, as are `[]`, which leaves the section as it was, and a line with two
  backslashes before an empty one.  Of the parser, `getdouble`,
  `getboolean`, `find_entry`, `getsecname`,
  `getnsec` and the dumps are called by nobody.
- *Checksums of responses*: a mismatch is printed and the response taken
  (FPS_GT511Linux.cpp:104); in `FpsLink` and `ScanLoop` responses come unchanged or not at all.
- *Memory that is freed too early or never*: the name `db_get_user_name` returns, the
  `Scanner` a sleeping LED thread still points to, the children nobody waits for,
  `SetTemplate`'s packet bytes.
- *Machine integers of the configuration*: a missing press interval is -1 and compared
  as unsigned; 597 hours of watchdog overflow.  Intervals are constants or free choices.
- *The posts of an enrollment* (`req_enroll`, `req_user`), whose results nobody reads either,
  and how curl forms a request.  The posts of events are in `EventLog`.
- *Files that are not linked, or not code*: `gt511.c`, `gt511test.c`, `bitmap.c`,
  `smtp-mail.c`, `win32code.cpp`, the drawings and the Xcode project.

## 6. Plan

1. `Registry` over `Lifecycle`: an enrollment step that stores, as a call of `exec`.
2. `FpsLink` with timeouts: which calls after a late answer are given the wrong one, as a
   property that says how far the line is out of step.
