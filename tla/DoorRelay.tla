------------------------------ MODULE DoorRelay ------------------------------
(***************************************************************************)
(* The outputs of scanner.cpp: the relay of the door lock and the LEDs of  *)
(* the two scanners.  Every admission creates a thread that raises the     *)
(* relay's pin, sleeps and lowers it; the emergency threads do the same    *)
(* while the button is pushed; every decision creates a thread that puts   *)
(* the scanner's LEDs out after a sleep.  None of them knows of another,   *)
(* and nothing keeps their pins apart: the relay's is 0, whatever number   *)
(* the configuration gives it, and config.ini gives 0 to a red LED.        *)
(*                                                                         *)
(* Time is a countdown per sleeping thread.  A thread whose sleep is over  *)
(* runs before the next tick: latencies of the scheduler and sleeps of     *)
(* milliseconds are shorter than a tick.                                   *)
(***************************************************************************)
EXTENDS Integers

CONSTANTS
  Scanners,
  Nobody,            \* no scanner
  Pins,
  gPinLockRelay,     \* the pin the code drives: a static nobody assigns, so 0
  LedPin,            \* LedPin[s][l]: the pin of the LED l of s
  Openers,           \* thread_open_relay threads; bounds how many run at once
  Emergencies,       \* thread_scan_emergency threads; bounds the restarts
  Shutters,          \* thread_shut_leds threads; bounds how many run at once
  RELAY_INTERVAL,    \* gRelayIntervalMS in ticks
  LED_INTERVAL       \* 2000 ms in ticks

Leds == {"ok", "wait", "nok"}
RelayThreads == Openers \cup Emergencies
Threads == RelayThreads \cup Shutters

ASSUME DoorRelayAssumption ==
  /\ Nobody \notin Scanners /\ Emergencies # {}
  /\ gPinLockRelay \in Pins
  /\ LedPin \in [Scanners -> [Leds -> Pins]]
  /\ Openers \cap Emergencies = {} /\ RelayThreads \cap Shutters = {}
  /\ RELAY_INTERVAL \in Nat \ {0} /\ LED_INTERVAL \in Nat \ {0}

VARIABLES
  level,   \* level[p]: is pin p HIGH?
  scan,    \* scan[s]: s is "idle", "deciding", or has decided and is "held"
  button,  \* is the emergency button pushed?
  pc,      \* pc[t]: "none", "new", "polling" or "asleep"
  left,    \* left[t]: ticks t still sleeps
  leds     \* leds[h]: the scanner whose LEDs h puts out, or Nobody

threadVars == <<pc, left, leds>>
vars == <<level, scan, button, threadVars>>

Init ==
  /\ level = [p \in Pins |-> FALSE]
  /\ scan = [s \in Scanners |-> "idle"]
  /\ button = FALSE
  /\ LET e == CHOOSE e \in Emergencies : TRUE
     IN pc = [t \in Threads |-> IF t = e THEN "polling" ELSE "none"]
  /\ left = [t \in Threads |-> 0]
  /\ leds = [h \in Shutters |-> Nobody]

\* A new thread takes a free identity of its kind; which one does not matter.
Free(kind) == {t \in kind : pc[t] = "none"}
New(kind) == CHOOSE t \in Free(kind) : TRUE

\* digitalWrite
Write(p, high) == level' = [level EXCEPT ![p] = high]

PinsOf(s) == {LedPin[s][l] : l \in Leds}
ShutdownLEDs(s) == level' = [p \in Pins |-> level[p] /\ p \notin PinsOf(s)]

\* ShowLED(l, true): ShutdownLEDs, then one LED.
ShowLED(s, l) ==
  level' = [p \in Pins |-> p = LedPin[s][l] \/ (level[p] /\ p \notin PinsOf(s))]

(***************************************************************************)
(* The scan loops.                                                         *)
(***************************************************************************)
Press(s) ==
  /\ scan[s] = "idle"
  /\ scan' = [scan EXCEPT ![s] = "deciding"]
  /\ ShowLED(s, "wait")
  /\ UNCHANGED <<button, threadVars>>

\* Identify1_N has answered: the LED, the thread that will put it out, and on
\* an admission the thread that opens the door.
Decide(s, l, started) ==
  /\ scan[s] = "deciding"
  /\ scan' = [scan EXCEPT ![s] = "held"]
  /\ ShowLED(s, l)
  /\ Free(Shutters) # {}
  /\ LET h == New(Shutters) IN
       /\ pc' = [t \in Threads |-> IF t = h THEN "asleep"
                                   ELSE IF t \in started THEN "new" ELSE pc[t]]
       /\ left' = [left EXCEPT ![h] = LED_INTERVAL]
       /\ leds' = [leds EXCEPT ![h] = s]
  /\ UNCHANGED button

Admit(s) == Free(Openers) # {} /\ Decide(s, "ok", {New(Openers)})
Refuse(s) == Decide(s, "nok", {})

\* A turn of the loop without a finger: ShowLED(ELEDTypeWait, false).
Release(s) ==
  /\ scan[s] \in {"idle", "held"}
  /\ scan' = [scan EXCEPT ![s] = "idle"]
  /\ Write(LedPin[s]["wait"], FALSE)
  /\ UNCHANGED <<button, threadVars>>

\* Each pulse is shorter than a tick and ends with its LED out.
Heartbeat(s) ==
  /\ scan[s] \in {"idle", "held"}
  /\ ShutdownLEDs(s)
  /\ UNCHANGED <<scan, button, threadVars>>

(***************************************************************************)
(* The threads that sleep.                                                 *)
(***************************************************************************)
Sleep(t, n) == /\ pc' = [pc EXCEPT ![t] = "asleep"]
               /\ left' = [left EXCEPT ![t] = n]
Wake(t, next) == /\ pc[t] = "asleep" /\ left[t] = 0
                 /\ pc' = [pc EXCEPT ![t] = next]
                 /\ UNCHANGED left

\* Mutant: one tick too many.
OpenRelayLonger(o) ==
  /\ pc[o] = "new"
  /\ Sleep(o, RELAY_INTERVAL + 1)
  /\ Write(gPinLockRelay, TRUE)
  /\ UNCHANGED <<scan, button, leds>>

\* thread_open_relay
OpenRelay(o) ==
  /\ pc[o] = "new"
  /\ Sleep(o, RELAY_INTERVAL)
  /\ Write(gPinLockRelay, TRUE)
  /\ UNCHANGED <<scan, button, leds>>

\* Mutant: milliseconds are taken for microseconds.
CloseRelayEarly(o) ==
  /\ pc[o] = "asleep"
  /\ pc' = [pc EXCEPT ![o] = "none"]
  /\ left' = [left EXCEPT ![o] = 0]
  /\ Write(gPinLockRelay, FALSE)
  /\ UNCHANGED <<scan, button, leds>>

CloseRelay(o) ==
  /\ Wake(o, "none")
  /\ Write(gPinLockRelay, FALSE)
  /\ UNCHANGED <<scan, button, leds>>

\* thread_scan_emergency
PollEmergency(e) ==
  /\ pc[e] = "polling" /\ button
  /\ Sleep(e, RELAY_INTERVAL)
  /\ Write(gPinLockRelay, TRUE)
  /\ UNCHANGED <<scan, button, leds>>

\* Mutant: a button that is still pushed keeps the relay up.
EndEmergencyUnlessPushed(e) ==
  /\ Wake(e, "polling")
  /\ Write(gPinLockRelay, button)
  /\ UNCHANGED <<scan, button, leds>>

EndEmergency(e) ==
  /\ Wake(e, "polling")
  /\ Write(gPinLockRelay, FALSE)
  /\ UNCHANGED <<scan, button, leds>>

\* Mutant: the LEDs of a finger that is still there stay lit.
ShutLedsUnlessHeld(h) ==
  /\ Wake(h, "none")
  /\ IF scan[leds[h]] = "held" THEN UNCHANGED level ELSE ShutdownLEDs(leds[h])
  /\ leds' = [leds EXCEPT ![h] = Nobody]
  /\ UNCHANGED <<scan, button>>

\* thread_shut_leds
ShutLeds(h) ==
  /\ Wake(h, "none")
  /\ ShutdownLEDs(leds[h])
  /\ leds' = [leds EXCEPT ![h] = Nobody]
  /\ UNCHANGED <<scan, button>>

\* restart(): init() creates one more emergency thread, and none ever ends.
Restart ==
  /\ \A s \in Scanners : scan[s] # "deciding"
  /\ Free(Emergencies) # {}
  /\ pc' = [pc EXCEPT ![New(Emergencies)] = "polling"]
  /\ UNCHANGED <<level, scan, button, left, leds>>

PushButton ==
  /\ button' = ~button
  /\ UNCHANGED <<level, scan, threadVars>>

Due == \E t \in Threads : pc[t] = "new" \/ (pc[t] = "asleep" /\ left[t] = 0)

Tick ==
  /\ ~Due
  /\ \E t \in Threads : pc[t] = "asleep"
  /\ left' = [t \in Threads |-> IF pc[t] = "asleep" THEN left[t] - 1 ELSE left[t]]
  /\ UNCHANGED <<level, scan, button, pc, leds>>

Opener(o) == OpenRelay(o) \/ CloseRelay(o)
Emergency(e) == PollEmergency(e) \/ EndEmergency(e)
ScanLoop(s) == Press(s) \/ Admit(s) \/ Refuse(s) \/ Release(s) \/ Heartbeat(s)

Next ==
  \/ \E s \in Scanners : ScanLoop(s)
  \/ \E o \in Openers : Opener(o)
  \/ \E e \in Emergencies : Emergency(e)
  \/ \E h \in Shutters : ShutLeds(h)
  \/ Restart \/ PushButton \/ Tick

Spec == Init /\ [][Next]_vars

\* Time passes and threads that can run do.  Nobody has to come, push the
\* button or type, and no LED is put out by a scan loop that must go on.
FairSpec == /\ Spec
            /\ WF_vars(Tick)
            /\ \A o \in Openers : WF_vars(Opener(o))
            /\ \A e \in Emergencies : WF_vars(EndEmergency(e))
            /\ \A h \in Shutters : WF_vars(ShutLeds(h))
-----------------------------------------------------------------------------
TypeOK ==
  /\ level \in [Pins -> BOOLEAN]
  /\ scan \in [Scanners -> {"idle", "deciding", "held"}]
  /\ button \in BOOLEAN
  /\ pc \in [Threads -> {"none", "new", "polling", "asleep"}]
  /\ left \in [Threads -> 0..(RELAY_INTERVAL + LED_INTERVAL)]
  /\ \A t \in RelayThreads : left[t] <= RELAY_INTERVAL
  /\ leds \in [Shutters -> Scanners \cup {Nobody}]
  /\ \A h \in Shutters : pc[h] = "asleep" <=> leds[h] # Nobody

\* The door is never left open: while the relay's pin is HIGH a thread that
\* will lower it is asleep, however admissions, the button and restarts overlap;
\* and if a scanner has an LED on that pin, either a thread that will put its LEDs
\* out is asleep, or it is deciding about a finger.
RaisedIsAttended ==
  level[gPinLockRelay] =>
    \/ \E t \in RelayThreads : pc[t] = "asleep"
    \/ \E h \in Shutters : pc[h] = "asleep" /\ gPinLockRelay \in PinsOf(leds[h])
    \/ \E s \in Scanners : scan[s] = "deciding" /\ gPinLockRelay = LedPin[s]["wait"]

\* A step that switches the LEDs of s.
Switches(s) == ScanLoop(s) \/ \E h \in Shutters : leds[h] = s /\ ShutLeds(h)

\* The relay falls only at the end of a whole interval (it may be that of an
\* earlier admission), or because of a scanner with an LED on its pin: that of
\* the entry in config.ini, never that of the exit.
FallsAfterInterval ==
  [][level[gPinLockRelay] /\ ~level'[gPinLockRelay] =>
       \/ \E t \in RelayThreads : pc[t] = "asleep" /\ left[t] = 0
       \/ \E s \in Scanners : gPinLockRelay \in PinsOf(s) /\ Switches(s)]_vars

\* An open door is locked again, even if the button stays pushed.
LocksAgain == level[gPinLockRelay] ~> ~level[gPinLockRelay]

\* The verdict a scanner shows goes out, even if the finger stays.
VerdictGoesOut ==
  \A s \in Scanners : \A l \in {"ok", "nok"} :
    level[LedPin[s][l]] ~> ~level[LedPin[s][l]]
=============================================================================
