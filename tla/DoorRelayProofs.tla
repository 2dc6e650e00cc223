--------------------------- MODULE DoorRelayProofs ---------------------------
(***************************************************************************)
(* Proofs about DoorRelay, for any number of scanners, of threads of every *)
(* kind, of restarts and of ticks, and whatever pins the configuration     *)
(* gives the LEDs: those of config.ini put one on the relay's.             *)
(***************************************************************************)
EXTENDS DoorRelay, TLAPS

\* What of the state's shape the proofs need.
Shape ==
  /\ level \in [Pins -> BOOLEAN]
  /\ scan \in [Scanners -> {"idle", "deciding", "held"}]
  /\ pc \in [Threads -> {"none", "new", "polling", "asleep"}]
  /\ leds \in [Shutters -> Scanners \cup {Nobody}]
  /\ \A h \in Shutters : pc[h] = "asleep" => leds[h] \in Scanners

\* A thread that will lower the relay's pin sleeps.
Opened == \E t \in RelayThreads : pc[t] = "asleep"
\* A thread that will put out the LEDs of a scanner with one on that pin sleeps.
Lit == \E h \in Shutters : pc[h] = "asleep" /\ gPinLockRelay \in PinsOf(leds[h])
\* A scanner decides, with its wait LED on that pin.
Waits == \E s \in Scanners : scan[s] = "deciding" /\ gPinLockRelay = LedPin[s]["wait"]

IInv == Shape /\ RaisedIsAttended

\* A kind with a free identity has a new one, which is free.
LEMMA NewIsFree ==
  ASSUME NEW kind, Free(kind) # {}
  PROVE  New(kind) \in kind /\ pc[New(kind)] = "none"
<1>1. New(kind) \in Free(kind)
  BY DEF New
<1> QED
  BY <1>1 DEF Free

\* The kinds of threads are apart.
LEMMA ThreadKinds ==
  /\ \A h \in Shutters : h \in Threads /\ h \notin RelayThreads
  /\ \A t \in RelayThreads : t \in Threads
  /\ \A o \in Openers : o \in RelayThreads
  /\ \A e \in Emergencies : e \in RelayThreads
BY DoorRelayAssumption DEF Threads, RelayThreads

\* The initial states satisfy the invariant: every pin is LOW.
LEMMA InitInv == Init => IInv
<1> SUFFICES ASSUME Init PROVE IInv
  OBVIOUS
<1>1. Shape
  BY ThreadKinds DEF Init, Shape
<1>2. RaisedIsAttended
  BY DoorRelayAssumption DEF Init, RaisedIsAttended
<1> QED
  BY <1>1, <1>2 DEF IInv

\* The last LED of a scanner is the only one that ShowLED leaves lit.
LEMMA ShownLevel ==
  ASSUME Shape, NEW s \in Scanners, NEW l \in Leds, ShowLED(s, l)
  PROVE  /\ level' \in [Pins -> BOOLEAN]
         /\ gPinLockRelay \notin PinsOf(s) => level'[gPinLockRelay] = level[gPinLockRelay]
         /\ gPinLockRelay \in PinsOf(s) /\ level'[gPinLockRelay] =>
              gPinLockRelay = LedPin[s][l]
<1>1. gPinLockRelay \in Pins
  BY DoorRelayAssumption
<1>2. LedPin[s][l] \in PinsOf(s)
  BY DEF PinsOf
<1>3. level'[gPinLockRelay] <=> (\/ gPinLockRelay = LedPin[s][l]
                                 \/ level[gPinLockRelay] /\ gPinLockRelay \notin PinsOf(s))
  BY <1>1 DEF ShowLED
<1>4. level' \in [Pins -> BOOLEAN]
  BY DEF Shape, ShowLED
<1>5. level[gPinLockRelay] \in BOOLEAN /\ level'[gPinLockRelay] \in BOOLEAN
  BY <1>1, <1>4 DEF Shape
<1> QED
  BY <1>2, <1>3, <1>4, <1>5

\* A decision starts a thread for its scanner's LEDs, and raises no LED but one of that scanner.
LEMMA DecideStep ==
  ASSUME IInv, NEW s \in Scanners, NEW l \in Leds, NEW started, Decide(s, l, started),
         \A t \in started : pc[t] = "none"
  PROVE  Shape' /\ RaisedIsAttended'
<1> USE DEF IInv, Shape
<1>1. Free(Shutters) # {} /\ ShowLED(s, l)
  BY DEF Decide
<1>2. PICK h \in Shutters :
        /\ pc' = [t \in Threads |-> IF t = h THEN "asleep"
                                    ELSE IF t \in started THEN "new" ELSE pc[t]]
        /\ leds' = [leds EXCEPT ![h] = s]
        /\ pc[h] = "none"
  BY <1>1, NewIsFree DEF Decide
<1>3. \A t \in Threads : pc'[t] = IF t = h THEN "asleep"
                                  ELSE IF t \in started THEN "new" ELSE pc[t]
  BY <1>2, ThreadKinds
<1>4. pc' \in [Threads -> {"none", "new", "polling", "asleep"}]
  BY <1>2, <1>3
<1>5. \A t \in Threads : pc[t] = "asleep" => pc'[t] = "asleep"
  BY <1>2, <1>3
<1>6. /\ leds' \in [Shutters -> Scanners \cup {Nobody}]
      /\ \A g \in Shutters : leds'[g] = IF g = h THEN s ELSE leds[g]
      /\ \A g \in Shutters : pc'[g] = "asleep" => leds'[g] \in Scanners
  BY <1>2, <1>3, ThreadKinds
<1>7. /\ scan' \in [Scanners -> {"idle", "deciding", "held"}]
      /\ \A r \in Scanners : scan'[r] = IF r = s THEN "held" ELSE scan[r]
      /\ scan[s] = "deciding"
  BY DEF Decide
<1>8. Shape'
  BY <1>1, <1>4, <1>6, <1>7, ShownLevel
<1>9. CASE gPinLockRelay \in PinsOf(s)
  <2>1. pc'[h] = "asleep" /\ leds'[h] = s
    BY <1>3, <1>6, ThreadKinds
  <2> QED
    BY <1>8, <1>9, <2>1 DEF RaisedIsAttended, PinsOf
<1>10. CASE gPinLockRelay \notin PinsOf(s)
  <2>1. level'[gPinLockRelay] = level[gPinLockRelay]
    BY <1>1, <1>10, ShownLevel
  <2>2. Opened => Opened'
    BY <1>5, ThreadKinds DEF Opened
  <2>3. Lit => Lit'
    <3> SUFFICES ASSUME NEW g \in Shutters, pc[g] = "asleep", gPinLockRelay \in PinsOf(leds[g])
                 PROVE  Lit'
      BY DEF Lit
    <3>1. pc'[g] = "asleep" /\ leds'[g] = leds[g]
      BY <1>2, <1>5, <1>6, ThreadKinds
    <3> QED
      BY <3>1 DEF Lit, PinsOf
  <2>4. gPinLockRelay # LedPin[s]["wait"]
    BY <1>10 DEF PinsOf, Leds
  <2>5. Waits => Waits'
    BY <1>7, <2>4 DEF Waits
  <2> QED
    BY <1>8, <2>1, <2>2, <2>3, <2>5 DEF RaisedIsAttended, Opened, Lit, Waits
<1> QED
  BY <1>8, <1>9, <1>10

\* A scan loop leaves the relay's pin alone, or has an LED on it that will go out.
LEMMA ScanLoopStep ==
  ASSUME IInv, NEW s \in Scanners, ScanLoop(s)
  PROVE  /\ Shape' /\ RaisedIsAttended'
         /\ level[gPinLockRelay] /\ ~level'[gPinLockRelay] => gPinLockRelay \in PinsOf(s)
<1>1. gPinLockRelay \in Pins /\ \A l \in Leds : LedPin[s][l] \in Pins
  BY DoorRelayAssumption
<1>2. Shape /\ level \in [Pins -> BOOLEAN] /\ level[gPinLockRelay] \in BOOLEAN
  BY <1>1 DEF IInv, Shape
<1>3. "wait" \in Leds /\ "ok" \in Leds /\ "nok" \in Leds
  BY DEF Leds
<1>4. CASE Press(s)
  <2>1. /\ ShowLED(s, "wait") /\ UNCHANGED <<pc, leds>>
        /\ scan' = [scan EXCEPT ![s] = "deciding"]
    BY <1>4 DEF Press, threadVars
  <2>2. /\ scan' \in [Scanners -> {"idle", "deciding", "held"}]
        /\ \A r \in Scanners : scan'[r] = IF r = s THEN "deciding" ELSE scan[r]
    BY <1>2, <2>1 DEF Shape
  <2>3. Shape'
    BY <1>2, <1>3, <2>1, <2>2, ShownLevel DEF Shape
  <2>4. gPinLockRelay \notin PinsOf(s) => level'[gPinLockRelay] = level[gPinLockRelay]
    BY <1>2, <1>3, <2>1, ShownLevel
  <2>5. gPinLockRelay \in PinsOf(s) /\ level'[gPinLockRelay] => Waits'
    BY <1>2, <1>3, <2>1, <2>2, ShownLevel DEF Waits
  <2>6. (Opened => Opened') /\ (Lit => Lit') /\ (Waits => Waits')
    BY <2>1, <2>2 DEF Opened, Lit, Waits, PinsOf
  <2> QED
    BY <1>2, <2>3, <2>4, <2>5, <2>6 DEF IInv, RaisedIsAttended, Opened, Lit, Waits
<1>5. CASE Admit(s) \/ Refuse(s)
  <2>1. PICK l \in Leds, started \in SUBSET Openers :
          Decide(s, l, started) /\ \A t \in started : pc[t] = "none"
    <3>1. CASE Admit(s)
      BY <1>3, <3>1, NewIsFree DEF Admit
    <3>2. CASE Refuse(s)
      BY <1>3, <3>2 DEF Refuse
    <3> QED
      BY <1>5, <3>1, <3>2
  <2>2. Shape' /\ RaisedIsAttended'
    BY <2>1, DecideStep
  <2>3. ShowLED(s, l)
    BY <2>1 DEF Decide
  <2> QED
    BY <1>2, <2>2, <2>3, ShownLevel
<1>6. CASE Release(s)
  <2>1. /\ scan[s] # "deciding" /\ scan' = [scan EXCEPT ![s] = "idle"]
        /\ level' = [level EXCEPT ![LedPin[s]["wait"]] = FALSE]
        /\ UNCHANGED <<pc, leds>>
    BY <1>6 DEF Release, Write, threadVars
  <2>2. /\ scan' \in [Scanners -> {"idle", "deciding", "held"}]
        /\ \A r \in Scanners : r # s => scan'[r] = scan[r]
    BY <1>2, <2>1 DEF Shape
  <2>3. Shape'
    BY <1>1, <1>2, <2>1, <2>2 DEF Shape
  <2>4. /\ level'[gPinLockRelay] => level[gPinLockRelay]
        /\ level[gPinLockRelay] /\ ~level'[gPinLockRelay] =>
             gPinLockRelay = LedPin[s]["wait"]
    BY <1>1, <1>2, <2>1
  <2>5. LedPin[s]["wait"] \in PinsOf(s)
    BY <1>3 DEF PinsOf
  <2>6. (Opened => Opened') /\ (Lit => Lit') /\ (Waits => Waits')
    BY <2>1, <2>2 DEF Opened, Lit, Waits, PinsOf
  <2> QED
    BY <1>2, <2>3, <2>4, <2>5, <2>6 DEF IInv, RaisedIsAttended, Opened, Lit, Waits
<1>7. CASE Heartbeat(s)
  <2>1. ShutdownLEDs(s) /\ UNCHANGED <<scan, pc, leds>>
    BY <1>7 DEF Heartbeat, threadVars
  <2>2. Shape'
    BY <1>2, <2>1 DEF Shape, ShutdownLEDs
  <2>3. level'[gPinLockRelay] = (level[gPinLockRelay] /\ gPinLockRelay \notin PinsOf(s))
    BY <1>1, <2>1 DEF ShutdownLEDs
  <2>4. (Opened => Opened') /\ (Lit => Lit') /\ (Waits => Waits')
    BY <2>1 DEF Opened, Lit, Waits, PinsOf
  <2> QED
    BY <1>2, <2>2, <2>3, <2>4 DEF IInv, RaisedIsAttended, Opened, Lit, Waits
<1> QED
  BY <1>4, <1>5, <1>6, <1>7 DEF ScanLoop

\* A thread that puts LEDs out lowers the pin if one is on it.
LEMMA ShutLedsStep ==
  ASSUME IInv, NEW h \in Shutters, ShutLeds(h)
  PROVE  /\ Shape' /\ RaisedIsAttended' /\ leds[h] \in Scanners
         /\ level[gPinLockRelay] /\ ~level'[gPinLockRelay] => gPinLockRelay \in PinsOf(leds[h])
<1>1. /\ pc' = [pc EXCEPT ![h] = "none"] /\ ShutdownLEDs(leds[h])
      /\ leds' = [leds EXCEPT ![h] = Nobody] /\ scan' = scan
  BY DEF ShutLeds, Wake
<1>2. leds[h] \in Scanners
  BY DEF ShutLeds, Wake, IInv, Shape
<1>3. gPinLockRelay \in Pins
  BY DoorRelayAssumption
<1>4. level' \in [Pins -> BOOLEAN]
  BY <1>1 DEF ShutdownLEDs, IInv, Shape
<1>5. level'[gPinLockRelay] = (level[gPinLockRelay] /\ gPinLockRelay \notin PinsOf(leds[h]))
  BY <1>1, <1>3 DEF ShutdownLEDs
<1>6. /\ \A t \in Threads : pc'[t] = IF t = h THEN "none" ELSE pc[t]
      /\ \A g \in Shutters : leds'[g] = IF g = h THEN Nobody ELSE leds[g]
  BY <1>1, ThreadKinds DEF IInv, Shape
<1>7. Shape'
  BY <1>1, <1>4, <1>6, ThreadKinds DEF IInv, Shape
<1>8. Opened => Opened'
  BY <1>6, ThreadKinds DEF Opened
<1>9. Waits => Waits'
  BY <1>1 DEF Waits
<1>10. gPinLockRelay \notin PinsOf(leds[h]) => (Lit => Lit')
  <2> SUFFICES ASSUME gPinLockRelay \notin PinsOf(leds[h]),
                      NEW g \in Shutters, pc[g] = "asleep", gPinLockRelay \in PinsOf(leds[g])
               PROVE  Lit'
    BY DEF Lit
  <2>1. g # h /\ pc'[g] = "asleep" /\ leds'[g] = leds[g]
    BY <1>6, ThreadKinds
  <2> QED
    BY <2>1 DEF Lit, PinsOf
<1>11. level'[gPinLockRelay] => Opened' \/ Lit' \/ Waits'
  BY <1>5, <1>8, <1>9, <1>10 DEF IInv, RaisedIsAttended, Opened, Lit, Waits
<1>12. level[gPinLockRelay] \in BOOLEAN
  BY <1>3 DEF IInv, Shape
<1> QED
  BY <1>2, <1>5, <1>7, <1>11, <1>12 DEF RaisedIsAttended, Opened, Lit, Waits

\* The threads that drive the relay: one that raises it sleeps afterwards, one
\* that lowers it has slept its interval.
LEMMA RelayStep ==
  ASSUME IInv, NEW t \in RelayThreads,
         \/ t \in Openers /\ Opener(t)
         \/ t \in Emergencies /\ Emergency(t)
  PROVE  /\ Shape'
         /\ \/ level'[gPinLockRelay] /\ pc'[t] = "asleep"
            \/ ~level'[gPinLockRelay] /\ pc[t] = "asleep" /\ left[t] = 0
<1> USE DEF IInv, Shape
<1>1. gPinLockRelay \in Pins /\ t \in Threads /\ t \notin Shutters
  BY DoorRelayAssumption, ThreadKinds
<1>2. PICK high \in BOOLEAN, next \in {"none", "polling", "asleep"} :
        /\ level' = [level EXCEPT ![gPinLockRelay] = high]
        /\ pc' = [pc EXCEPT ![t] = next]
        /\ UNCHANGED <<scan, leds>>
        /\ high => next = "asleep"
        /\ ~high => pc[t] = "asleep" /\ left[t] = 0
  BY DEF Opener, Emergency, OpenRelay, CloseRelay, PollEmergency, EndEmergency,
         Sleep, Wake, Write
<1>3. level' \in [Pins -> BOOLEAN] /\ level'[gPinLockRelay] = high
  BY <1>1, <1>2
<1>4. /\ pc' \in [Threads -> {"none", "new", "polling", "asleep"}]
      /\ pc'[t] = next
      /\ \A h \in Shutters : pc'[h] = pc[h]
  BY <1>1, <1>2, ThreadKinds
<1> QED
  BY <1>2, <1>3, <1>4

\* Restarts, the button and time leave the pins and the sleepers alone.
LEMMA OtherStep ==
  ASSUME IInv, Restart \/ PushButton \/ Tick \/ UNCHANGED vars
  PROVE  /\ Shape' /\ UNCHANGED <<level, scan, leds>>
         /\ \A t \in Threads : pc[t] = "asleep" => pc'[t] = "asleep"
<1> USE DEF IInv, Shape
<1>1. CASE Restart
  <2>1. PICK e \in Emergencies : pc[e] = "none" /\ pc' = [pc EXCEPT ![e] = "polling"]
    BY <1>1, NewIsFree DEF Restart
  <2>2. \A t \in Threads : pc'[t] = IF t = e THEN "polling" ELSE pc[t]
    BY <2>1, ThreadKinds
  <2> QED
    BY <1>1, <2>1, <2>2, ThreadKinds DEF Restart
<1>2. CASE PushButton \/ Tick \/ UNCHANGED vars
  BY <1>2 DEF PushButton, Tick, vars, threadVars
<1> QED
  BY <1>1, <1>2

\* The relay falls at the end of an interval, or because of a scanner with an LED on its pin.
Explained ==
  level[gPinLockRelay] /\ ~level'[gPinLockRelay] =>
    \/ \E t \in RelayThreads : pc[t] = "asleep" /\ left[t] = 0
    \/ \E s \in Scanners : gPinLockRelay \in PinsOf(s) /\ Switches(s)

\* Every step preserves the invariant, and explains a fall of the relay.
LEMMA NextStep ==
  ASSUME IInv, [Next]_vars
  PROVE  IInv' /\ Explained
<1>1. CASE \E s \in Scanners : ScanLoop(s)
  BY <1>1, ScanLoopStep DEF IInv, Explained, Switches
<1>2. CASE \E h \in Shutters : ShutLeds(h)
  <2>1. PICK h \in Shutters : ShutLeds(h)
    BY <1>2
  <2>2. /\ Shape' /\ RaisedIsAttended' /\ leds[h] \in Scanners
        /\ level[gPinLockRelay] /\ ~level'[gPinLockRelay] => gPinLockRelay \in PinsOf(leds[h])
    BY <2>1, ShutLedsStep
  <2>3. Switches(leds[h])
    BY <2>1 DEF Switches
  <2> QED
    BY <2>2, <2>3 DEF IInv, Explained
<1>3. CASE \/ \E o \in Openers : Opener(o)
           \/ \E e \in Emergencies : Emergency(e)
  BY <1>3, RelayStep, ThreadKinds DEF IInv, RaisedIsAttended, Explained
<1>4. CASE Restart \/ PushButton \/ Tick \/ UNCHANGED vars
  <2>1. /\ Shape' /\ UNCHANGED <<level, scan, leds>>
        /\ \A t \in Threads : pc[t] = "asleep" => pc'[t] = "asleep"
    BY <1>4, OtherStep
  <2>2. (Opened => Opened') /\ (Lit => Lit') /\ (Waits => Waits')
    BY <2>1, ThreadKinds DEF Opened, Lit, Waits, PinsOf
  <2> QED
    BY <2>1, <2>2 DEF IInv, RaisedIsAttended, Opened, Lit, Waits, Explained
<1> QED
  BY <1>1, <1>2, <1>3, <1>4 DEF Next

\* While the relay's pin is HIGH a thread that will lower it is asleep, or a scanner with its wait
\* LED on that pin is deciding: on any pins, however admissions, the button and restarts overlap.
THEOREM DoorIsAttended == Spec => []RaisedIsAttended
<1>1. IInv /\ [Next]_vars => IInv'
  BY NextStep
<1>2. IInv => RaisedIsAttended
  BY DEF IInv
<1> QED
  BY <1>1, <1>2, InitInv, PTL DEF Spec

\* The relay falls only at the end of a whole interval, or because of the LEDs of a scanner that
\* has one on the relay's pin.
THEOREM DoorStaysOpen == Spec => FallsAfterInterval
<1>1. IInv /\ [Next]_vars => IInv'
  BY NextStep
<1>2. IInv /\ [Next]_vars => [Explained]_vars
  BY NextStep
<1>3. [Explained]_vars => [level[gPinLockRelay] /\ ~level'[gPinLockRelay] =>
                             \/ \E t \in RelayThreads : pc[t] = "asleep" /\ left[t] = 0
                             \/ \E s \in Scanners :
                                  gPinLockRelay \in PinsOf(s) /\ Switches(s)]_vars
  BY DEF Explained
<1> QED
  BY <1>1, <1>2, <1>3, InitInv, PTL DEF Spec, FallsAfterInterval
-----------------------------------------------------------------------------
(***************************************************************************)
(* The types, on any pins.                                                 *)
(***************************************************************************)
\* TypeOK in two parts: the pins and the people, and the threads.
PinsOK ==
  /\ level \in [Pins -> BOOLEAN]
  /\ scan \in [Scanners -> {"idle", "deciding", "held"}]
  /\ button \in BOOLEAN
ThreadsOK ==
  /\ pc \in [Threads -> {"none", "new", "polling", "asleep"}]
  /\ left \in [Threads -> 0..(RELAY_INTERVAL + LED_INTERVAL)]
  /\ \A t \in RelayThreads : left[t] <= RELAY_INTERVAL
  /\ leds \in [Shutters -> Scanners \cup {Nobody}]
  /\ \A h \in Shutters : pc[h] = "asleep" <=> leds[h] # Nobody

\* TypeOK is its parts.
LEMMA Parts == TypeOK <=> PinsOK /\ ThreadsOK
BY DEF TypeOK, PinsOK, ThreadsOK

\* So it is after a step.
LEMMA PartsNext == TypeOK' <=> PinsOK' /\ ThreadsOK'
BY DEF TypeOK, PinsOK, ThreadsOK

\* The intervals are numbers, and an LED is on a pin.
LEMMA Constants ==
  /\ RELAY_INTERVAL \in Nat /\ LED_INTERVAL \in Nat /\ Nobody \notin Scanners
  /\ \A s \in Scanners, l \in Leds : LedPin[s][l] \in Pins
BY DoorRelayAssumption

\* The initial states have the types.
LEMMA TypeInit == Init => TypeOK
<1> SUFFICES ASSUME Init PROVE TypeOK OBVIOUS
<1>1. PinsOK BY DEF Init, PinsOK
<1>2. pc \in [Threads -> {"none", "polling"}] BY DEF Init
<1>3. \A h \in Shutters : pc[h] = "none" /\ leds[h] = Nobody
  <2>1. (CHOOSE e \in Emergencies : TRUE) \in Emergencies BY DoorRelayAssumption
  <2> QED BY <2>1, ThreadKinds DEF Init
<1>4. \A t \in Threads : left[t] = 0 BY DEF Init
<1>5. left \in [Threads -> 0..(RELAY_INTERVAL + LED_INTERVAL)]
  BY <1>4, Constants DEF Init
<1>6. leds \in [Shutters -> Scanners \cup {Nobody}] BY DEF Init
<1> QED BY <1>1, <1>2, <1>3, <1>4, <1>5, <1>6, Constants, ThreadKinds, Parts DEF ThreadsOK

\* Writing a pin and switching LEDs keep the pins'.
LEMMA LevelsAre ==
  ASSUME level \in [Pins -> BOOLEAN],
         \/ \E p \in Pins, high \in BOOLEAN : Write(p, high)
         \/ \E s \in Scanners : ShutdownLEDs(s)
         \/ \E s \in Scanners, l \in Leds : ShowLED(s, l)
         \/ level' = level
  PROVE  level' \in [Pins -> BOOLEAN]
<1>1. ASSUME NEW p \in Pins, NEW high \in BOOLEAN, Write(p, high)
      PROVE  level' \in [Pins -> BOOLEAN]
  BY <1>1 DEF Write
<1>2. ASSUME NEW s \in Scanners, ShutdownLEDs(s) PROVE level' \in [Pins -> BOOLEAN]
  BY <1>2 DEF ShutdownLEDs
<1>3. ASSUME NEW s \in Scanners, NEW l \in Leds, ShowLED(s, l)
      PROVE  level' \in [Pins -> BOOLEAN]
  BY <1>3 DEF ShowLED
<1> QED BY <1>1, <1>2, <1>3

\* A relay thread goes to sleep for an interval, or wakes.
LEMMA RelayThreadTypes ==
  ASSUME ThreadsOK, NEW t \in RelayThreads,
         \/ Sleep(t, RELAY_INTERVAL)
         \/ Wake(t, "none") \/ Wake(t, "polling"),
         leds' = leds
  PROVE  ThreadsOK'
<1>1. t \in Threads /\ t \notin Shutters BY ThreadKinds
<1>2. PICK next \in {"none", "polling", "asleep"} : pc' = [pc EXCEPT ![t] = next]
  BY DEF Sleep, Wake
<1>3. left' = left \/ left' = [left EXCEPT ![t] = RELAY_INTERVAL] BY DEF Sleep, Wake
<1>4. /\ pc' \in [Threads -> {"none", "new", "polling", "asleep"}]
      /\ \A h \in Shutters : pc'[h] = pc[h]
  BY <1>1, <1>2, ThreadKinds DEF ThreadsOK
<1>5. /\ left' \in [Threads -> 0..(RELAY_INTERVAL + LED_INTERVAL)]
      /\ \A r \in RelayThreads : left'[r] <= RELAY_INTERVAL
  <2>1. CASE left' = left BY <2>1 DEF ThreadsOK
  <2>2. CASE left' = [left EXCEPT ![t] = RELAY_INTERVAL]
    <3>1. RELAY_INTERVAL \in 0..(RELAY_INTERVAL + LED_INTERVAL) BY Constants
    <3>2. \A r \in RelayThreads : left'[r] = IF r = t THEN RELAY_INTERVAL ELSE left[r]
      BY <1>1, <2>2, ThreadKinds DEF ThreadsOK
    <3> QED BY <1>1, <2>2, <3>1, <3>2, Constants DEF ThreadsOK
  <2> QED BY <1>3, <2>1, <2>2
<1> QED BY <1>4, <1>5 DEF ThreadsOK

\* A decision starts a thread for its scanner's LEDs, and those it starts besides.
LEMMA DecideTypes ==
  ASSUME ThreadsOK, NEW s \in Scanners, NEW l \in Leds, NEW started \in SUBSET RelayThreads,
         Decide(s, l, started)
  PROVE  ThreadsOK'
<1>1. PICK h \in Shutters :
        /\ pc[h] = "none"
        /\ pc' = [t \in Threads |-> IF t = h THEN "asleep"
                                    ELSE IF t \in started THEN "new" ELSE pc[t]]
        /\ left' = [left EXCEPT ![h] = LED_INTERVAL]
        /\ leds' = [leds EXCEPT ![h] = s]
  BY NewIsFree DEF Decide
<1>2. h \in Threads /\ h \notin RelayThreads BY ThreadKinds
<1>3. LED_INTERVAL \in 0..(RELAY_INTERVAL + LED_INTERVAL) BY Constants
<1>4. /\ left' \in [Threads -> 0..(RELAY_INTERVAL + LED_INTERVAL)]
      /\ \A t \in RelayThreads : left'[t] = left[t]
  BY <1>1, <1>2, <1>3, ThreadKinds DEF ThreadsOK
<1>5. pc' \in [Threads -> {"none", "new", "polling", "asleep"}] BY <1>1 DEF ThreadsOK
<1>6. /\ leds' \in [Shutters -> Scanners \cup {Nobody}]
      /\ \A g \in Shutters : /\ leds'[g] = IF g = h THEN s ELSE leds[g]
                             /\ pc'[g] = IF g = h THEN "asleep" ELSE pc[g]
  BY <1>1, ThreadKinds DEF ThreadsOK
<1> QED BY <1>4, <1>5, <1>6, Constants DEF ThreadsOK

\* A scan loop keeps the types.
LEMMA ScanLoopTypes ==
  ASSUME TypeOK, NEW s \in Scanners, ScanLoop(s)
  PROVE  TypeOK'
<1>1. PinsOK /\ ThreadsOK BY Parts
<1>2. PinsOK'
  <2>1. scan' \in [Scanners -> {"idle", "deciding", "held"}] /\ button' \in BOOLEAN
    BY <1>1 DEF PinsOK, ScanLoop, Press, Admit, Refuse, Decide, Release, Heartbeat
  <2>2. \/ \E p \in Pins, high \in BOOLEAN : Write(p, high)
        \/ ShutdownLEDs(s)
        \/ \E l \in Leds : ShowLED(s, l)
    <3>1. CASE Press(s) BY <3>1 DEF Press, Leds
    <3>2. CASE Admit(s) \/ Refuse(s) BY <3>2 DEF Admit, Refuse, Decide, Leds
    <3>3. CASE Release(s)
      <4>1. LedPin[s]["wait"] \in Pins BY Constants DEF Leds
      <4> QED BY <3>3, <4>1 DEF Release
    <3>4. CASE Heartbeat(s) BY <3>4 DEF Heartbeat
    <3> QED BY <3>1, <3>2, <3>3, <3>4 DEF ScanLoop
  <2>3. level' \in [Pins -> BOOLEAN] BY <1>1, <2>2, LevelsAre DEF PinsOK
  <2> QED BY <2>1, <2>3 DEF PinsOK
<1>3. ThreadsOK'
  <2>1. CASE Press(s) \/ Release(s) \/ Heartbeat(s)
    <3>1. UNCHANGED threadVars BY <2>1 DEF Press, Release, Heartbeat
    <3> QED BY <1>1, <3>1 DEF threadVars, ThreadsOK
  <2>2. CASE Admit(s)
    <3>1. {New(Openers)} \in SUBSET RelayThreads
      BY <2>2, NewIsFree, ThreadKinds DEF Admit
    <3> QED BY <1>1, <2>2, <3>1, DecideTypes DEF Admit, Leds
  <2>3. CASE Refuse(s) BY <1>1, <2>3, DecideTypes DEF Refuse, Leds
  <2> QED BY <2>1, <2>2, <2>3 DEF ScanLoop
<1> QED BY <1>2, <1>3, PartsNext

\* A thread that drives the relay keeps them.
LEMMA RelayTypes ==
  ASSUME TypeOK, NEW t \in RelayThreads, Opener(t) \/ Emergency(t)
  PROVE  TypeOK'
<1>1. PinsOK /\ ThreadsOK BY Parts
<1>2. /\ Write(gPinLockRelay, TRUE) \/ Write(gPinLockRelay, FALSE)
      /\ UNCHANGED <<scan, button, leds>>
      /\ Sleep(t, RELAY_INTERVAL) \/ Wake(t, "none") \/ Wake(t, "polling")
  BY DEF Opener, OpenRelay, CloseRelay, Emergency, PollEmergency, EndEmergency
<1>3. ThreadsOK' BY <1>1, <1>2, RelayThreadTypes
<1>4. gPinLockRelay \in Pins BY DoorRelayAssumption
<1>5. level' \in [Pins -> BOOLEAN] BY <1>1, <1>2, <1>4, LevelsAre DEF PinsOK
<1> QED BY <1>1, <1>2, <1>3, <1>5, PartsNext DEF PinsOK

\* A thread that puts LEDs out is done with them.
LEMMA ShutLedsTypes ==
  ASSUME TypeOK, NEW h \in Shutters, ShutLeds(h)
  PROVE  TypeOK'
<1>1. PinsOK /\ ThreadsOK /\ h \in Threads /\ h \notin RelayThreads BY Parts, ThreadKinds
<1>2. /\ pc[h] = "asleep" /\ pc' = [pc EXCEPT ![h] = "none"]
      /\ ShutdownLEDs(leds[h]) /\ leds' = [leds EXCEPT ![h] = Nobody]
      /\ UNCHANGED <<scan, button, left>>
  BY DEF ShutLeds, Wake
<1>3. leds[h] \in Scanners BY <1>1, <1>2 DEF ThreadsOK
<1>4. level' \in [Pins -> BOOLEAN] BY <1>1, <1>2, <1>3, LevelsAre DEF PinsOK
<1>5. PinsOK' BY <1>1, <1>2, <1>4 DEF PinsOK
<1>6. ThreadsOK' BY <1>1, <1>2, ThreadKinds DEF ThreadsOK
<1> QED BY <1>5, <1>6, PartsNext

\* A tick passes for those who sleep, and no sleep is over.
LEMMA TickTypes == ASSUME TypeOK, Tick PROVE TypeOK'
<1>1. PinsOK /\ ThreadsOK BY Parts
<1>2. PinsOK' BY <1>1 DEF PinsOK, Tick
<1>3. \A t \in Threads : left[t] \in 0..(RELAY_INTERVAL + LED_INTERVAL)
  BY <1>1 DEF ThreadsOK
<1>4. \A t \in Threads : pc[t] = "asleep" => left[t] # 0 BY DEF Tick, Due
<1>5. \A t \in Threads : /\ left'[t] \in 0..(RELAY_INTERVAL + LED_INTERVAL)
                         /\ left'[t] <= left[t]
  BY <1>3, <1>4, Constants DEF Tick
<1>6. left' \in [Threads -> 0..(RELAY_INTERVAL + LED_INTERVAL)] BY <1>5 DEF Tick
<1>7. \A t \in RelayThreads : left'[t] <= RELAY_INTERVAL
  <2> SUFFICES ASSUME NEW t \in RelayThreads PROVE left'[t] <= RELAY_INTERVAL OBVIOUS
  <2>1. t \in Threads /\ left[t] <= RELAY_INTERVAL BY <1>1, ThreadKinds DEF ThreadsOK
  <2>2. left'[t] \in Int /\ left[t] \in Int /\ left'[t] <= left[t]
    BY <1>3, <1>5, <2>1, Constants
  <2> QED BY <2>1, <2>2, Constants
<1> QED BY <1>1, <1>2, <1>6, <1>7, PartsNext DEF Tick, ThreadsOK

\* Every step keeps the types.
LEMMA TypeNext == TypeOK /\ [Next]_vars => TypeOK'
<1> SUFFICES ASSUME TypeOK, [Next]_vars PROVE TypeOK' OBVIOUS
<1>1. PinsOK /\ ThreadsOK BY Parts
<1>2. CASE \E s \in Scanners : ScanLoop(s) BY <1>2, ScanLoopTypes
<1>3. CASE (\E o \in Openers : Opener(o)) \/ (\E e \in Emergencies : Emergency(e))
  BY <1>3, RelayTypes, ThreadKinds
<1>4. CASE \E h \in Shutters : ShutLeds(h) BY <1>4, ShutLedsTypes
<1>5. CASE Restart
  <2>1. PICK e \in Emergencies : pc[e] = "none" /\ pc' = [pc EXCEPT ![e] = "polling"]
    BY <1>5, NewIsFree DEF Restart
  <2>2. /\ pc' \in [Threads -> {"none", "new", "polling", "asleep"}]
        /\ \A h \in Shutters : pc'[h] = pc[h]
    BY <1>1, <2>1, ThreadKinds DEF ThreadsOK
  <2>3. UNCHANGED <<level, scan, button, left, leds>> BY <1>5 DEF Restart
  <2> QED BY <1>1, <2>2, <2>3, PartsNext DEF PinsOK, ThreadsOK
<1>6. CASE PushButton
  BY <1>1, <1>6, PartsNext DEF PushButton, threadVars, PinsOK, ThreadsOK
<1>7. CASE Tick BY <1>7, TickTypes
<1>8. CASE UNCHANGED vars
  BY <1>1, <1>8, PartsNext DEF vars, threadVars, PinsOK, ThreadsOK
<1> QED BY <1>2, <1>3, <1>4, <1>5, <1>6, <1>7, <1>8 DEF Next

\* The types hold whatever pins the configuration gives, and however admissions, the button and
\* restarts overlap: no thread is given LEDs to put out twice, and none sleeps longer than its
\* interval.
THEOREM TypeCorrect == Spec => []TypeOK
<1> QED BY TypeInit, TypeNext, PTL DEF Spec
=============================================================================
