------------------------------- MODULE Intercom -------------------------------
(***************************************************************************)
(* The intercom (intercom.cpp): a thread polls the buzzer of the street    *)
(* door.  In the free hours a ring opens the door; outside of them the     *)
(* visitor has to press the button of the street a number of times within  *)
(* an interval.  Opening is a pulse on the pin of the intercom's button.   *)
(*                                                                         *)
(* A sound is played by a forked process.  If the player cannot be         *)
(* executed the child does not exit: it returns into the loop it was forked*)
(* from, with a copy of its variables and the same pins.  wait() without   *)
(* an argument constructs the union of that name and waits for nobody.     *)
(*                                                                         *)
(* A tick is a poll's sleep, 10 ms.  A loop that is awake runs at its own  *)
(* pace, so ticks may pass before its next step.                           *)
(***************************************************************************)
EXTENDS Integers

CONSTANTS
  Loops,         \* threads and processes in loop_thread; bounds how many
  Interval,      \* gCheatPressInterval in ticks
  PressNum,      \* gCheatPressNum
  ByteSize,      \* values of an unsigned char, in which presses are counted
  ButtonTicks,   \* gButtonMS in ticks
  Hours,         \* hours of a day
  StartTime,
  EndTime

NoLoop == "no loop"
NoHour == -1

ASSUME IntercomAssumption ==
  /\ Loops # {} /\ NoLoop \notin Loops
  /\ Interval \in Nat \ {0} /\ ButtonTicks \in Nat \ {0}
  /\ ByteSize \in Nat \ {0} /\ PressNum \in 1..(ByteSize - 1)
  /\ Hours \in Nat \ {0} /\ StartTime \in 0..(Hours - 1) /\ EndTime \in 0..(Hours - 1)

VARIABLES
  buzzer,    \* is the pin of the buzzer HIGH?
  button,    \* is the pin of the button HIGH?
  hour,
  player,    \* can the player be executed?
  pc,        \* pc[l]: where l is in its loop, "none" if it does not run
  child,     \* child[l]: is l a process of its own?
  enabled,   \* _enabled of the daemon
  copy,      \* copy[l]: _enabled of the child l
  tm_hour,   \* tm_hour[l]: the hour l has read, if it is a free one
  elapsed,   \* elapsed[l]: ticks since l has read millis(), up to Interval
  presses,   \* presses[l]: what l has counted
  sleep,     \* sleep[l]: ticks l still sleeps
  released,  \* released[l]: how often the buzzer fell since, up to PressNum
  handle,    \* the thread in _thread that was not joined, if any
  doubled,   \* was a thread started while another was in _thread?
  main       \* the main thread: "prompt" or "joining"

pins == <<buzzer, button>>
world == <<hour, player>>
locals == <<tm_hour, elapsed, presses, released>>
loopVars == <<pc, child, copy, locals, sleep>>
mainVars == <<enabled, handle, doubled, main>>
vars == <<pins, world, loopVars, mainVars>>

Init ==
  /\ buzzer = FALSE /\ button = FALSE
  /\ hour \in 0..(Hours - 1) /\ player \in BOOLEAN
  /\ pc = [l \in Loops |-> "none"]
  /\ child = [l \in Loops |-> FALSE] /\ copy = [l \in Loops |-> FALSE]
  /\ tm_hour = [l \in Loops |-> NoHour]
  /\ elapsed = [l \in Loops |-> 0] /\ presses = [l \in Loops |-> 0]
  /\ sleep = [l \in Loops |-> 0] /\ released = [l \in Loops |-> 0]
  /\ enabled = FALSE /\ handle = NoLoop /\ doubled = FALSE /\ main = "prompt"

Running(l) == pc[l] # "none"
Free == {l \in Loops : ~Running(l) /\ l # handle}

\* Mutant: the flag is read once, before the loop.
IsEnabledOnce(l) == TRUE

IsEnabled(l) == IF child[l] THEN copy[l] ELSE enabled
IsFree(h) == h >= StartTime /\ h <= EndTime

Awake(l, at) == pc[l] = at /\ sleep[l] = 0
Goto(l, at) == pc' = [pc EXCEPT ![l] = at]
Sleep(l, n) == sleep' = [sleep EXCEPT ![l] = n]

(***************************************************************************)
(* loop_thread, loop_open and loop_cheat.                                  *)
(***************************************************************************)
\* Mutant: the start is forgotten.
TopUntilEnd(l) ==
  /\ Awake(l, "top") /\ IsEnabled(l)
  /\ tm_hour' = [tm_hour EXCEPT ![l] = IF hour <= EndTime THEN hour ELSE NoHour]
  /\ Goto(l, IF hour <= EndTime THEN "open" ELSE "cheat")
  /\ UNCHANGED <<pins, world, child, copy, elapsed, presses, released, sleep, mainVars>>

\* The test of the loop and the choice of what a ring does.
Top(l) ==
  /\ Awake(l, "top") /\ IsEnabled(l)
  /\ tm_hour' = [tm_hour EXCEPT ![l] = IF IsFree(hour) THEN hour ELSE NoHour]
  /\ Goto(l, IF IsFree(hour) THEN "open" ELSE "cheat")
  /\ UNCHANGED <<pins, world, child, copy, elapsed, presses, released, sleep, mainVars>>

End(l) ==
  /\ Awake(l, "top") /\ ~IsEnabled(l)
  /\ Goto(l, "none")
  /\ child' = [child EXCEPT ![l] = FALSE] /\ copy' = [copy EXCEPT ![l] = FALSE]
  /\ UNCHANGED <<pins, world, locals, sleep, mainVars>>

\* The end of a turn: its variables are gone.  The 10 ms until the next are
\* part of a loop's own pace.
Turn(ls) ==
  LET Reset(f, v) == [l \in Loops |-> IF l \in ls THEN v ELSE f[l]]
  IN /\ pc' = Reset(pc, "top") /\ tm_hour' = Reset(tm_hour, NoHour)
     /\ elapsed' = Reset(elapsed, 0)
     /\ presses' = Reset(presses, 0) /\ released' = Reset(released, 0)

\* The first digitalRead of loop_open or loop_cheat: nobody rings.
Silent(l) ==
  /\ pc[l] \in {"open", "cheat"} /\ ~buzzer
  /\ Turn({l})
  /\ UNCHANGED <<pins, world, child, copy, sleep, mainVars>>

\* loop_open goes on to the door, loop_cheat is at its end.
Rung(l, both) ==
  IF pc[l] = "open"
  THEN /\ pc' = [k \in Loops |-> IF k \in both THEN "open door" ELSE pc[k]]
       /\ tm_hour' = [k \in Loops |-> IF k \in both THEN tm_hour[l] ELSE tm_hour[k]]
       /\ UNCHANGED <<elapsed, presses, released>>
  ELSE Turn(both)

\* ring_buzzer: the player is started, or the child whose player cannot be
\* executed goes on where l does.  Loops that are all in use stand for a fork
\* that fails.
RingBuzzer(l) ==
  /\ pc[l] \in {"open", "ring OK", "ring NOK"}
  /\ pc[l] = "open" => buzzer
  /\ IF player \/ Free = {}
     THEN UNCHANGED <<child, copy, sleep>> /\ Rung(l, {l})
     ELSE \E c \in Free :
            /\ child' = [child EXCEPT ![c] = TRUE]
            /\ copy' = [copy EXCEPT ![c] = IsEnabled(l)]
            /\ Sleep(c, 0)
            /\ Rung(l, {l, c})
  /\ UNCHANGED <<pins, world, mainVars>>

\* A ring outside the free hours begins an interval.
CheatRings(l) ==
  /\ pc[l] = "cheat" /\ buzzer
  /\ Goto(l, "count")
  /\ UNCHANGED <<pins, world, child, copy, locals, sleep, mainVars>>

\* The test of the interval after a look at the buzzer.
Within(l) == elapsed[l] < Interval

\* Mutant: every look at a pressed button counts.
HoldCounted(l) ==
  /\ Awake(l, "count") \/ Awake(l, "pressed")
  /\ pc[l] = "count" => Within(l)
  /\ buzzer
  /\ Goto(l, "pressed")
  /\ Sleep(l, 1)
  /\ presses' = [presses EXCEPT ![l] = (presses[l] + 1) % ByteSize]
  /\ UNCHANGED <<pins, world, child, copy, tm_hour, elapsed, released, mainVars>>

\* The buzzer is HIGH: wait till it is not.
Hold(l) ==
  /\ Awake(l, "count") \/ Awake(l, "pressed")
  /\ pc[l] = "count" => Within(l)
  /\ buzzer
  /\ Goto(l, "pressed")
  /\ Sleep(l, 1)
  /\ UNCHANGED <<pins, world, child, copy, locals, mainVars>>

\* A press counts when it is seen to be over, even after the interval.
Count(l) ==
  /\ Awake(l, "pressed") /\ ~buzzer
  /\ presses' = [presses EXCEPT ![l] = (presses[l] + 1) % ByteSize]
  /\ Goto(l, "count")
  /\ UNCHANGED <<pins, world, child, copy, tm_hour, elapsed, released, sleep, mainVars>>

\* presses == gCheatPressNum
Verdict(l) ==
  /\ Awake(l, "count") /\ ~Within(l)
  /\ Goto(l, IF presses[l] = PressNum THEN "open door" ELSE "ring NOK")
  /\ UNCHANGED <<pins, world, child, copy, locals, sleep, mainVars>>

\* open_door; its event is EventLog's.
RaiseButton(l) ==
  /\ pc[l] = "open door"
  /\ button' = TRUE
  /\ Goto(l, "push")
  /\ Sleep(l, ButtonTicks)
  /\ UNCHANGED <<buzzer, world, child, copy, locals, mainVars>>

\* Mutant: a loop that was stopped meanwhile leaves at once.
LowerButtonIfEnabled(l) ==
  /\ Awake(l, "push")
  /\ button' = (button /\ ~IsEnabled(l))
  /\ Turn({l})
  /\ UNCHANGED <<buzzer, world, child, copy, sleep, mainVars>>

\* loop_cheat rings after it has opened, loop_open has rung before.
LowerButton(l) ==
  /\ Awake(l, "push")
  /\ button' = FALSE
  /\ IF IsFree(tm_hour[l])
     THEN Turn({l})
     ELSE Goto(l, "ring OK") /\ UNCHANGED locals
  /\ UNCHANGED <<buzzer, world, child, copy, sleep, mainVars>>

(***************************************************************************)
(* SetEnabled, from the commands "intercom start" and "intercom stop".     *)
(***************************************************************************)
Start ==
  /\ main = "prompt"
  /\ enabled' = TRUE
  /\ \E l \in Free :
       /\ Goto(l, "top")
       /\ Sleep(l, 0)
       /\ handle' = l
  /\ doubled' = (doubled \/ handle # NoLoop)
  /\ UNCHANGED <<pins, world, child, copy, locals, main>>

\* Not of an intercom that was never started or is stopped: _thread is garbage.
Stop ==
  /\ main = "prompt" /\ handle # NoLoop
  /\ enabled' = FALSE
  /\ main' = "joining"
  /\ UNCHANGED <<pins, world, loopVars, handle, doubled>>

Join ==
  /\ main = "joining" /\ ~Running(handle)
  /\ main' = "prompt" /\ handle' = NoLoop
  /\ UNCHANGED <<pins, world, loopVars, enabled, doubled>>

(***************************************************************************)
(* The street and the clock.                                               *)
(***************************************************************************)
Toggle ==
  /\ buzzer' = ~buzzer
  /\ released' = [l \in Loops |->
       IF buzzer /\ pc[l] \in {"count", "pressed"} /\ released[l] < PressNum
       THEN released[l] + 1 ELSE released[l]]
  /\ UNCHANGED <<button, world, pc, child, copy, tm_hour, elapsed, presses, sleep, mainVars>>

\* An hour does not pass twice between a look at the clock and a free opening.
NextHour ==
  /\ \A l \in Loops : pc[l] = "open door" /\ IsFree(tm_hour[l]) => hour = tm_hour[l]
  /\ \A l \in Loops : pc[l] = "open" => hour = tm_hour[l]
  /\ hour' = (hour + 1) % Hours
  /\ UNCHANGED <<pins, player, loopVars, mainVars>>

Tick ==
  /\ \E l \in Loops : sleep[l] > 0 \/ (pc[l] \in {"count", "pressed"} /\ Within(l))
  /\ sleep' = [l \in Loops |-> IF sleep[l] > 0 THEN sleep[l] - 1 ELSE 0]
  /\ elapsed' = [l \in Loops |->
       IF pc[l] \in {"count", "pressed"} /\ Within(l) THEN elapsed[l] + 1 ELSE elapsed[l]]
  /\ UNCHANGED <<pins, world, pc, child, copy, tm_hour, presses, released, mainVars>>

LoopCheat(l) == CheatRings(l) \/ Hold(l) \/ Count(l) \/ Verdict(l)
Loop(l) ==
  \/ Top(l) \/ End(l) \/ Silent(l) \/ RingBuzzer(l) \/ LoopCheat(l)
  \/ RaiseButton(l) \/ LowerButton(l)

Next ==
  \/ \E l \in Loops : Loop(l)
  \/ Start \/ Stop \/ Join
  \/ Toggle \/ NextHour \/ Tick

Spec == Init /\ [][Next]_vars

\* Time passes and loops that are awake run; nobody has to ring or to type.
FairSpec == /\ Spec
            /\ WF_vars(Tick) /\ WF_vars(Join)
            /\ \A l \in Loops : WF_vars(Loop(l))
-----------------------------------------------------------------------------
TypeOK ==
  /\ buzzer \in BOOLEAN /\ button \in BOOLEAN
  /\ hour \in 0..(Hours - 1) /\ player \in BOOLEAN
  /\ pc \in [Loops -> {"none", "top", "open", "cheat", "count", "pressed",
                       "open door", "push", "ring OK", "ring NOK"}]
  /\ child \in [Loops -> BOOLEAN] /\ copy \in [Loops -> BOOLEAN]
  /\ tm_hour \in [Loops -> -1..(Hours - 1)]
  /\ elapsed \in [Loops -> 0..Interval] /\ presses \in [Loops -> 0..(ByteSize - 1)]
  /\ released \in [Loops -> 0..PressNum]
  /\ sleep \in [Loops -> 0..ButtonTicks]
  /\ enabled \in BOOLEAN /\ doubled \in BOOLEAN
  /\ handle \in Loops \cup {NoLoop} /\ main \in {"prompt", "joining"}

Raises(l) == pc[l] = "open door" /\ pc'[l] = "push"

\* Nobody gets in outside the free hours for leaning on the button or for
\* fewer presses than the code has: as many times as that the button was
\* released while loop_cheat was counting.
OpensOnPresses ==
  [][\A l \in Loops : Raises(l) /\ ~IsFree(tm_hour[l]) => released[l] = PressNum]_vars

\* Fewer presses than the code has, which is a ring alone, open in the hours from
\* the start to the end in the configuration only (the end's is one of them), or
\* in the hour after if the ring was at the turn: whatever a loop has read the
\* clock for, has counted or was forked with.
FreeOnlyInHours ==
  [][\A l \in Loops : Raises(l) /\ released[l] < PressNum =>
       \/ hour \in StartTime..EndTime
       \/ (hour + Hours - 1) % Hours \in StartTime..EndTime]_vars

\* The button is never left pushed, whoever opens at the same time.
PushIsAttended == button => \E l \in Loops : pc[l] = "push"

\* When "intercom stop" has returned no loop is left that could open, if the
\* player works and the thread was not started twice.
StoppedOpensNothing ==
  main = "prompt" /\ ~enabled /\ player /\ ~doubled => \A l \in Loops : ~Running(l)

\* The invariants together, with the types.
IntercomInv == TypeOK /\ PushIsAttended /\ StoppedOpensNothing

\* "intercom stop" returns if the buzzer is not held for ever: the loop in which
\* a press is waited out has no other end.
StopReturns == <>[]~buzzer => (main = "joining" ~> main = "prompt")
=============================================================================
