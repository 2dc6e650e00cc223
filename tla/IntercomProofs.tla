---------------------------- MODULE IntercomProofs ----------------------------
(***************************************************************************)
(* Proofs about Intercom, for any number of loops, any code, interval,     *)
(* width of the counter and hours of free opening.                         *)
(***************************************************************************)
EXTENDS Intercom, TLAPS

Pcs == {"none", "top", "open", "cheat", "count", "pressed",
        "open door", "push", "ring OK", "ring NOK"}

\* TypeOK in four parts, which are proved one by one.
WorldOK ==
  /\ buzzer \in BOOLEAN /\ button \in BOOLEAN
  /\ hour \in 0..(Hours - 1) /\ player \in BOOLEAN
PlaceOK ==
  /\ pc \in [Loops -> Pcs]
  /\ child \in [Loops -> BOOLEAN] /\ copy \in [Loops -> BOOLEAN]
CountOK ==
  /\ tm_hour \in [Loops -> -1..(Hours - 1)]
  /\ elapsed \in [Loops -> 0..Interval] /\ presses \in [Loops -> 0..(ByteSize - 1)]
  /\ released \in [Loops -> 0..PressNum]
  /\ sleep \in [Loops -> 0..ButtonTicks]
MainOK ==
  /\ enabled \in BOOLEAN /\ doubled \in BOOLEAN
  /\ handle \in Loops \cup {NoLoop} /\ main \in {"prompt", "joining"}

NextHourOf(h) == (h + 1) % Hours

\* What a loop knows of its visitor, by its place in a turn: the counter is not
\* ahead of the presses, by one less while a press that is over waits to be
\* counted; whoever rings in a free turn does so at that hour or the next.
Visit(l) ==
  /\ pc[l] \in {"none", "top", "open", "cheat"} => presses[l] = 0
  /\ pc[l] \in {"cheat", "count", "pressed"} => ~IsFree(tm_hour[l])
  /\ pc[l] = "count" => released[l] = PressNum \/ presses[l] <= released[l]
  /\ pc[l] = "pressed" =>
       \/ released[l] = PressNum
       \/ presses[l] + 1 <= released[l]
       \/ buzzer /\ presses[l] <= released[l]
  /\ pc[l] = "open" => IsFree(tm_hour[l])
  /\ pc[l] = "open door" => IsFree(tm_hour[l]) \/ released[l] = PressNum
  /\ pc[l] \in {"open", "open door"} /\ IsFree(tm_hour[l]) =>
       hour = tm_hour[l] \/ hour = NextHourOf(tm_hour[l])

\* Without children and second starts the loop in the handle is the only one,
\* and a stopped intercom has no handle.
Handles ==
  /\ player /\ ~doubled => \A l \in Loops : Running(l) => l = handle
  /\ main = "prompt" /\ ~enabled => handle = NoLoop

IInv == TypeOK /\ PushIsAttended /\ Handles /\ \A l \in Loops : Visit(l)
-----------------------------------------------------------------------------
\* The counter and the clock stay in their range; a step of the clock can be
\* taken back.
LEMMA Modulo ==
  ASSUME NEW n \in Nat \ {0}, NEW k \in 0..(n - 1)
  PROVE  /\ (k + 1) % n \in 0..(n - 1)
         /\ (k + 1) % n <= k + 1
         /\ (((k + 1) % n) + n - 1) % n = k
<1>1. CASE k + 1 < n
  <2>1. (k + 1) % n = k + 1
    BY <1>1
  <2>2. (k + n) % n = k
    BY <1>1
  <2> QED
    BY <2>1, <2>2
<1>2. CASE k + 1 = n
  <2>1. n % n = 0
    OBVIOUS
  <2>2. (n - 1) % n = n - 1
    OBVIOUS
  <2> QED
    BY <1>2, <2>1, <2>2
<1> QED
  BY <1>1, <1>2

\* The types hold when their four parts do.
LEMMA Parts == TypeOK <=> WorldOK /\ PlaceOK /\ CountOK /\ MainOK
BY DEF TypeOK, WorldOK, PlaceOK, CountOK, MainOK, Pcs

\* The same after a step.
LEMMA PartsNext == TypeOK' <=> WorldOK' /\ PlaceOK' /\ CountOK' /\ MainOK'
BY DEF TypeOK, WorldOK, PlaceOK, CountOK, MainOK, Pcs

\* The types hold at the start.
LEMMA InitTypes == Init => TypeOK
<1> SUFFICES ASSUME Init PROVE TypeOK
  OBVIOUS
<1> USE IntercomAssumption DEF Init
<1>1. WorldOK
  BY DEF WorldOK
<1>2. PlaceOK
  BY DEF PlaceOK, Pcs
<1>3. CountOK
  <2>1. NoHour \in -1..(Hours - 1) /\ 0 \in 0..Interval /\ 0 \in 0..(ByteSize - 1)
        /\ 0 \in 0..PressNum /\ 0 \in 0..ButtonTicks
    BY DEF NoHour
  <2> QED
    BY <2>1 DEF CountOK
<1>4. MainOK
  BY DEF MainOK
<1> QED
  BY ONLY <1>1, <1>2, <1>3, <1>4, Parts

\* The end of a turn keeps the types of what it resets.
LEMMA TurnTypes ==
  ASSUME TypeOK, NEW ls \in SUBSET Loops, Turn(ls)
  PROVE  /\ pc' \in [Loops -> Pcs]
         /\ tm_hour' \in [Loops -> -1..(Hours - 1)]
         /\ elapsed' \in [Loops -> 0..Interval]
         /\ presses' \in [Loops -> 0..(ByteSize - 1)]
         /\ released' \in [Loops -> 0..PressNum]
<1> USE IntercomAssumption, Parts DEF Turn
<1>1. pc' \in [Loops -> Pcs]
  BY DEF PlaceOK, Pcs
<1>2. tm_hour' \in [Loops -> -1..(Hours - 1)]
  BY DEF CountOK, NoHour
<1>3. elapsed' \in [Loops -> 0..Interval]
  BY DEF CountOK
<1>4. presses' \in [Loops -> 0..(ByteSize - 1)]
  BY DEF CountOK
<1>5. released' \in [Loops -> 0..PressNum]
  BY DEF CountOK
<1> QED
  BY ONLY <1>1, <1>2, <1>3, <1>4, <1>5

\* So does what follows a sound.
LEMMA RungTypes ==
  ASSUME TypeOK, NEW l \in Loops, NEW both \in SUBSET Loops, Rung(l, both)
  PROVE  /\ pc' \in [Loops -> Pcs]
         /\ tm_hour' \in [Loops -> -1..(Hours - 1)]
         /\ elapsed' \in [Loops -> 0..Interval]
         /\ presses' \in [Loops -> 0..(ByteSize - 1)]
         /\ released' \in [Loops -> 0..PressNum]
<1>1. CASE pc[l] = "open"
  <2>1. pc' \in [Loops -> Pcs]
    BY <1>1, Parts DEF Rung, PlaceOK, Pcs
  <2>2. tm_hour' \in [Loops -> -1..(Hours - 1)]
    BY <1>1, Parts DEF Rung, CountOK
  <2>3. /\ elapsed' \in [Loops -> 0..Interval]
        /\ presses' \in [Loops -> 0..(ByteSize - 1)]
        /\ released' \in [Loops -> 0..PressNum]
    BY <1>1, Parts DEF Rung, CountOK
  <2> QED
    BY ONLY <2>1, <2>2, <2>3
<1>2. CASE pc[l] # "open"
  BY <1>2, TurnTypes DEF Rung
<1> QED
  BY <1>1, <1>2

\* Every step of a loop keeps the types.
LEMMA LoopTypes ==
  ASSUME TypeOK, NEW l \in Loops, Loop(l)
  PROVE  TypeOK'
<1> USE IntercomAssumption DEF pins, world, locals, mainVars, Goto, Sleep
<1>1. CASE Top(l)
  <2> USE DEF Top
  <2>1. WorldOK'
    BY <1>1, Parts DEF WorldOK
  <2>2. PlaceOK'
    BY <1>1, Parts DEF PlaceOK, Pcs
  <2>3. CountOK'
    BY <1>1, Parts DEF CountOK, WorldOK, NoHour
  <2>4. MainOK'
    BY <1>1, Parts DEF MainOK
  <2> QED
    BY ONLY <2>1, <2>2, <2>3, <2>4, PartsNext
<1>2. CASE End(l)
  <2> USE DEF End
  <2>1. WorldOK'
    BY <1>2, Parts DEF WorldOK
  <2>2. PlaceOK'
    BY <1>2, Parts DEF PlaceOK, Pcs
  <2>3. CountOK'
    BY <1>2, Parts DEF CountOK
  <2>4. MainOK'
    BY <1>2, Parts DEF MainOK
  <2> QED
    BY ONLY <2>1, <2>2, <2>3, <2>4, PartsNext
<1>3. CASE Silent(l)
  <2> USE DEF Silent
  <2>1. WorldOK'
    BY <1>3, Parts, TurnTypes DEF WorldOK
  <2>2. PlaceOK'
    BY <1>3, Parts, TurnTypes DEF PlaceOK, Pcs
  <2>3. CountOK'
    BY <1>3, Parts, TurnTypes DEF CountOK
  <2>4. MainOK'
    BY <1>3, Parts, TurnTypes DEF MainOK
  <2> QED
    BY ONLY <2>1, <2>2, <2>3, <2>4, PartsNext
<1>4. CASE RingBuzzer(l)
  <2>1. CASE player \/ Free = {}
    <3>1. Rung(l, {l}) /\ UNCHANGED <<pins, world, child, copy, sleep, mainVars>>
      BY <1>4, <2>1 DEF RingBuzzer
    <3>2. WorldOK'
      BY <3>1, Parts DEF WorldOK
    <3>3. PlaceOK'
      BY <3>1, Parts, RungTypes DEF PlaceOK
    <3>4. CountOK'
      BY <3>1, Parts, RungTypes DEF CountOK
    <3>5. MainOK'
      BY <3>1, Parts DEF MainOK
    <3> QED
      BY ONLY <3>2, <3>3, <3>4, <3>5, PartsNext
  <2>2. CASE ~(player \/ Free = {})
    <3>1. PICK c \in Free : /\ child' = [child EXCEPT ![c] = TRUE]
                            /\ copy' = [copy EXCEPT ![c] = IsEnabled(l)]
                            /\ Sleep(c, 0)
                            /\ Rung(l, {l, c})
      BY <1>4, <2>2 DEF RingBuzzer
    <3>2. UNCHANGED <<pins, world, mainVars>>
      BY <1>4 DEF RingBuzzer
    <3>3. c \in Loops /\ IsEnabled(l) \in BOOLEAN
      BY <1>4, Parts DEF Free, IsEnabled, PlaceOK, MainOK
    <3>4. WorldOK'
      BY <3>2, Parts DEF WorldOK
    <3>5. PlaceOK'
      BY <3>1, <3>3, Parts, RungTypes DEF PlaceOK
    <3>6. CountOK'
      BY <3>1, <3>3, Parts, RungTypes DEF CountOK
    <3>7. MainOK'
      BY <3>2, Parts DEF MainOK
    <3> QED
      BY ONLY <3>4, <3>5, <3>6, <3>7, PartsNext
  <2> QED
    BY <2>1, <2>2
<1>5. CASE CheatRings(l)
  <2> USE DEF CheatRings
  <2>1. WorldOK'
    BY <1>5, Parts DEF WorldOK
  <2>2. PlaceOK'
    BY <1>5, Parts DEF PlaceOK, Pcs
  <2>3. CountOK'
    BY <1>5, Parts DEF CountOK
  <2>4. MainOK'
    BY <1>5, Parts DEF MainOK
  <2> QED
    BY ONLY <2>1, <2>2, <2>3, <2>4, PartsNext
<1>6. CASE Hold(l)
  <2> USE DEF Hold
  <2>1. WorldOK'
    BY <1>6, Parts DEF WorldOK
  <2>2. PlaceOK'
    BY <1>6, Parts DEF PlaceOK, Pcs
  <2>3. CountOK'
    BY <1>6, Parts DEF CountOK
  <2>4. MainOK'
    BY <1>6, Parts DEF MainOK
  <2> QED
    BY ONLY <2>1, <2>2, <2>3, <2>4, PartsNext
<1>7. CASE Count(l)
  <2>1. (presses[l] + 1) % ByteSize \in 0..(ByteSize - 1)
    BY Modulo, Parts DEF CountOK
  <2>2. WorldOK'
    BY <1>7, Parts DEF Count, WorldOK
  <2>3. PlaceOK'
    BY <1>7, Parts DEF Count, PlaceOK, Pcs
  <2>4. CountOK'
    BY <1>7, <2>1, Parts DEF Count, CountOK
  <2>5. MainOK'
    BY <1>7, Parts DEF Count, MainOK
  <2> QED
    BY ONLY <2>2, <2>3, <2>4, <2>5, PartsNext
<1>8. CASE Verdict(l)
  <2> USE DEF Verdict
  <2>1. WorldOK'
    BY <1>8, Parts DEF WorldOK
  <2>2. PlaceOK'
    BY <1>8, Parts DEF PlaceOK, Pcs
  <2>3. CountOK'
    BY <1>8, Parts DEF CountOK
  <2>4. MainOK'
    BY <1>8, Parts DEF MainOK
  <2> QED
    BY ONLY <2>1, <2>2, <2>3, <2>4, PartsNext
<1>9. CASE RaiseButton(l)
  <2> USE DEF RaiseButton
  <2>1. WorldOK'
    BY <1>9, Parts DEF WorldOK
  <2>2. PlaceOK'
    BY <1>9, Parts DEF PlaceOK, Pcs
  <2>3. CountOK'
    <3>1. ButtonTicks \in 0..ButtonTicks
      OBVIOUS
    <3> QED
      BY <1>9, Parts, <3>1 DEF CountOK
  <2>4. MainOK'
    BY <1>9, Parts DEF MainOK
  <2> QED
    BY ONLY <2>1, <2>2, <2>3, <2>4, PartsNext
<1>10. CASE LowerButton(l)
  <2> USE DEF LowerButton
  <2>1. WorldOK'
    BY <1>10, Parts, TurnTypes DEF WorldOK
  <2>2. PlaceOK'
    BY <1>10, Parts, TurnTypes DEF PlaceOK, Pcs
  <2>3. CountOK'
    BY <1>10, Parts, TurnTypes DEF CountOK
  <2>4. MainOK'
    BY <1>10, Parts, TurnTypes DEF MainOK
  <2> QED
    BY ONLY <2>1, <2>2, <2>3, <2>4, PartsNext
<1> QED
  BY <1>1, <1>2, <1>3, <1>4, <1>5, <1>6, <1>7, <1>8, <1>9, <1>10 DEF Loop, LoopCheat

\* So does every step of the main thread, the street and the clock.
LEMMA WorldTypes ==
  ASSUME TypeOK, Start \/ Stop \/ Join \/ Toggle \/ NextHour \/ Tick \/ UNCHANGED vars
  PROVE  TypeOK'
<1> USE IntercomAssumption DEF pins, world, locals, loopVars, mainVars, Goto, Sleep
<1>1. CASE Start
  <2> USE DEF Start, Free
  <2>1. WorldOK'
    BY <1>1, Parts DEF WorldOK
  <2>2. PlaceOK'
    BY <1>1, Parts DEF PlaceOK, Pcs
  <2>3. CountOK'
    BY <1>1, Parts DEF CountOK
  <2>4. MainOK'
    BY <1>1, Parts DEF MainOK
  <2> QED
    BY ONLY <2>1, <2>2, <2>3, <2>4, PartsNext
<1>2. CASE Stop
  <2> USE DEF Stop
  <2>1. WorldOK'
    BY <1>2, Parts DEF WorldOK
  <2>2. PlaceOK'
    BY <1>2, Parts DEF PlaceOK, Pcs
  <2>3. CountOK'
    BY <1>2, Parts DEF CountOK
  <2>4. MainOK'
    BY <1>2, Parts DEF MainOK
  <2> QED
    BY ONLY <2>1, <2>2, <2>3, <2>4, PartsNext
<1>3. CASE Join
  <2> USE DEF Join
  <2>1. WorldOK'
    BY <1>3, Parts DEF WorldOK
  <2>2. PlaceOK'
    BY <1>3, Parts DEF PlaceOK, Pcs
  <2>3. CountOK'
    BY <1>3, Parts DEF CountOK
  <2>4. MainOK'
    BY <1>3, Parts DEF MainOK
  <2> QED
    BY ONLY <2>1, <2>2, <2>3, <2>4, PartsNext
<1>4. CASE Toggle
  <2> USE DEF Toggle
  <2>1. WorldOK'
    BY <1>4, Parts DEF WorldOK
  <2>2. PlaceOK'
    BY <1>4, Parts DEF PlaceOK, Pcs
  <2>3. CountOK'
    BY <1>4, Parts DEF CountOK
  <2>4. MainOK'
    BY <1>4, Parts DEF MainOK
  <2> QED
    BY ONLY <2>1, <2>2, <2>3, <2>4, PartsNext
<1>5. CASE NextHour
  <2>1. (hour + 1) % Hours \in 0..(Hours - 1)
    BY Modulo, Parts DEF WorldOK
  <2>2. WorldOK'
    BY <1>5, <2>1, Parts DEF NextHour, WorldOK
  <2>3. PlaceOK'
    BY <1>5, Parts DEF NextHour, PlaceOK
  <2>4. CountOK'
    BY <1>5, Parts DEF NextHour, CountOK
  <2>5. MainOK'
    BY <1>5, Parts DEF NextHour, MainOK
  <2> QED
    BY ONLY <2>2, <2>3, <2>4, <2>5, PartsNext
<1>6. CASE Tick
  <2> USE DEF Tick, Within
  <2>1. WorldOK'
    BY <1>6, Parts DEF WorldOK
  <2>2. PlaceOK'
    BY <1>6, Parts DEF PlaceOK, Pcs
  <2>3. CountOK'
    BY <1>6, Parts DEF CountOK
  <2>4. MainOK'
    BY <1>6, Parts DEF MainOK
  <2> QED
    BY ONLY <2>1, <2>2, <2>3, <2>4, PartsNext
<1>7. CASE UNCHANGED vars
  <2> USE DEF vars
  <2>1. WorldOK'
    BY <1>7, Parts DEF WorldOK
  <2>2. PlaceOK'
    BY <1>7, Parts DEF PlaceOK, Pcs
  <2>3. CountOK'
    BY <1>7, Parts DEF CountOK
  <2>4. MainOK'
    BY <1>7, Parts DEF MainOK
  <2> QED
    BY ONLY <2>1, <2>2, <2>3, <2>4, PartsNext
<1> QED
  BY <1>1, <1>2, <1>3, <1>4, <1>5, <1>6, <1>7

\* Every step keeps the types.
LEMMA TypeStep == TypeOK /\ [Next]_vars => TypeOK'
BY LoopTypes, WorldTypes DEF Next
-----------------------------------------------------------------------------
\* What a step of the loop l does to another loop k: nothing, unless k is the
\* child it forks and cannot turn into the player.
Forked(l, k) ==
  /\ ~player /\ ~Running(k)
  /\ \/ pc[l] = "open" /\ pc'[k] = "open door" /\ tm_hour'[k] = tm_hour[l]
     \/ pc'[k] = "top" /\ presses'[k] = 0

SameVisit(k) ==
  /\ pc'[k] = pc[k] /\ tm_hour'[k] = tm_hour[k]
  /\ presses'[k] = presses[k] /\ released'[k] = released[k]

\* The locals of the loops whose turn ends, and of those whose turn does not.
LEMMA TurnEnds ==
  ASSUME NEW ls \in SUBSET Loops, Turn(ls), NEW k \in Loops
  PROVE  IF k \in ls THEN pc'[k] = "top" /\ presses'[k] = 0 ELSE SameVisit(k)
BY DEF Turn, SameVisit

\* A sound is played by the loop, and by its child if there is one.
LEMMA RungVisits ==
  ASSUME NEW l \in Loops, NEW both \in SUBSET Loops, Rung(l, both), NEW k \in both
  PROVE  \/ /\ pc[l] = "open" /\ pc'[k] = "open door"
            /\ tm_hour'[k] = tm_hour[l] /\ released'[k] = released[k]
         \/ pc[l] # "open" /\ pc'[k] = "top" /\ presses'[k] = 0
<1>1. CASE pc[l] = "open"
  BY <1>1 DEF Rung
<1>2. CASE pc[l] # "open"
  BY <1>2, TurnEnds DEF Rung
<1> QED
  BY <1>1, <1>2

\* The other loops do not notice.
LEMMA RungOthers ==
  ASSUME NEW l \in Loops, NEW both \in SUBSET Loops, Rung(l, both),
         NEW k \in Loops, k \notin both
  PROVE  SameVisit(k)
<1>1. CASE pc[l] = "open"
  BY <1>1 DEF Rung, SameVisit
<1>2. CASE pc[l] # "open"
  BY <1>2, TurnEnds DEF Rung
<1> QED
  BY <1>1, <1>2

\* A step of a loop leaves every other loop as it is, or forks it.
LEMMA Others ==
  ASSUME TypeOK, NEW l \in Loops, Loop(l), NEW k \in Loops, k # l
  PROVE  SameVisit(k) \/ Forked(l, k)
<1> USE Parts DEF PlaceOK, CountOK, Goto, locals
<1>1. CASE Top(l)
  BY <1>1 DEF Top, SameVisit
<1>2. CASE End(l)
  BY <1>2 DEF End, SameVisit
<1>3. CASE Silent(l)
  BY <1>3, TurnEnds DEF Silent
<1>4. CASE RingBuzzer(l)
  <2>1. CASE player \/ Free = {}
    <3>1. Rung(l, {l})
      BY <1>4, <2>1 DEF RingBuzzer
    <3>2. {l} \in SUBSET Loops /\ k \notin {l}
      OBVIOUS
    <3>3. SameVisit(k)
      BY <3>1, <3>2, RungOthers
    <3> QED
      BY ONLY <3>3
  <2>2. CASE ~(player \/ Free = {})
    <3>1. PICK c \in Free : Rung(l, {l, c})
      BY <1>4, <2>2 DEF RingBuzzer
    <3>2. c \in Loops /\ ~Running(c) /\ {l, c} \in SUBSET Loops
      BY DEF Free
    <3>3. CASE k = c
      BY ONLY <2>2, <3>1, <3>2, <3>3, RungVisits, k \in Loops, l \in Loops DEF Forked
    <3>4. CASE k # c
      <4>1. k \notin {l, c}
        BY <3>4
      <4>2. SameVisit(k)
        BY <3>1, <3>2, <4>1, RungOthers
      <4> QED
        BY <4>2
    <3> QED
      BY ONLY <3>3, <3>4
  <2> QED
    BY <2>1, <2>2
<1>5. CASE LoopCheat(l)
  BY <1>5 DEF LoopCheat, CheatRings, Hold, Count, Verdict, SameVisit
<1>6. CASE RaiseButton(l)
  BY <1>6 DEF RaiseButton, SameVisit
<1>7. CASE LowerButton(l)
  <2>1. CASE Turn({l})
    <3>1. {l} \in SUBSET Loops /\ k \notin {l}
      OBVIOUS
    <3>2. SameVisit(k)
      BY ONLY <2>1, <3>1, TurnEnds, k \in Loops
    <3> QED
      BY ONLY <3>2
  <2>2. CASE Goto(l, "ring OK") /\ UNCHANGED locals
    BY <2>2 DEF SameVisit
  <2> QED
    BY <1>7, <2>1, <2>2 DEF LowerButton
<1> QED
  BY ONLY <1>1, <1>2, <1>3, <1>4, <1>5, <1>6, <1>7, Loop(l) DEF Loop

\* A loop leaves the street, the clock and the main thread alone; the button it
\* touches where it opens only.
LEMMA LoopWorld ==
  ASSUME NEW l \in Loops, Loop(l)
  PROVE  /\ Running(l)
         /\ UNCHANGED <<buzzer, hour, player, enabled, handle, doubled, main>>
         /\ \/ UNCHANGED button /\ pc[l] # "push"
            \/ RaiseButton(l) \/ LowerButton(l)
<1> USE DEF Running, Awake, pins, world, mainVars
<1>1. CASE Top(l)
  BY <1>1 DEF Top
<1>2. CASE End(l)
  BY <1>2 DEF End
<1>3. CASE Silent(l)
  BY <1>3 DEF Silent
<1>4. CASE RingBuzzer(l)
  BY <1>4 DEF RingBuzzer
<1>5. CASE LoopCheat(l)
  BY <1>5 DEF LoopCheat, CheatRings, Hold, Count, Verdict
<1>6. CASE RaiseButton(l)
  BY <1>6 DEF RaiseButton
<1>7. CASE LowerButton(l)
  BY <1>7 DEF LowerButton
<1> QED
  BY ONLY <1>1, <1>2, <1>3, <1>4, <1>5, <1>6, <1>7, Loop(l) DEF Loop
-----------------------------------------------------------------------------
\* A loop that pushes the button is the one that lowers it; the others do not
\* touch its place.
LEMMA PushStep ==
  ASSUME TypeOK, PushIsAttended, [Next]_vars
  PROVE  PushIsAttended'
<1> SUFFICES ASSUME button' PROVE \E k \in Loops : pc'[k] = "push"
  BY DEF PushIsAttended
<1>1. ASSUME NEW l \in Loops, Loop(l) PROVE \E k \in Loops : pc'[k] = "push"
  <2>1. CASE UNCHANGED button /\ pc[l] # "push"
    <3>1. PICK k \in Loops : pc[k] = "push"
      BY <2>1 DEF PushIsAttended
    <3>2. SameVisit(k)
      BY <1>1, <2>1, <3>1, Others DEF Forked, Running
    <3> QED
      BY <3>1, <3>2 DEF SameVisit
  <2>2. CASE RaiseButton(l)
    BY <2>2, Parts DEF RaiseButton, Goto, PlaceOK
  <2>3. CASE LowerButton(l)
    BY <2>3 DEF LowerButton
  <2> QED
    BY <1>1, <2>1, <2>2, <2>3, LoopWorld
<1>2. CASE Start
  <2>1. PICK l \in Free : Goto(l, "top")
    BY <1>2 DEF Start
  <2>2. button
    BY <1>2 DEF Start, pins
  <2>3. PICK k \in Loops : pc[k] = "push"
    BY <2>2 DEF PushIsAttended
  <2>4. k # l
    BY <2>3 DEF Free, Running
  <2> QED
    BY <2>1, <2>3, <2>4, Parts DEF Goto, PlaceOK
<1>3. CASE Stop \/ Join \/ Toggle \/ NextHour \/ Tick \/ UNCHANGED vars
  BY <1>3 DEF Stop, Join, Toggle, NextHour, Tick, vars, pins, loopVars, PushIsAttended
<1> QED
  BY <1>1, <1>2, <1>3 DEF Next

\* Only a fork and a second start run a loop that is not in the handle.
LEMMA HandlesStep ==
  ASSUME TypeOK, Handles, [Next]_vars
  PROVE  Handles'
<1> USE IntercomAssumption
<1>1. ASSUME NEW l \in Loops, Loop(l) PROVE Handles'
  <2>1. UNCHANGED <<player, enabled, handle, doubled, main>>
    BY <1>1, LoopWorld
  <2>2. ASSUME player, NEW k \in Loops, pc'[k] # "none" PROVE Running(k)
    <3>1. CASE k = l
      BY <1>1, <3>1, LoopWorld
    <3>2. CASE k # l
      BY <1>1, <2>2, <3>2, Others DEF Forked, SameVisit, Running
    <3> QED
      BY <3>1, <3>2
  <2> QED
    BY <2>1, <2>2 DEF Handles, Running
<1>2. CASE Start
  <2>1. PICK l \in Free : Goto(l, "top") /\ handle' = l
    BY <1>2 DEF Start
  <2>2. enabled' /\ UNCHANGED player /\ doubled' = (doubled \/ handle # NoLoop)
    BY <1>2 DEF Start, world
  <2>3. ASSUME player, ~doubled', NEW k \in Loops, pc'[k] # "none" PROVE k = l
    <3>1. ~Running(k)
      BY <2>2, <2>3 DEF Handles
    <3> QED
      BY <2>1, <2>3, <3>1, Parts DEF Goto, Running, PlaceOK, Free
  <2> QED
    BY <2>1, <2>2, <2>3 DEF Handles, Running
<1>3. CASE Stop
  BY <1>3 DEF Stop, Handles, Running, world, loopVars
<1>4. CASE Join
  BY <1>4 DEF Join, Handles, Running, world, loopVars
<1>5. CASE Toggle \/ NextHour \/ Tick \/ UNCHANGED vars
  <2>1. UNCHANGED <<pc, player, enabled, handle, doubled, main>>
    BY <1>5 DEF Toggle, NextHour, Tick, vars, world, loopVars, mainVars
  <2> QED
    BY <2>1 DEF Handles, Running
<1> QED
  BY <1>1, <1>2, <1>3, <1>4, <1>5 DEF Next
-----------------------------------------------------------------------------
\* A loop whose locals, buzzer and clock stay knows what it knew.
LEMMA VisitStays ==
  ASSUME NEW k \in Loops, Visit(k), SameVisit(k), UNCHANGED <<buzzer, hour>>
  PROVE  Visit(k)'
BY DEF Visit, SameVisit

\* A new turn knows nothing.
LEMMA VisitTop ==
  ASSUME NEW k \in Loops, pc'[k] \in {"top", "none"}, presses'[k] = 0
  PROVE  Visit(k)'
BY DEF Visit

\* A loop that goes to the door in a free turn knows what the ring knew.
LEMMA VisitDoor ==
  ASSUME NEW l \in Loops, NEW k \in Loops, Visit(l), pc[l] = "open",
         pc'[k] = "open door", tm_hour'[k] = tm_hour[l], UNCHANGED hour
  PROVE  Visit(k)'
BY DEF Visit

\* What its own step does to a loop.
LEMMA VisitOwn ==
  ASSUME TypeOK, NEW l \in Loops, Visit(l), Loop(l)
  PROVE  Visit(l)'
<1>1. UNCHANGED <<buzzer, hour>>
  BY LoopWorld
<1>2. /\ presses[l] \in 0..(ByteSize - 1) /\ released[l] \in 0..PressNum
      /\ l \in DOMAIN pc /\ l \in DOMAIN tm_hour /\ l \in DOMAIN presses
      /\ l \in DOMAIN released
  BY Parts DEF CountOK, PlaceOK
<1>3. PressNum \in Nat /\ ByteSize \in Nat \ {0}
  BY IntercomAssumption
<1> DEFINE p == presses[l]
           r == released[l]
<1>counts. p \in Nat /\ r \in Nat /\ r <= PressNum
  BY <1>2, <1>3
<1>4. CASE Top(l)
  <2>1. /\ presses'[l] = presses[l] /\ presses[l] = 0
        /\ IF IsFree(hour) THEN pc'[l] = "open" /\ tm_hour'[l] = hour ELSE pc'[l] = "cheat" /\ tm_hour'[l] = NoHour
    BY <1>2, <1>4 DEF Top, Awake, Goto, Visit
  <2>2. ~IsFree(NoHour)
    BY IntercomAssumption DEF IsFree, NoHour
  <2> QED
    BY <1>1, <2>1, <2>2 DEF Visit
<1>5. CASE End(l)
  <2>1. pc'[l] = "none" /\ presses'[l] = 0
    BY <1>2, <1>5 DEF End, Awake, Goto, Visit, locals
  <2> QED
    BY <2>1, VisitTop
<1>6. CASE Silent(l)
  BY <1>6, TurnEnds, VisitTop DEF Silent
<1>7. CASE RingBuzzer(l)
  <2>1. PICK both \in SUBSET Loops : l \in both /\ Rung(l, both)
    BY <1>7 DEF RingBuzzer, Free
  <2>2. CASE pc[l] = "open"
    BY <1>1, <2>1, <2>2, RungVisits, VisitDoor
  <2>3. CASE pc[l] # "open"
    BY <2>1, <2>3, RungVisits, VisitTop
  <2> QED
    BY <2>2, <2>3
<1>8. CASE CheatRings(l)
  <2>1. pc'[l] = "count" /\ presses'[l] = 0 /\ released'[l] = r
        /\ tm_hour'[l] = tm_hour[l] /\ ~IsFree(tm_hour[l])
    BY <1>2, <1>8 DEF CheatRings, Goto, locals, Visit
  <2>2. 0 <= r
    BY <1>counts
  <2> QED
    BY <2>1, <2>2 DEF Visit
<1>9. CASE Hold(l)
  <2>1. /\ pc[l] \in {"count", "pressed"} /\ pc'[l] = "pressed" /\ buzzer
        /\ presses'[l] = p /\ released'[l] = r /\ tm_hour'[l] = tm_hour[l]
    BY <1>2, <1>9 DEF Hold, Awake, Goto, locals
  <2>2. ~IsFree(tm_hour[l]) /\ (r = PressNum \/ p + 1 <= r \/ p <= r)
    BY <2>1 DEF Visit
  <2>3. r = PressNum \/ p <= r
    BY <1>counts, <2>2
  <2> QED
    BY <1>1, <2>1, <2>2, <2>3 DEF Visit
<1>10. CASE Count(l)
  <2>1. /\ pc[l] = "pressed" /\ pc'[l] = "count" /\ ~buzzer
        /\ presses'[l] = (p + 1) % ByteSize /\ released'[l] = r
        /\ tm_hour'[l] = tm_hour[l]
    BY <1>2, <1>10 DEF Count, Awake, Goto
  <2>2. (p + 1) % ByteSize <= p + 1 /\ (p + 1) % ByteSize \in 0..(ByteSize - 1)
    BY <1>2, <1>3, Modulo
  <2>3. ~IsFree(tm_hour[l]) /\ (r = PressNum \/ p + 1 <= r)
    BY <2>1 DEF Visit
  <2>4. r = PressNum \/ (p + 1) % ByteSize <= r
    BY <1>3, <1>counts, <2>2, <2>3
  <2> QED
    BY <2>1, <2>3, <2>4 DEF Visit
<1>11. CASE Verdict(l)
  <2>1. /\ pc[l] = "count" /\ released'[l] = released[l]
        /\ IF presses[l] = PressNum THEN pc'[l] = "open door" ELSE pc'[l] = "ring NOK"
        /\ tm_hour'[l] = tm_hour[l]
    BY <1>2, <1>11 DEF Verdict, Awake, Goto, locals
  <2>2. p = PressNum => r = PressNum
    <3>1. r = PressNum \/ p <= r
      BY <2>1 DEF Visit
    <3> QED
      BY <1>3, <1>counts, <3>1
  <2>3. ~IsFree(tm_hour[l])
    BY <2>1 DEF Visit
  <2> QED
    BY <2>1, <2>2, <2>3 DEF Visit
<1>12. CASE RaiseButton(l)
  <2>1. pc'[l] = "push"
    BY <1>2, <1>12 DEF RaiseButton, Goto
  <2> QED
    BY <2>1 DEF Visit
<1>13. CASE LowerButton(l)
  <2>1. CASE Turn({l})
    BY <2>1, TurnEnds, VisitTop
  <2>2. CASE Goto(l, "ring OK")
    BY <1>2, <2>2 DEF Goto, Visit
  <2> QED
    BY <1>13, <2>1, <2>2 DEF LowerButton
<1> QED
  BY ONLY <1>4, <1>5, <1>6, <1>7, <1>8, <1>9, <1>10, <1>11, <1>12, <1>13, Loop(l)
     DEF Loop, LoopCheat

\* Every step keeps what every loop knows: its own, another's, one of the main
\* thread, the street or the clock.
LEMMA VisitStep ==
  ASSUME TypeOK, \A k \in Loops : Visit(k), [Next]_vars
  PROVE  (\A k \in Loops : Visit(k))'
<1> SUFFICES ASSUME NEW k \in Loops PROVE Visit(k)'
  OBVIOUS
<1>1. Visit(k)
  OBVIOUS
<1>2. presses[k] \in 0..(ByteSize - 1) /\ released[k] \in 0..PressNum
  BY Parts DEF CountOK
<1>3. PressNum \in Nat /\ ByteSize \in Nat \ {0}
  BY IntercomAssumption
<1>4. ASSUME NEW l \in Loops, Loop(l) PROVE Visit(k)'
  <2>1. CASE k = l
    BY <1>1, <1>4, <2>1, VisitOwn
  <2>2. CASE k # l /\ SameVisit(k)
    BY <1>1, <1>4, <2>2, LoopWorld, VisitStays
  <2>3. CASE k # l /\ Forked(l, k)
    <3>1. Visit(l) /\ UNCHANGED hour
      BY <1>4, LoopWorld
    <3> QED
      BY <2>3, <3>1, VisitDoor, VisitTop DEF Forked
  <2> QED
    BY <1>4, <2>1, <2>2, <2>3, Others
<1>5. CASE Start
  <2>1. PICK l \in Free : Goto(l, "top")
    BY <1>5 DEF Start
  <2>2. UNCHANGED <<buzzer, hour, locals>>
    BY <1>5 DEF Start, pins, world
  <2>3. CASE k = l
    <3>1. pc[k] = "none" /\ pc'[k] = "top"
      BY <2>1, <2>3, Parts DEF Free, Running, Goto, PlaceOK
    <3>2. presses'[k] = 0
      BY <1>1, <2>2, <3>1 DEF Visit, locals
    <3> QED
      BY <3>1, <3>2, VisitTop
  <2>4. CASE k # l
    <3>1. SameVisit(k)
      BY <2>1, <2>2, <2>4, Parts DEF Goto, PlaceOK, SameVisit, locals
    <3> QED
      BY <1>1, <2>2, <3>1, VisitStays
  <2> QED
    BY <2>3, <2>4
<1>6. CASE Toggle
  <2>1. /\ buzzer' = ~buzzer
        /\ UNCHANGED <<pc, tm_hour, presses, hour>>
        /\ released'[k] = IF buzzer /\ pc[k] \in {"count", "pressed"} /\ released[k] < PressNum
                          THEN released[k] + 1 ELSE released[k]
    BY <1>6 DEF Toggle, world
  <2>2. CASE buzzer /\ pc[k] \in {"count", "pressed"}
    <3>1. presses[k] <= released[k] \/ released[k] = PressNum
      <4>1. presses[k] + 1 <= released[k] => presses[k] <= released[k]
        BY <1>2, <1>3
      <4> QED
        BY <1>1, <2>2, <4>1 DEF Visit
    <3>2. \/ released'[k] = PressNum
          \/ presses'[k] + 1 <= released'[k] /\ presses'[k] <= released'[k]
      BY <1>2, <1>3, <2>1, <2>2, <3>1
    <3> QED
      BY <1>1, <2>1, <2>2, <3>2 DEF Visit
  <2>3. CASE ~(buzzer /\ pc[k] \in {"count", "pressed"})
    BY <1>1, <2>1, <2>3 DEF Visit
  <2> QED
    BY <2>2, <2>3
<1>7. CASE NextHour
  BY <1>1, <1>7 DEF NextHour, Visit, NextHourOf, pins, loopVars, locals
<1>8. CASE Stop \/ Join \/ Tick \/ UNCHANGED vars
  <2>1. UNCHANGED <<buzzer, hour>> /\ SameVisit(k)
    BY <1>8 DEF Stop, Join, Tick, vars, pins, world, loopVars, locals, SameVisit
  <2> QED
    BY <1>1, <2>1, VisitStays
<1> QED
  BY <1>4, <1>5, <1>6, <1>7, <1>8 DEF Next

\* The invariant holds at the start.
LEMMA InitInv == Init => IInv
<1> SUFFICES ASSUME Init PROVE IInv
  OBVIOUS
<1>1. PushIsAttended /\ Handles
  BY DEF Init, PushIsAttended, Handles, Running
<1>2. \A l \in Loops : Visit(l)
  BY DEF Init, Visit
<1> QED
  BY <1>1, <1>2, InitTypes DEF IInv

\* Every step preserves it.
LEMMA NextInv == IInv /\ [Next]_vars => IInv'
BY TypeStep, PushStep, HandlesStep, VisitStep DEF IInv
-----------------------------------------------------------------------------
\* The types; the button is pushed only while a loop that will lower it is; and
\* "intercom stop" leaves nobody that could open, if the player works and the
\* thread was not started twice.
THEOREM IntercomIsSafe == Spec => []IntercomInv
<1>1. IInv => IntercomInv
  <2> SUFFICES ASSUME IInv PROVE StoppedOpensNothing
    BY DEF IInv, IntercomInv
  <2>1. main = "prompt" /\ ~enabled => handle \notin Loops
    BY IntercomAssumption DEF IInv, Handles
  <2> QED
    BY <2>1 DEF IInv, Handles, StoppedOpensNothing
<1> QED
  BY <1>1, InitInv, NextInv, PTL DEF Spec

\* Outside the free hours the door opens only for as many presses as the code
\* has, whatever the interval and the width of the counter: an overflow can
\* only refuse.
THEOREM OpeningTakesTheCode == Spec => OpensOnPresses
<1>1. IInv /\ [Next]_vars =>
        [\A l \in Loops : Raises(l) /\ ~IsFree(tm_hour[l]) => released[l] = PressNum]_vars
  BY DEF IInv, Visit, Raises
<1> QED
  BY <1>1, InitInv, NextInv, PTL DEF Spec, OpensOnPresses

\* A ring alone opens in the hours from the start to the end, or in the hour after one of them.
THEOREM FreeOpeningIsInTime == Spec => FreeOnlyInHours
<1>1. IInv /\ [Next]_vars =>
        [\A l \in Loops : Raises(l) /\ released[l] < PressNum =>
           \/ hour \in StartTime..EndTime
           \/ (hour + Hours - 1) % Hours \in StartTime..EndTime]_vars
  <2> SUFFICES ASSUME IInv, NEW l \in Loops, Raises(l), released[l] < PressNum
               PROVE  \/ hour \in StartTime..EndTime
                      \/ (hour + Hours - 1) % Hours \in StartTime..EndTime
    OBVIOUS
  <2>1. PressNum \in Nat /\ Hours \in Nat \ {0}
    BY IntercomAssumption
  <2>2. IsFree(tm_hour[l]) /\ (hour = tm_hour[l] \/ hour = NextHourOf(tm_hour[l]))
    <3>1. released[l] # PressNum
      BY <2>1
    <3>2. pc[l] = "open door"
      BY DEF Raises
    <3> QED
      BY <3>1, <3>2 DEF IInv, Visit
  <2>3. tm_hour[l] \in 0..(Hours - 1)
    BY <2>2, Parts, IntercomAssumption DEF IInv, CountOK, IsFree
  <2>4. (NextHourOf(tm_hour[l]) + Hours - 1) % Hours = tm_hour[l]
    BY <2>1, <2>3, Modulo DEF NextHourOf
  <2>5. tm_hour[l] \in StartTime..EndTime
    BY <2>2, <2>3, IntercomAssumption DEF IsFree
  <2> QED
    BY <2>2, <2>4, <2>5
<1> QED
  BY <1>1, InitInv, NextInv, PTL DEF Spec, FreeOnlyInHours
=============================================================================
