------------------------------- MODULE ScanLoop ------------------------------
(***************************************************************************)
(* One scanner: its scan thread (scanner.cpp, scan_thread), the threads a  *)
(* command of the main loop starts and joins (Scanner::SetEnabled), and    *)
(* the commands the main thread itself sends to the same fingerprint       *)
(* module.  The module answers commands in the order they are written; the *)
(* link is taken at the grain of packets (FpsLink has its bytes): a caller *)
(* takes the response that comes next.                                     *)
(*                                                                         *)
(* The question is who is let in: the decision of the scan loop rests on   *)
(* three driver calls, IsPressFinger, CaptureFinger and Identify1_N, with  *)
(* the finger and the other threads moving in between.                     *)
(***************************************************************************)
EXTENDS Integers, Sequences, FiniteSets

CONSTANTS
  Scans,          \* identities for scan threads; bounds how many are created
  Fingers,        \* fingers that touch the sensor
  NoFinger,
  Enrolled,       \* fingers with a template on the module at the start
  TemplateId,     \* TemplateId[f]: the number of f's template
  MainCommands,   \* lines typed at the prompt, of those modelled here
  Disciplined,    \* is a stopped scanner started, and a started one stopped?
  Lossy,          \* may the module leave a command without an answer?
  MaxTouches,     \* bound: touches in a behaviour
  MaxLate         \* bound: answers and commands a timeout leaves behind

MAX_FGP_COUNT == 2000
NACK_IDENTIFY_FAILED == 4104        \* 0x1008
NACK_DB_IS_EMPTY == 4106            \* 0x100A
NACK_FINGER_IS_NOT_PRESSED == 4114  \* 0x1012

Main == "main"

ASSUME ScanLoopAssumption ==
  /\ Main \notin Scans
  /\ NoFinger \notin Fingers
  /\ Enrolled \subseteq Fingers
  /\ IsFiniteSet(Enrolled) /\ Cardinality(Enrolled) <= MAX_FGP_COUNT
  /\ TemplateId \in [Fingers -> 0..(MAX_FGP_COUNT - 1)]
  /\ MainCommands \subseteq {"stop", "start", "count", "dump", "wipe"}
  /\ Disciplined \in BOOLEAN /\ Lossy \in BOOLEAN
  /\ MaxTouches \in Nat /\ MaxLate \in Nat

VARIABLES
  finger,     \* the finger on the sensor
  touch,      \* number of the current or last touch
  templates,  \* fingers the module knows
  image,      \* what the module captured last: [finger, touch]
  cmds,       \* commands the module has not dealt with
  replies,    \* responses nobody has read
  enabled,    \* Scanner::_enabled
  handle,     \* Scanner::_scan_thread
  pc,         \* pc[s]: what scan thread s does next
  waiting,    \* waiting[t]: has t sent its command?
  detect,     \* detect[s]: the loop's latch
  captured,   \* captured[s]: what s's own CaptureFinger captured
  admitted,   \* admissions: [id, finger, touch]
  decided,    \* touches a scan thread has decided about
  opened,     \* opened[s]: the touch s has last opened the door for
  twice,      \* touches one scan thread has opened the door for twice
  mpc,        \* the main thread: "prompt", "join" or "device"
  todo,       \* driver calls the main thread still makes in this command
  resume      \* does the command end with SetEnabled(true)?

sensorVars == <<finger, touch>>
moduleVars == <<templates, image>>
linkVars == <<cmds, replies>>
scanVars == <<pc, detect, captured, opened, admitted, decided, twice>>
mainVars == <<enabled, handle, mpc, todo, resume>>
vars == <<sensorVars, moduleVars, linkVars, scanVars, mainVars, waiting>>

Threads == Scans \cup {Main}
NoImage == [finger |-> NoFinger, touch |-> 0]

Init ==
  /\ finger = NoFinger /\ touch = 0
  /\ templates = Enrolled /\ image = NoImage
  /\ cmds = <<>> /\ replies = <<>>
  /\ handle \in Scans                       \* init() has called SetEnabled(true)
  /\ enabled = TRUE
  /\ pc = [s \in Scans |-> IF s = handle THEN "led" ELSE "off"]
  /\ waiting = [t \in Threads |-> FALSE]
  /\ detect = [s \in Scans |-> TRUE]
  /\ captured = [s \in Scans |-> NoImage]
  /\ opened = [s \in Scans |-> 0]
  /\ admitted = {} /\ decided = {} /\ twice = {}
  /\ mpc = "prompt" /\ todo = <<>> /\ resume = FALSE

(***************************************************************************)
(* The sensor and the module.                                              *)
(***************************************************************************)
Touch(f) ==
  /\ finger = NoFinger /\ touch < MaxTouches
  /\ finger' = f /\ touch' = touch + 1
  /\ UNCHANGED <<moduleVars, linkVars, scanVars, mainVars, waiting>>

Lift ==
  /\ finger # NoFinger
  /\ finger' = NoFinger
  /\ UNCHANGED <<touch, moduleVars, linkVars, scanVars, mainVars, waiting>>

Ack(param) == [ack |-> TRUE, param |-> param]
Nack(param) == [ack |-> FALSE, param |-> param]

\* The module's answer to a command, with the finger that is there now.
AnswerTo(cmd) ==
  CASE cmd = "IsPressFinger" ->
         Ack(IF finger = NoFinger THEN NACK_FINGER_IS_NOT_PRESSED ELSE 0)
    [] cmd = "CaptureFinger" ->
         IF finger = NoFinger THEN Nack(NACK_FINGER_IS_NOT_PRESSED) ELSE Ack(0)
    [] cmd = "Identify1_N" ->
         IF image.finger \in templates THEN Ack(TemplateId[image.finger])
         ELSE Nack(NACK_IDENTIFY_FAILED)
    [] cmd = "GetEnrollCount" -> Ack(Cardinality(templates))
    [] cmd = "DeleteAll" ->
         IF templates = {} THEN Nack(NACK_DB_IS_EMPTY) ELSE Ack(0)
    [] OTHER -> Ack(0)

\* Mutant: a failed capture leaves an image of the empty sensor.
WorkOnNothing(c) ==
  /\ image' = IF c.cmd # "CaptureFinger" THEN image
              ELSE [finger |-> finger, touch |-> touch]
  /\ templates' = IF c.cmd = "DeleteAll" THEN {} ELSE templates
  /\ captured' = IF c.cmd = "CaptureFinger" /\ c.from \in Scans
                 THEN [captured EXCEPT ![c.from] = image'] ELSE captured

\* A capture that fails leaves no image to identify.
Work(c) ==
  /\ image' = IF c.cmd # "CaptureFinger" THEN image
              ELSE IF finger = NoFinger THEN NoImage
              ELSE [finger |-> finger, touch |-> touch]
  /\ templates' = IF c.cmd = "DeleteAll" THEN {} ELSE templates
  /\ captured' = IF c.cmd = "CaptureFinger" /\ c.from \in Scans
                 THEN [captured EXCEPT ![c.from] = image'] ELSE captured

Answer ==
  /\ cmds # <<>>
  /\ Len(replies) < MaxLate + Cardinality(Threads)
  /\ Work(Head(cmds))
  /\ cmds' = Tail(cmds)
  /\ replies' = Append(replies, AnswerTo(Head(cmds).cmd))
  /\ UNCHANGED <<sensorVars, pc, detect, opened, admitted, decided, twice,
                 mainVars, waiting>>

Lose ==
  /\ Lossy
  /\ cmds # <<>>
  /\ cmds' = Tail(cmds)
  /\ UNCHANGED <<sensorVars, moduleVars, replies, scanVars, mainVars, waiting>>

(***************************************************************************)
(* A driver call: SendCommand, then GetResponse.                           *)
(***************************************************************************)
Send(t, cmd) ==
  /\ ~waiting[t]
  /\ waiting' = [waiting EXCEPT ![t] = TRUE]
  /\ cmds' = Append(cmds, [from |-> t, cmd |-> cmd])
  /\ UNCHANGED replies

\* What the loop of GetResponse leaves when it times out is the contents of
\* an array nobody wrote.
Uninitialised == {Ack(0), Nack(0), Nack(NACK_IDENTIFY_FAILED)}

\* Mutant: the loop of GetResponse has no timeout.
ReceiveForever(t, r) ==
  /\ waiting[t]
  /\ waiting' = [waiting EXCEPT ![t] = FALSE]
  /\ replies # <<>> /\ r = Head(replies) /\ replies' = Tail(replies)
  /\ UNCHANGED cmds

Receive(t, r) ==
  /\ waiting[t]
  /\ waiting' = [waiting EXCEPT ![t] = FALSE]
  /\ \/ replies # <<>> /\ r = Head(replies) /\ replies' = Tail(replies)
     \/ /\ Lossy /\ replies = <<>> /\ Len(cmds) <= MaxLate
        /\ r \in Uninitialised
        /\ UNCHANGED replies
  /\ UNCHANGED cmds

Response == [ack : BOOLEAN,
             param : 0..MAX_FGP_COUNT \cup
                     {NACK_IDENTIFY_FAILED, NACK_DB_IS_EMPTY,
                      NACK_FINGER_IS_NOT_PRESSED}]
Possible == {replies[i] : i \in 1..Len(replies)} \cup Uninitialised

\* IsPressFinger adds the four parameter bytes up and looks at nothing else.
Pressed(r) == r.param = 0
\* Mutant: the identifier is the low byte of the parameter.
IdentifiedByte(r) == r.param % 256
\* Identify1_N clips the parameter; it does not look at the Ack flag either.
Identified(r) == IF r.param > MAX_FGP_COUNT THEN MAX_FGP_COUNT ELSE r.param

(***************************************************************************)
(* scan_thread.                                                            *)
(***************************************************************************)
CommandAt(l) == CASE l = "led" -> "SetLED" [] l = "press" -> "IsPressFinger"
                  [] l = "capture" -> "CaptureFinger"
                  [] l = "identify" -> "Identify1_N" [] l = "exit" -> "SetLED"
AtCall == {"led", "press", "capture", "identify", "exit"}

Goto(s, l) == pc' = [pc EXCEPT ![s] = l]

ScanSend(s) ==
  /\ pc[s] \in AtCall
  /\ Send(s, CommandAt(pc[s]))
  /\ UNCHANGED <<sensorVars, moduleVars, scanVars, mainVars>>

\* The loop's condition.
CheckEnabled(s) ==
  /\ pc[s] = "loop"
  /\ Goto(s, IF enabled THEN "press" ELSE "exit")
  /\ UNCHANGED <<sensorVars, moduleVars, linkVars, detect, captured, opened,
                 admitted, decided, twice, mainVars, waiting>>

\* The results of SetLED and CaptureFinger are not looked at.
ScanIgnore(s) ==
  /\ pc[s] \in {"led", "capture", "exit"}
  /\ \E r \in Possible : Receive(s, r)
  /\ Goto(s, CASE pc[s] = "led" -> "loop" [] pc[s] = "capture" -> "identify"
               [] OTHER -> "off")
  /\ UNCHANGED <<sensorVars, moduleVars, detect, captured, opened, admitted,
                 decided, twice, mainVars>>

\* Mutant: the latch is not cleared.
ScanPressUnlatched(s) ==
  /\ pc[s] = "press"
  /\ \E r \in Possible :
       /\ Receive(s, r)
       /\ Goto(s, IF Pressed(r) /\ detect[s] THEN "capture" ELSE "loop")
       /\ detect' = [detect EXCEPT ![s] = TRUE]
  /\ UNCHANGED <<sensorVars, moduleVars, captured, opened, admitted, decided,
                 twice, mainVars>>

\* Mutant: the latch is not armed again.
ScanPressOnce(s) ==
  /\ pc[s] = "press"
  /\ \E r \in Possible :
       /\ Receive(s, r)
       /\ Goto(s, IF Pressed(r) /\ detect[s] THEN "capture" ELSE "loop")
       /\ detect' = [detect EXCEPT ![s] = detect[s] /\ ~Pressed(r)]
  /\ UNCHANGED <<sensorVars, moduleVars, captured, opened, admitted, decided,
                 twice, mainVars>>

\* A press counts only after a turn without one; a release arms the latch.
ScanPress(s) ==
  /\ pc[s] = "press"
  /\ \E r \in Possible :
       /\ Receive(s, r)
       /\ IF Pressed(r)
          THEN /\ Goto(s, IF detect[s] THEN "capture" ELSE "loop")
               /\ detect' = [detect EXCEPT ![s] = FALSE]
          ELSE /\ Goto(s, "loop")
               /\ detect' = [detect EXCEPT ![s] = TRUE]
  /\ UNCHANGED <<sensorVars, moduleVars, captured, opened, admitted, decided,
                 twice, mainVars>>

\* An identifier below MAX_FGP_COUNT opens the door, any other is refused.
ScanIdentify(s) ==
  /\ pc[s] = "identify"
  /\ \E r \in Possible :
       LET id == Identified(r)
           n == captured[s].touch
       IN
       /\ Receive(s, r)
       /\ IF id < MAX_FGP_COUNT
          THEN /\ opened' = [opened EXCEPT ![s] = n]
               /\ twice' = IF opened[s] = n THEN twice \cup {n} ELSE twice
               /\ admitted' = admitted \cup
                    {[id |-> id, finger |-> captured[s].finger, touch |-> n]}
          ELSE UNCHANGED <<opened, admitted, twice>>
       /\ decided' = decided \cup {n}
  /\ Goto(s, "loop")
  /\ UNCHANGED <<sensorVars, moduleVars, detect, captured, mainVars>>

Scan(s) == \/ ScanSend(s) \/ CheckEnabled(s) \/ ScanIgnore(s)
           \/ ScanPress(s) \/ ScanIdentify(s)

(***************************************************************************)
(* The main thread.                                                        *)
(***************************************************************************)
\* SetEnabled(true): a new thread, whatever became of the one in the handle.
Enable ==
  \E s \in Scans :
    /\ pc[s] = "off"
    /\ enabled' = TRUE
    /\ handle' = s
    /\ pc' = [pc EXCEPT ![s] = "led"]
    /\ detect' = [detect EXCEPT ![s] = TRUE]
    /\ captured' = [captured EXCEPT ![s] = NoImage]
    /\ opened' = [opened EXCEPT ![s] = 0]

\* SetEnabled(false), up to pthread_join.
Disable == enabled' = FALSE /\ mpc' = "join"

Type(line) == mpc = "prompt" /\ line \in MainCommands

TypeStart ==
  /\ Type("start")
  /\ Disciplined => ~enabled
  /\ Enable
  /\ UNCHANGED <<sensorVars, moduleVars, linkVars, admitted, decided, twice,
                 mpc, todo, resume, waiting>>

TypeStop ==
  /\ Type("stop")
  /\ Disciplined => enabled
  /\ Disable
  /\ UNCHANGED <<sensorVars, moduleVars, linkVars, scanVars, handle, todo,
                 resume, waiting>>

\* "count" asks the module at once.
TypeCount ==
  /\ Type("count")
  /\ mpc' = "device"
  /\ todo' = <<"GetEnrollCount">>
  /\ UNCHANGED <<sensorVars, moduleVars, linkVars, scanVars, enabled, handle,
                 resume, waiting>>

\* "delete all fingerprints" stops the scan thread and does not restart it.
TypeWipe ==
  /\ Type("wipe")
  /\ Disciplined => enabled
  /\ Disable
  /\ todo' = <<"DeleteAll">>
  /\ UNCHANGED <<sensorVars, moduleVars, linkVars, scanVars, handle, resume,
                 waiting>>

\* Scanner::Dump stops the scan thread if it is enabled, and restarts it.  One
\* turn of its loop over the templates stands for all of them.
TypeDump ==
  /\ Type("dump")
  /\ todo' = <<"GetEnrollCount", "GetTemplate", "SetLED", "SetLED">>
  /\ IF enabled THEN Disable /\ resume' = TRUE
                ELSE mpc' = "device" /\ UNCHANGED <<enabled, resume>>
  /\ UNCHANGED <<sensorVars, moduleVars, linkVars, scanVars, handle, waiting>>

\* Mutant: nobody joins the thread.
JoinNobody ==
  /\ mpc = "join"
  /\ mpc' = "device"
  /\ UNCHANGED <<sensorVars, moduleVars, linkVars, scanVars, enabled, handle,
                 todo, resume, waiting>>

\* pthread_join waits for the thread in the handle and no other.
Join ==
  /\ mpc = "join"
  /\ pc[handle] = "off"
  /\ mpc' = "device"
  /\ UNCHANGED <<sensorVars, moduleVars, linkVars, scanVars, enabled, handle,
                 todo, resume, waiting>>

MainSend ==
  /\ mpc = "device" /\ todo # <<>>
  /\ Send(Main, Head(todo))
  /\ UNCHANGED <<sensorVars, moduleVars, scanVars, mainVars>>

MainReceive ==
  /\ mpc = "device" /\ todo # <<>>
  /\ \E r \in Possible : Receive(Main, r)
  /\ todo' = Tail(todo)
  /\ UNCHANGED <<sensorVars, moduleVars, scanVars, enabled, handle, mpc, resume>>

\* The end of a command.
Finish ==
  /\ mpc = "device" /\ todo = <<>>
  /\ mpc' = "prompt"
  /\ resume' = FALSE
  /\ IF resume THEN Enable
               ELSE UNCHANGED <<enabled, handle, pc, detect, captured, opened>>
  /\ UNCHANGED <<sensorVars, moduleVars, linkVars, admitted, decided, twice,
                 todo, waiting>>

Operator == TypeStart \/ TypeStop \/ TypeCount \/ TypeWipe \/ TypeDump
MainStep == Join \/ MainSend \/ MainReceive \/ Finish
Module == Answer \/ Lose
Next ==
  \/ Lift \/ \E f \in Fingers : Touch(f)
  \/ Module
  \/ \E s \in Scans : Scan(s)
  \/ Operator
  \/ MainStep

Spec == Init /\ [][Next]_vars

\* Threads that can run run, and the module deals with its commands.  People
\* and the operator are free.
FairSpec == /\ Spec
            /\ WF_vars(Module)
            /\ \A s \in Scans : WF_vars(Scan(s))
            /\ WF_vars(MainStep)

-----------------------------------------------------------------------------
Images == {NoImage} \cup [finger : Fingers, touch : 1..MaxTouches]
MainCalls == {"GetEnrollCount", "GetTemplate", "SetLED", "DeleteAll"}
ScanCalls == {"SetLED", "IsPressFinger", "CaptureFinger", "Identify1_N"}

TypeOK ==
  /\ finger \in Fingers \cup {NoFinger} /\ touch \in 0..MaxTouches
  /\ finger # NoFinger => touch > 0
  /\ templates \subseteq Enrolled
  /\ image \in Images
  /\ cmds \in Seq([from : Threads, cmd : MainCalls \cup ScanCalls])
  /\ replies \in Seq(Response)
  /\ enabled \in BOOLEAN /\ handle \in Scans
  /\ pc \in [Scans -> AtCall \cup {"off", "loop"}]
  /\ waiting \in [Threads -> BOOLEAN]
  /\ detect \in [Scans -> BOOLEAN] /\ captured \in [Scans -> Images]
  /\ opened \in [Scans -> 0..MaxTouches]
  /\ mpc \in {"prompt", "join", "device"} /\ resume \in BOOLEAN
  /\ todo \in Seq(MainCalls)

\* Whoever is let in has an enrolled finger, and is let in as the identifier
\* of the very finger that the thread's own CaptureFinger took (Identify1_N:
\* "Checks the currently pressed finger against all enrolled fingerprints").
AdmitsOnlyIdentified ==
  \A a \in admitted : a.finger \in Enrolled /\ a.id = TemplateId[a.finger]

\* "Checks the currently pressed finger against all enrolled fingerprints"
\* (Identify1_N, FPS_GT511Linux.cpp:678): a finger that is not enrolled opens
\* nothing.  The code breaks this when the main thread's count crosses with the
\* scan thread's calls: the answers are then out of step, and the scan thread takes
\* that of another command for an identifier.
StrangersStayOut == \A a \in admitted : a.finger \notin Fingers \ Enrolled

\* The latch works: however long a finger stays, a scan thread opens the door
\* for it once.  (A thread started while the finger stays opens it again.)
OneAdmissionPerTouch == twice = {}

\* SetEnabled(false) "wait[s] for thread to end": past the join, the command
\* the main thread runs has the module to itself.
StoppedMeansQuiet ==
  mpc = "device" /\ ~enabled =>
    /\ \A s \in Scans : pc[s] = "off"
    /\ \A i \in 1..Len(cmds) : cmds[i].from = Main

\* A finger that is put on the sensor of an armed scan loop and stays there
\* is decided about, and a sensor that stays empty arms the loop again, unless
\* the scanner is stopped meanwhile.
HeldFingerDecided ==
  /\ \A n \in 1..MaxTouches :
       (\E s \in Scans : /\ pc[s] \in {"loop", "press"} /\ detect[s]
                         /\ finger # NoFinger /\ touch = n)
         ~> (finger = NoFinger \/ touch # n \/ n \in decided \/ ~enabled)
  /\ \A s \in Scans :
       finger = NoFinger /\ pc[s] # "off"
         ~> (finger # NoFinger \/ detect[s] \/ ~enabled)

\* pthread_join returns: a stopped scan loop ends, answers or no answers.
StopReturns == mpc = "join" ~> mpc # "join"
=============================================================================
