---------------------------- MODULE ScanLoopProofs ----------------------------
(***************************************************************************)
(* Proofs about ScanLoop: its types, in every regime; and, for a module    *)
(* that answers every command and an operator who leaves it to the scan    *)
(* thread or stops that thread first, who is let in.                       *)
(***************************************************************************)
EXTENDS ScanLoop, SequenceTheorems, FiniteSetTheorems, TLAPS
-----------------------------------------------------------------------------
\* TypeOK in four parts, which are proved one by one.
SensorOK ==
  /\ finger \in Fingers \cup {NoFinger} /\ touch \in 0..MaxTouches
  /\ finger # NoFinger => touch > 0
  /\ templates \subseteq Enrolled
  /\ image \in Images
LinkOK ==
  /\ cmds \in Seq([from : Threads, cmd : MainCalls \cup ScanCalls])
  /\ replies \in Seq(Response)
  /\ waiting \in [Threads -> BOOLEAN]
ScanOK ==
  /\ pc \in [Scans -> AtCall \cup {"off", "loop"}]
  /\ detect \in [Scans -> BOOLEAN] /\ captured \in [Scans -> Images]
  /\ opened \in [Scans -> 0..MaxTouches]
MainOK ==
  /\ enabled \in BOOLEAN /\ handle \in Scans
  /\ mpc \in {"prompt", "join", "device"} /\ resume \in BOOLEAN
  /\ todo \in Seq(MainCalls)

\* The types hold when their four parts do.
LEMMA Parts == TypeOK <=> SensorOK /\ LinkOK /\ ScanOK /\ MainOK
BY DEF TypeOK, SensorOK, LinkOK, ScanOK, MainOK

\* The same after a step.
LEMMA PartsNext == TypeOK' <=> SensorOK' /\ LinkOK' /\ ScanOK' /\ MainOK'
BY DEF TypeOK, SensorOK, LinkOK, ScanOK, MainOK

\* Numbers of touches.
LEMMA TouchesAreNat ==
  /\ MaxTouches \in Nat /\ 0 \in 0..MaxTouches
  /\ NoImage.finger = NoFinger /\ NoImage.touch = 0
  /\ \A i \in Images : /\ i.touch \in 0..MaxTouches
                       /\ i.finger \in Fingers \cup {NoFinger}
                       /\ i.finger = NoFinger <=> i.touch = 0
BY ScanLoopAssumption DEF Images, NoImage

\* The commands of a scan thread and of the prompt.
LEMMA CallsAreCalls ==
  /\ \A l \in AtCall : CommandAt(l) \in ScanCalls
  /\ <<>> \in Seq(MainCalls)
  /\ <<"GetEnrollCount">> \in Seq(MainCalls) /\ <<"GetEnrollCount">> # <<>>
  /\ <<"DeleteAll">> \in Seq(MainCalls)
  /\ <<"GetEnrollCount", "GetTemplate", "SetLED", "SetLED">> \in Seq(MainCalls)
<1>1. \A l \in AtCall : CommandAt(l) \in ScanCalls
  BY DEF AtCall, CommandAt, ScanCalls
<1> QED
  BY <1>1 DEF MainCalls

\* What a caller may take for its answer is a response.
LEMMA PossibleIsResponse ==
  ASSUME LinkOK
  PROVE  Possible \subseteq Response
<1>1. Uninitialised \subseteq Response
  BY DEF Uninitialised, Response, Ack, Nack, NACK_IDENTIFY_FAILED, MAX_FGP_COUNT
<1>2. \A i \in 1..Len(replies) : replies[i] \in Response
  BY ElementOfSeq DEF LinkOK
<1> QED
  BY <1>1, <1>2 DEF Possible

\* The half of a driver call that sends the command keeps the types of the link.
LEMMA SendTypes ==
  ASSUME LinkOK, NEW t \in Threads, NEW c \in MainCalls \cup ScanCalls, Send(t, c)
  PROVE  LinkOK'
<1>1. [from |-> t, cmd |-> c] \in [from : Threads, cmd : MainCalls \cup ScanCalls]
  OBVIOUS
<1>2. cmds' \in Seq([from : Threads, cmd : MainCalls \cup ScanCalls])
  BY <1>1, AppendProperties DEF Send, LinkOK
<1> QED
  BY <1>2 DEF Send, LinkOK

\* So does the half that takes the response.
LEMMA ReceiveTypes ==
  ASSUME LinkOK, NEW t \in Threads, NEW r \in Possible, Receive(t, r)
  PROVE  LinkOK' /\ r \in Response
<1>1. replies # <<>> => Tail(replies) \in Seq(Response)
  BY HeadTailProperties DEF LinkOK
<1> QED
  BY <1>1, PossibleIsResponse DEF Receive, LinkOK

\* The module answers with a response, and captures what is there.
LEMMA AnswerTypes ==
  ASSUME TypeOK, NEW c
  PROVE  AnswerTo(c) \in Response
<1>1. image.finger \in templates => TemplateId[image.finger] \in 0..(MAX_FGP_COUNT - 1)
  BY ScanLoopAssumption, Parts DEF SensorOK
<1>2. Cardinality(templates) \in 0..MAX_FGP_COUNT
  <2>1. /\ IsFiniteSet(templates)
        /\ Cardinality(templates) <= Cardinality(Enrolled)
    BY ScanLoopAssumption, FS_Subset, Parts DEF SensorOK
  <2>2. Cardinality(templates) \in Nat /\ Cardinality(Enrolled) \in Nat
    BY <2>1, ScanLoopAssumption, FS_CardinalityType
  <2> QED
    BY <2>1, <2>2, ScanLoopAssumption DEF MAX_FGP_COUNT
<1> QED
  BY <1>1, <1>2 DEF AnswerTo, Response, Ack, Nack, MAX_FGP_COUNT

\* A step of the finger or the module keeps the types.
LEMMA ModuleTypes ==
  ASSUME TypeOK, Lift \/ (\E f \in Fingers : Touch(f)) \/ Module
  PROVE  TypeOK'
<1> USE ScanLoopAssumption DEF sensorVars, moduleVars, linkVars, scanVars, mainVars
<1>1. CASE Lift
  <2> USE DEF Lift
  <2>1. SensorOK'
    BY <1>1, Parts DEF SensorOK
  <2>2. LinkOK'
    BY <1>1, Parts DEF LinkOK
  <2>3. ScanOK'
    BY <1>1, Parts DEF ScanOK
  <2>4. MainOK'
    BY <1>1, Parts DEF MainOK
  <2> QED
    BY ONLY <2>1, <2>2, <2>3, <2>4, PartsNext
<1>2. CASE \E f \in Fingers : Touch(f)
  <2> USE DEF Touch
  <2>1. SensorOK'
    BY <1>2, Parts DEF SensorOK
  <2>2. LinkOK'
    BY <1>2, Parts DEF LinkOK
  <2>3. ScanOK'
    BY <1>2, Parts DEF ScanOK
  <2>4. MainOK'
    BY <1>2, Parts DEF MainOK
  <2> QED
    BY ONLY <2>1, <2>2, <2>3, <2>4, PartsNext
<1>3. CASE Answer
  <2> DEFINE c == Head(cmds)
  <2>1. c \in [from : Threads, cmd : MainCalls \cup ScanCalls]
        /\ Tail(cmds) \in Seq([from : Threads, cmd : MainCalls \cup ScanCalls])
    BY <1>3, HeadTailProperties, Parts DEF Answer, LinkOK
  <2>2. image' \in Images
    <3>1. finger # NoFinger => [finger |-> finger, touch |-> touch] \in Images
      BY Parts DEF SensorOK, Images
    <3>2. NoImage \in Images /\ image \in Images
      BY Parts DEF SensorOK, Images
    <3> QED
      BY <1>3, <3>1, <3>2 DEF Answer, Work
  <2>3. SensorOK'
    BY <1>3, <2>2, Parts DEF Answer, Work, SensorOK
  <2>4. LinkOK'
    BY <1>3, <2>1, AnswerTypes, AppendProperties, Parts DEF Answer, LinkOK
  <2>5. ScanOK'
    BY <1>3, <2>1, <2>2, Parts DEF Answer, Work, ScanOK
  <2>6. MainOK'
    BY <1>3, Parts DEF Answer, MainOK
  <2> QED
    BY ONLY <2>3, <2>4, <2>5, <2>6, PartsNext
<1>4. CASE Lose
  <2> USE DEF Lose
  <2>1. SensorOK'
    BY <1>4, Parts DEF SensorOK
  <2>2. LinkOK'
    BY <1>4, Parts, HeadTailProperties DEF LinkOK
  <2>3. ScanOK'
    BY <1>4, Parts DEF ScanOK
  <2>4. MainOK'
    BY <1>4, Parts DEF MainOK
  <2> QED
    BY ONLY <2>1, <2>2, <2>3, <2>4, PartsNext
<1> QED
  BY <1>1, <1>2, <1>3, <1>4 DEF Module

\* A step of a scan thread keeps the types.
LEMMA ScanTypes ==
  ASSUME TypeOK, NEW s \in Scans, Scan(s)
  PROVE  TypeOK'
<1> USE ScanLoopAssumption DEF sensorVars, moduleVars, linkVars, scanVars, mainVars, Goto
<1>threads. s \in Threads
  BY DEF Threads
<1>1. CASE ScanSend(s)
  <2> USE DEF ScanSend
  <2>1. SensorOK'
    BY <1>1, Parts DEF SensorOK
  <2>2. LinkOK'
    BY <1>1, Parts, SendTypes, CallsAreCalls, <1>threads DEF LinkOK
  <2>3. ScanOK'
    BY <1>1, Parts DEF ScanOK
  <2>4. MainOK'
    BY <1>1, Parts DEF MainOK
  <2> QED
    BY ONLY <2>1, <2>2, <2>3, <2>4, PartsNext
<1>2. CASE CheckEnabled(s)
  <2> USE DEF CheckEnabled, AtCall
  <2>1. SensorOK'
    BY <1>2, Parts DEF SensorOK
  <2>2. LinkOK'
    BY <1>2, Parts DEF LinkOK
  <2>3. ScanOK'
    BY <1>2, Parts DEF ScanOK
  <2>4. MainOK'
    BY <1>2, Parts DEF MainOK
  <2> QED
    BY ONLY <2>1, <2>2, <2>3, <2>4, PartsNext
<1>3. CASE ScanIgnore(s)
  <2> USE DEF ScanIgnore, AtCall
  <2>1. SensorOK'
    BY <1>3, Parts DEF SensorOK
  <2>2. LinkOK'
    BY <1>3, Parts, ReceiveTypes, <1>threads DEF LinkOK
  <2>3. ScanOK'
    BY <1>3, Parts DEF ScanOK
  <2>4. MainOK'
    BY <1>3, Parts DEF MainOK
  <2> QED
    BY ONLY <2>1, <2>2, <2>3, <2>4, PartsNext
<1>4. CASE ScanPress(s)
  <2> USE DEF ScanPress, AtCall
  <2>1. SensorOK'
    BY <1>4, Parts DEF SensorOK
  <2>2. LinkOK'
    BY <1>4, Parts, ReceiveTypes, <1>threads DEF LinkOK
  <2>3. ScanOK'
    BY <1>4, Parts DEF ScanOK
  <2>4. MainOK'
    BY <1>4, Parts DEF MainOK
  <2> QED
    BY ONLY <2>1, <2>2, <2>3, <2>4, PartsNext
<1>5. CASE ScanIdentify(s)
  <2>1. SensorOK'
    BY <1>5, Parts DEF ScanIdentify, SensorOK
  <2>2. LinkOK'
    BY <1>5, Parts, ReceiveTypes, <1>threads DEF ScanIdentify
  <2>3. ScanOK'
    <3>1. captured[s].touch \in 0..MaxTouches
      BY TouchesAreNat, Parts DEF ScanOK
    <3>2. pc' = [pc EXCEPT ![s] = "loop"] /\ UNCHANGED <<detect, captured>>
      BY <1>5 DEF ScanIdentify
    <3>3. opened' = opened \/ opened' = [opened EXCEPT ![s] = captured[s].touch]
      BY <1>5 DEF ScanIdentify
    <3> QED
      BY <3>1, <3>2, <3>3, Parts DEF ScanOK, AtCall
  <2>4. MainOK'
    BY <1>5, Parts DEF ScanIdentify, MainOK
  <2> QED
    BY ONLY <2>1, <2>2, <2>3, <2>4, PartsNext
<1> QED
  BY <1>1, <1>2, <1>3, <1>4, <1>5 DEF Scan

\* A new scan thread is as init's was.
LEMMA EnableTypes ==
  ASSUME ScanOK, Enable
  PROVE  ScanOK' /\ enabled' \in BOOLEAN /\ handle' \in Scans
<1>1. NoImage \in Images /\ 0 \in 0..MaxTouches
  BY ScanLoopAssumption DEF Images
<1> QED
  BY <1>1 DEF Enable, ScanOK, AtCall

\* A step of the operator or the main thread keeps the types.
LEMMA MainTypes ==
  ASSUME TypeOK, Operator \/ MainStep
  PROVE  TypeOK'
<1> USE DEF sensorVars, moduleVars, linkVars, scanVars, mainVars, Type, Disable
<1>threads. Main \in Threads
  BY DEF Threads
<1>1. CASE TypeStart
  <2> USE DEF TypeStart
  <2>1. SensorOK'
    BY <1>1, Parts DEF SensorOK
  <2>2. LinkOK'
    BY <1>1, Parts DEF LinkOK
  <2>3. ScanOK'
    BY <1>1, Parts, EnableTypes DEF ScanOK
  <2>4. MainOK'
    BY <1>1, Parts, EnableTypes DEF MainOK
  <2> QED
    BY ONLY <2>1, <2>2, <2>3, <2>4, PartsNext
<1>2. CASE TypeStop
  <2> USE DEF TypeStop
  <2>1. SensorOK'
    BY <1>2, Parts DEF SensorOK
  <2>2. LinkOK'
    BY <1>2, Parts DEF LinkOK
  <2>3. ScanOK'
    BY <1>2, Parts DEF ScanOK
  <2>4. MainOK'
    BY <1>2, Parts DEF MainOK
  <2> QED
    BY ONLY <2>1, <2>2, <2>3, <2>4, PartsNext
<1>3. CASE TypeCount
  <2> USE DEF TypeCount
  <2>1. SensorOK'
    BY <1>3, Parts DEF SensorOK
  <2>2. LinkOK'
    BY <1>3, Parts DEF LinkOK
  <2>3. ScanOK'
    BY <1>3, Parts DEF ScanOK
  <2>4. MainOK'
    BY <1>3, Parts, CallsAreCalls DEF MainOK
  <2> QED
    BY ONLY <2>1, <2>2, <2>3, <2>4, PartsNext
<1>4. CASE TypeWipe
  <2> USE DEF TypeWipe
  <2>1. SensorOK'
    BY <1>4, Parts DEF SensorOK
  <2>2. LinkOK'
    BY <1>4, Parts DEF LinkOK
  <2>3. ScanOK'
    BY <1>4, Parts DEF ScanOK
  <2>4. MainOK'
    BY <1>4, Parts, CallsAreCalls DEF MainOK
  <2> QED
    BY ONLY <2>1, <2>2, <2>3, <2>4, PartsNext
<1>5. CASE TypeDump
  <2> USE DEF TypeDump
  <2>1. SensorOK'
    BY <1>5, Parts DEF SensorOK
  <2>2. LinkOK'
    BY <1>5, Parts DEF LinkOK
  <2>3. ScanOK'
    BY <1>5, Parts DEF ScanOK
  <2>4. MainOK'
    BY <1>5, Parts, CallsAreCalls DEF MainOK
  <2> QED
    BY ONLY <2>1, <2>2, <2>3, <2>4, PartsNext
<1>6. CASE Join
  <2> USE DEF Join
  <2>1. SensorOK'
    BY <1>6, Parts DEF SensorOK
  <2>2. LinkOK'
    BY <1>6, Parts DEF LinkOK
  <2>3. ScanOK'
    BY <1>6, Parts DEF ScanOK
  <2>4. MainOK'
    BY <1>6, Parts DEF MainOK
  <2> QED
    BY ONLY <2>1, <2>2, <2>3, <2>4, PartsNext
<1>7. CASE MainSend
  <2> USE DEF MainSend
  <2>0. Head(todo) \in MainCalls \cup ScanCalls
    BY <1>7, Parts, HeadTailProperties DEF MainOK
  <2>1. SensorOK'
    BY <1>7, Parts DEF SensorOK
  <2>2. LinkOK'
    BY <1>7, Parts, <2>0, SendTypes, <1>threads DEF LinkOK
  <2>3. ScanOK'
    BY <1>7, Parts DEF ScanOK
  <2>4. MainOK'
    BY <1>7, Parts DEF MainOK
  <2> QED
    BY ONLY <2>1, <2>2, <2>3, <2>4, PartsNext
<1>8. CASE MainReceive
  <2> USE DEF MainReceive
  <2>1. SensorOK'
    BY <1>8, Parts DEF SensorOK
  <2>2. LinkOK'
    BY <1>8, Parts, ReceiveTypes, <1>threads DEF LinkOK
  <2>3. ScanOK'
    BY <1>8, Parts DEF ScanOK
  <2>4. MainOK'
    BY <1>8, Parts, HeadTailProperties DEF MainOK
  <2> QED
    BY ONLY <2>1, <2>2, <2>3, <2>4, PartsNext
<1>9. CASE Finish
  <2> USE DEF Finish
  <2>1. SensorOK'
    BY <1>9, Parts DEF SensorOK
  <2>2. LinkOK'
    BY <1>9, Parts DEF LinkOK
  <2>3. ScanOK'
    BY <1>9, Parts, EnableTypes DEF ScanOK
  <2>4. MainOK'
    BY <1>9, Parts, EnableTypes DEF MainOK
  <2> QED
    BY ONLY <2>1, <2>2, <2>3, <2>4, PartsNext
<1> QED
  BY <1>1, <1>2, <1>3, <1>4, <1>5, <1>6, <1>7, <1>8, <1>9 DEF Operator, MainStep

\* The types hold at first ...
LEMMA InitTypes == Init => TypeOK
<1> SUFFICES ASSUME Init PROVE TypeOK
  OBVIOUS
<1> USE ScanLoopAssumption DEF Init
<1>1. SensorOK
  BY DEF SensorOK, Images
<1>2. LinkOK
  BY DEF LinkOK
<1>3. ScanOK
  <2>1. NoImage \in Images /\ 0 \in 0..MaxTouches
    BY DEF Images
  <2>2. pc \in [Scans -> AtCall \cup {"off", "loop"}]
    BY DEF AtCall
  <2> QED
    BY <2>1, <2>2 DEF ScanOK
<1>4. MainOK
  BY CallsAreCalls DEF MainOK
<1> QED
  BY ONLY <1>1, <1>2, <1>3, <1>4, Parts

\* ... and every step keeps them.
LEMMA TypeStep == TypeOK /\ [Next]_vars => TypeOK'
<1> SUFFICES ASSUME TypeOK, [Next]_vars PROVE TypeOK'
  OBVIOUS
<1>1. CASE UNCHANGED vars
  BY <1>1 DEF vars, sensorVars, moduleVars, linkVars, scanVars, mainVars, TypeOK, Possible
<1> QED
  BY <1>1, ModuleTypes, ScanTypes, MainTypes DEF Next

\* The types hold in every regime, with a lossy module and a careless operator.
THEOREM TypeCorrect == Spec => []TypeOK
BY InitTypes, TypeStep, PTL DEF Spec
-----------------------------------------------------------------------------
\* One thread at a time talks to the module, and gets an answer: no "count"
\* during a scan, no start of what runs, no stop of what does not, no loss.
Calm == Disciplined /\ ~Lossy /\ "count" \notin MainCommands

\* The thread in the handle is the only one, none outlives a join, and the
\* main thread has a command for the module only while the scanner is stopped.
OneActive ==
  /\ \A s \in Scans : pc[s] # "off" => s = handle
  /\ ~enabled /\ mpc # "join" => \A s \in Scans : pc[s] = "off"
  /\ mpc # "prompt" => ~enabled

\* Who waits is in a call...
Waits ==
  /\ \A s \in Scans : waiting[s] => pc[s] \in AtCall
  /\ waiting[Main] => mpc = "device" /\ todo # <<>>

CallOf(t) == IF t = Main THEN Head(todo) ELSE CommandAt(pc[t])

\* ... and its command, or the answer to it, is all there is on the link.
Exchange ==
  /\ (\A t \in Threads : ~waiting[t]) => cmds = <<>> /\ replies = <<>>
  /\ \A t \in Threads : waiting[t] =>
       \/ cmds = <<[from |-> t, cmd |-> CallOf(t)]>> /\ replies = <<>>
       \/ cmds = <<>> /\ Len(replies) = 1

\* Nobody touches the sensor, or in a touch s has not opened the door for.
Armed(s) == finger = NoFinger \/ opened[s] < touch

\* The image is the one s took, of nothing or of a touch s has not opened for.
Taken(s) ==
  /\ captured[s] = image
  /\ image.finger # NoFinger => opened[s] < image.touch

Answered(t) == waiting[t] /\ replies # <<>>

\* What the state of a scan thread's turn says of the finger.
Turn(s) ==
  /\ opened[s] <= touch
  /\ detect[s] => Armed(s) /\ pc[s] \notin {"capture", "identify"}
  /\ pc[s] = "press" /\ Answered(s) /\ ~Pressed(replies[1]) => Armed(s)
  /\ pc[s] = "capture" => IF Answered(s) THEN Taken(s) ELSE Armed(s)
  /\ pc[s] = "identify" => Taken(s)
  /\ pc[s] = "identify" /\ Answered(s) /\ Identified(replies[1]) < MAX_FGP_COUNT =>
       image.finger \in Enrolled /\ replies[1].param = TemplateId[image.finger]

Sensor == image.touch <= touch

IInv ==
  /\ TypeOK /\ OneActive /\ Waits /\ Exchange /\ Sensor
  /\ \A s \in Scans : Turn(s)
  /\ AdmitsOnlyIdentified /\ OneAdmissionPerTouch
-----------------------------------------------------------------------------
\* While a scan thread runs, or the main thread has a command for the module,
\* nobody else waits for an answer.
LEMMA NobodyElseWaits ==
  ASSUME TypeOK, OneActive, Waits
  PROVE  /\ \A s \in Scans : pc[s] # "off" => \A t \in Threads : waiting[t] => t = s
         /\ mpc = "device" => \A t \in Threads : waiting[t] => t = Main
<1>1. \A s \in Scans : waiting[s] => pc[s] # "off"
  BY DEF Waits, AtCall
<1>2. \A t \in Threads : t \in Scans \/ t = Main
  BY DEF Threads
<1> QED
  BY <1>1, <1>2 DEF OneActive, Waits

\* A command is the only one on the link.
LEMMA SendAlone ==
  ASSUME TypeOK, Exchange, NEW t \in Threads, NEW c, Send(t, c),
         \A u \in Threads : waiting[u] => u = t
  PROVE  /\ \A u \in Threads : waiting'[u] <=> u = t
         /\ cmds' = <<[from |-> t, cmd |-> c]>> /\ replies' = <<>>
<1>1. waiting \in [Threads -> BOOLEAN] /\ waiting' = [waiting EXCEPT ![t] = TRUE]
  BY Parts DEF Send, LinkOK
<1>2. ~waiting[t]
  BY DEF Send
<1>3. cmds = <<>> /\ replies = <<>>
  BY <1>2 DEF Exchange
<1>4. Append(<<>>, [from |-> t, cmd |-> c]) = <<[from |-> t, cmd |-> c]>>
  OBVIOUS
<1>5. cmds' = <<[from |-> t, cmd |-> c]>> /\ replies' = <<>>
  BY <1>3, <1>4 DEF Send
<1>6. \A u \in Threads : waiting'[u] <=> u = t
  BY <1>1, <1>2
<1> QED
  BY <1>5, <1>6

\* A caller takes the one answer, and leaves the link empty.
LEMMA ReceiveAlone ==
  ASSUME TypeOK, Calm, Exchange, NEW t \in Threads, NEW r, Receive(t, r),
         \A u \in Threads : waiting[u] => u = t
  PROVE  /\ Answered(t) /\ r = replies[1]
         /\ \A u \in Threads : ~waiting'[u]
         /\ cmds' = <<>> /\ replies' = <<>>
<1>1. waiting[t] /\ replies # <<>> /\ r = Head(replies) /\ replies' = Tail(replies)
  BY DEF Receive, Calm
<1>2. cmds = <<>> /\ Len(replies) = 1
  BY <1>1 DEF Exchange
<1>3. replies \in Seq(Response)
  BY Parts DEF LinkOK
<1>4. Tail(replies) = <<>> /\ Head(replies) = replies[1]
  <2>1. Tail(replies) \in Seq(Response) /\ Len(Tail(replies)) = 0
    BY <1>1, <1>2, <1>3, HeadTailProperties
  <2>2. Tail(replies) = <<>>
    BY <2>1, EmptySeq
  <2> QED
    BY <2>2, <1>1, <1>3, HeadTailProperties
<1>5. cmds' = <<>> /\ waiting' = [waiting EXCEPT ![t] = FALSE]
  BY <1>2 DEF Receive
<1>6. \A u \in Threads : ~waiting'[u]
  BY <1>5, Parts DEF LinkOK
<1> QED
  BY <1>1, <1>4, <1>5, <1>6 DEF Answered

\* The module answers the one who waits.
LEMMA AnswerAlone ==
  ASSUME TypeOK, Exchange, Answer
  PROVE  \E t \in Threads :
           /\ waiting[t] /\ Head(cmds) = [from |-> t, cmd |-> CallOf(t)]
           /\ replies = <<>> /\ cmds' = <<>>
           /\ replies' = <<AnswerTo(CallOf(t))>>
<1>1. cmds # <<>>
  BY DEF Answer
<1>2. PICK t \in Threads : waiting[t]
  BY <1>1 DEF Exchange
<1>3. cmds = <<[from |-> t, cmd |-> CallOf(t)]>> /\ replies = <<>>
  BY <1>1, <1>2 DEF Exchange
<1> QED
  BY <1>2, <1>3 DEF Answer
-----------------------------------------------------------------------------
\* Every step leaves one thread active, in the handle, and none past a join.
LEMMA OneActiveStep ==
  ASSUME TypeOK, Calm, OneActive, [Next]_vars
  PROVE  OneActive'
<1> USE DEF OneActive, scanVars, mainVars
<1>1. CASE Lift \/ (\E f \in Fingers : Touch(f)) \/ Module
  BY <1>1 DEF Lift, Touch, Module, Answer, Lose
<1>2. ASSUME NEW s \in Scans, Scan(s) PROVE OneActive'
  <2>1. pc[s] # "off" /\ UNCHANGED <<enabled, handle, mpc>>
    BY <1>2 DEF Scan, ScanSend, CheckEnabled, ScanIgnore, ScanPress, ScanIdentify, AtCall
  <2>2. \A u \in Scans : u # s => pc'[u] = pc[u]
    BY <1>2, Parts DEF Scan, ScanSend, CheckEnabled, ScanIgnore, ScanPress, ScanIdentify,
                       Goto, ScanOK
  <2> QED
    BY <2>1, <2>2
<1>3. ASSUME Enable, ~enabled, mpc # "join", mpc' = "prompt" PROVE OneActive'
  BY <1>3, Parts DEF Enable, ScanOK
<1>4. CASE Operator
  <2>1. CASE TypeStart
    BY <1>3, <2>1 DEF TypeStart, Type, Calm
  <2>2. CASE TypeStop \/ TypeCount \/ TypeWipe \/ TypeDump
    BY <2>2 DEF TypeStop, TypeCount, TypeWipe, TypeDump, Type, Disable, Calm
  <2> QED
    BY <1>4, <2>1, <2>2 DEF Operator
<1>5. CASE MainStep
  <2>1. CASE Join \/ MainSend \/ MainReceive
    BY <2>1 DEF Join, MainSend, MainReceive
  <2>2. CASE Finish
    BY <1>3, <2>2 DEF Finish
  <2> QED
    BY <1>5, <2>1, <2>2 DEF MainStep
<1>6. CASE UNCHANGED vars
  BY <1>6 DEF vars
<1> QED
  BY <1>1, <1>2, <1>4, <1>5, <1>6 DEF Next

\* Every step leaves those who wait in their calls.
LEMMA WaitsStep ==
  ASSUME TypeOK, Calm, OneActive, Waits, Exchange, [Next]_vars
  PROVE  Waits'
<1> USE DEF Waits, scanVars, mainVars
<1>threads. \A t : t \in Threads <=> t \in Scans \/ t = Main
  BY DEF Threads
<1>1. CASE Lift \/ (\E f \in Fingers : Touch(f)) \/ Module
  BY <1>1 DEF Lift, Touch, Module, Answer, Lose
<1>2. ASSUME NEW s \in Scans, Scan(s) PROVE Waits'
  <2>1. pc[s] # "off" /\ UNCHANGED <<mpc, todo>>
    BY <1>2 DEF Scan, ScanSend, CheckEnabled, ScanIgnore, ScanPress, ScanIdentify, AtCall
  <2>2. \A t \in Threads : waiting[t] => t = s
    BY <2>1, NobodyElseWaits
  <2>3. CASE ScanSend(s)
    <3>1. Send(s, CommandAt(pc[s])) /\ pc[s] \in AtCall /\ UNCHANGED pc
      BY <2>3 DEF ScanSend
    <3>2. \A t \in Threads : waiting'[t] <=> t = s
      BY <2>2, <3>1, <1>threads, SendAlone
    <3>3. s # Main
      BY ScanLoopAssumption
    <3> QED
      BY <3>1, <3>2, <3>3, <1>threads
  <2>4. CASE CheckEnabled(s)
    <3>1. ~waiting[s]
      BY <2>4 DEF CheckEnabled, AtCall
    <3> QED
      BY <2>2, <2>4, <3>1, <1>threads DEF CheckEnabled
  <2>5. CASE ScanIgnore(s) \/ ScanPress(s) \/ ScanIdentify(s)
    <3>1. PICK r : Receive(s, r)
      BY <2>5 DEF ScanIgnore, ScanPress, ScanIdentify
    <3> QED
      BY <2>2, <3>1, <1>threads, ReceiveAlone
  <2> QED
    BY <1>2, <2>3, <2>4, <2>5 DEF Scan
<1>3. ASSUME Enable, UNCHANGED <<waiting, todo>>, ~waiting[Main] PROVE Waits'
  BY <1>3, Parts DEF Enable, ScanOK, AtCall
<1>4. CASE Operator
  <2>1. mpc = "prompt"
    BY <1>4 DEF Operator, TypeStart, TypeStop, TypeCount, TypeWipe, TypeDump, Type
  <2>2. CASE TypeStart
    BY <1>3, <2>1, <2>2 DEF TypeStart
  <2>3. CASE TypeStop \/ TypeCount \/ TypeWipe \/ TypeDump
    BY <2>1, <2>3 DEF TypeStop, TypeCount, TypeWipe, TypeDump
  <2> QED
    BY <1>4, <2>2, <2>3 DEF Operator
<1>5. CASE MainStep
  <2>1. CASE Join
    BY <2>1 DEF Join
  <2>2. CASE MainSend \/ MainReceive
    <3>1. \A t \in Threads : waiting[t] => t = Main
      BY <2>2, NobodyElseWaits DEF MainSend, MainReceive
    <3>2. CASE MainSend
      BY <3>1, <3>2, <1>threads, SendAlone, ScanLoopAssumption DEF MainSend
    <3>3. CASE MainReceive
      <4>1. PICK r : Receive(Main, r)
        BY <3>3 DEF MainReceive
      <4> QED
        BY <3>1, <4>1, <1>threads, ReceiveAlone
    <3> QED
      BY <2>2, <3>2, <3>3
  <2>3. CASE Finish
    BY <1>3, <2>3 DEF Finish
  <2> QED
    BY <1>5, <2>1, <2>2, <2>3 DEF MainStep
<1>6. CASE UNCHANGED vars
  BY <1>6 DEF vars
<1> QED
  BY <1>1, <1>2, <1>4, <1>5, <1>6 DEF Next
-----------------------------------------------------------------------------
\* After a command of one thread there is that command on the link...
LEMMA ExchangeAfterSend ==
  ASSUME TypeOK, Exchange, NEW t \in Threads, NEW c, Send(t, c), c = CallOf(t),
         CallOf(t)' = CallOf(t), \A u \in Threads : waiting[u] => u = t
  PROVE  Exchange'
<1>1. /\ \A u \in Threads : waiting'[u] <=> u = t
      /\ cmds' = <<[from |-> t, cmd |-> c]>> /\ replies' = <<>>
  BY SendAlone
<1>2. cmds' = <<[from |-> t, cmd |-> CallOf(t)']>>
  BY <1>1
<1> QED
  BY <1>1, <1>2 DEF Exchange

\* ... and after its return nothing.
LEMMA ExchangeAfterReceive ==
  ASSUME TypeOK, Calm, Exchange, NEW t \in Threads, NEW r, Receive(t, r),
         \A u \in Threads : waiting[u] => u = t
  PROVE  Exchange'
<1>1. /\ \A u \in Threads : ~waiting'[u]
      /\ cmds' = <<>> /\ replies' = <<>>
  BY ReceiveAlone
<1> QED
  BY <1>1 DEF Exchange

\* Who waits goes on waiting for the same call.
LEMMA ExchangeKept ==
  ASSUME Exchange, UNCHANGED <<cmds, replies, waiting>>,
         \A t \in Threads : waiting[t] => CallOf(t)' = CallOf(t)
  PROVE  Exchange'
BY DEF Exchange

\* Every step leaves at most one exchange on the link.
LEMMA ExchangeStep ==
  ASSUME TypeOK, Calm, OneActive, Waits, Exchange, [Next]_vars
  PROVE  Exchange'
<1> USE DEF scanVars, mainVars, linkVars
<1>threads. \A t : t \in Threads <=> t \in Scans \/ t = Main
  BY DEF Threads
<1>names. Main \notin Scans
  BY ScanLoopAssumption
<1>1. ASSUME UNCHANGED <<cmds, replies, waiting, pc, todo>> PROVE Exchange'
  BY <1>1, ExchangeKept DEF CallOf
<1>2. CASE Lift \/ (\E f \in Fingers : Touch(f))
  BY <1>1, <1>2 DEF Lift, Touch
<1>3. CASE Module
  <2>1. Answer
    BY <1>3 DEF Module, Lose, Calm
  <2>2. UNCHANGED <<waiting, pc, todo>>
    BY <2>1 DEF Answer
  <2>3. PICK t \in Threads : /\ waiting[t] /\ cmds' = <<>>
                             /\ replies' = <<AnswerTo(CallOf(t))>>
    BY <2>1, AnswerAlone
  <2>4. Len(replies') = 1
    BY <2>3
  <2> QED
    BY <2>2, <2>3, <2>4 DEF Exchange
<1>4. ASSUME NEW s \in Scans, Scan(s) PROVE Exchange'
  <2>1. pc[s] # "off"
    BY <1>4 DEF Scan, ScanSend, CheckEnabled, ScanIgnore, ScanPress, ScanIdentify, AtCall
  <2>2. \A t \in Threads : waiting[t] => t = s
    BY <2>1, NobodyElseWaits
  <2>3. CASE ScanSend(s)
    <3>1. Send(s, CommandAt(pc[s])) /\ UNCHANGED pc
      BY <2>3 DEF ScanSend
    <3>2. CommandAt(pc[s]) = CallOf(s) /\ CallOf(s)' = CallOf(s)
      BY <3>1, <1>names DEF CallOf
    <3> QED
      BY <2>2, <3>1, <3>2, <1>threads, ExchangeAfterSend
  <2>4. CASE CheckEnabled(s)
    <3>1. \A t \in Threads : ~waiting[t]
      BY <2>2, <2>4 DEF CheckEnabled, Waits, AtCall
    <3> QED
      BY <2>4, <3>1, ExchangeKept DEF CheckEnabled
  <2>5. CASE ScanIgnore(s) \/ ScanPress(s) \/ ScanIdentify(s)
    <3>1. PICK r : Receive(s, r)
      BY <2>5 DEF ScanIgnore, ScanPress, ScanIdentify
    <3> QED
      BY <2>2, <3>1, <1>threads, ExchangeAfterReceive
  <2> QED
    BY <1>4, <2>3, <2>4, <2>5 DEF Scan
<1>5. ASSUME Enable, UNCHANGED <<cmds, replies, waiting, todo>>
      PROVE  Exchange'
  <2>1. PICK s \in Scans : pc[s] = "off" /\ pc' = [pc EXCEPT ![s] = "led"]
    BY <1>5 DEF Enable
  <2>2. ~waiting[s]
    BY <2>1 DEF Waits, AtCall
  <2>3. \A t \in Threads : waiting[t] => CallOf(t)' = CallOf(t)
    BY <1>5, <2>1, <2>2, <1>threads, Parts DEF CallOf, ScanOK
  <2> QED
    BY <1>5, <2>3, ExchangeKept
<1>6. ASSUME mpc = "prompt", UNCHANGED <<cmds, replies, waiting, pc>>
      PROVE  Exchange'
  <2>1. \A t \in Threads : waiting[t] => CallOf(t)' = CallOf(t)
    BY <1>6, <1>threads DEF CallOf, Waits
  <2> QED
    BY <1>6, <2>1, ExchangeKept
<1>7. CASE Operator
  <2>1. CASE TypeStart
    BY <1>5, <2>1 DEF TypeStart
  <2>2. CASE TypeStop \/ TypeCount \/ TypeWipe \/ TypeDump
    BY <1>6, <2>2 DEF TypeStop, TypeCount, TypeWipe, TypeDump, Type
  <2> QED
    BY <1>7, <2>1, <2>2 DEF Operator
<1>8. CASE MainStep
  <2>1. CASE Join
    BY <1>1, <2>1 DEF Join
  <2>2. ASSUME MainSend \/ MainReceive
        PROVE  /\ Main \in Threads
               /\ \A t \in Threads : waiting[t] => t = Main
    BY <2>2, <1>threads, NobodyElseWaits DEF MainSend, MainReceive
  <2>3. CASE MainSend
    <3>1. Send(Main, Head(todo)) /\ UNCHANGED todo
      BY <2>3 DEF MainSend
    <3>2. Head(todo) = CallOf(Main) /\ CallOf(Main)' = CallOf(Main)
      BY <3>1 DEF CallOf
    <3> QED
      BY <2>2, <2>3, <3>1, <3>2, ExchangeAfterSend
  <2>4. CASE MainReceive
    <3>1. PICK r : Receive(Main, r)
      BY <2>4 DEF MainReceive
    <3> QED
      BY <2>2, <2>4, <3>1, ExchangeAfterReceive
  <2>5. CASE Finish
    BY <1>5, <1>1, <2>5 DEF Finish
  <2> QED
    BY <1>8, <2>1, <2>3, <2>4, <2>5 DEF MainStep
<1>9. CASE UNCHANGED vars
  BY <1>1, <1>9 DEF vars
<1> QED
  BY <1>2, <1>3, <1>4, <1>7, <1>8, <1>9 DEF Next
-----------------------------------------------------------------------------
\* A thread that does not run keeps its turn while its own state stays.
LEMMA TurnOff ==
  ASSUME NEW s \in Scans, Turn(s), pc[s] = "off", pc'[s] = "off",
         detect'[s] = detect[s], opened'[s] = opened[s],
         UNCHANGED <<finger, touch>>
  PROVE  Turn(s)'
BY DEF Turn, Armed

\* So does one nobody answers while the sensor stays as it is.
LEMMA TurnKept ==
  ASSUME NEW s \in Scans, Turn(s),
         UNCHANGED <<finger, touch, image, replies, waiting, pc, detect, captured, opened>>
  PROVE  Turn(s)'
BY DEF Turn, Armed, Taken, Answered

\* What the sensor and the module do keeps every thread's turn: a press is
\* denied of an empty sensor, an image is of the finger that is there.
LEMMA TurnAnswer ==
  ASSUME IInv, Answer, NEW s \in Scans
  PROVE  Turn(s)'
<1> USE DEF Turn
<1>1. /\ finger \in Fingers \cup {NoFinger} /\ touch \in Nat /\ image \in Images
      /\ templates \subseteq Enrolled /\ Enrolled \subseteq Fingers
      /\ captured \in [Scans -> Images] /\ opened \in [Scans -> Nat]
      /\ TemplateId \in [Fingers -> 0..(MAX_FGP_COUNT - 1)]
      /\ NoFinger \notin Fingers
  BY Parts, ScanLoopAssumption DEF IInv, SensorOK, ScanOK
<1>2. PICK t \in Threads :
        /\ waiting[t] /\ Head(cmds) = [from |-> t, cmd |-> CallOf(t)]
        /\ replies = <<>>
        /\ replies' = <<AnswerTo(CallOf(t))>>
  BY AnswerAlone DEF IInv
<1>3. UNCHANGED <<finger, touch, pc, detect, opened, waiting>> /\ Work(Head(cmds))
  BY DEF Answer, sensorVars
<1>4. Turn(s) /\ ~Answered(s) /\ (image.finger # NoFinger => image.touch \in Nat)
  BY <1>1, <1>2, TouchesAreNat DEF IInv, Answered
<1>5. CASE pc[s] = "off"
  BY <1>3, <1>4, <1>5, TurnOff
<1>6. CASE pc[s] # "off"
  <2>1. t = s /\ s # Main /\ CallOf(t) = CommandAt(pc[s]) /\ pc[s] \in AtCall
    BY <1>2, <1>6, NobodyElseWaits, ScanLoopAssumption DEF IInv, CallOf, Waits
  <2>2. /\ replies' = <<AnswerTo(CommandAt(pc[s]))>>
        /\ replies'[1] = AnswerTo(CommandAt(pc[s]))
    BY <1>2, <2>1
  <2>3. /\ Head(cmds).cmd = CommandAt(pc[s]) /\ Head(cmds).from = s
    BY <1>2, <2>1
  <2>4. CASE pc[s] = "capture"
    <3>1. /\ captured'[s] = image'
          /\ image' = IF finger = NoFinger THEN NoImage
                      ELSE [finger |-> finger, touch |-> touch]
      BY <1>1, <1>3, <2>3, <2>4 DEF Work, CommandAt
    <3>2. Armed(s)
      BY <1>4, <2>4
    <3>3. Taken(s)'
      BY <1>1, <1>3, <3>1, <3>2 DEF Taken, Armed, NoImage
    <3> QED
      BY <1>3, <1>4, <2>4, <3>2, <3>3 DEF Armed
  <2>5. CASE pc[s] # "capture"
    <3>0. Head(cmds).cmd # "CaptureFinger"
      BY <2>1, <2>3, <2>5 DEF CommandAt, AtCall
    <3>1. UNCHANGED <<image, captured>>
      BY <1>3, <3>0 DEF Work
    <3>2. CASE pc[s] = "press"
      <4>1. ~Pressed(replies'[1]) => finger = NoFinger
        BY <2>2, <3>2 DEF AnswerTo, CommandAt, Pressed, Ack
      <4> QED
        BY <1>3, <1>4, <3>1, <3>2, <4>1 DEF Armed
    <3>3. CASE pc[s] = "identify"
      <4>1. replies'[1] = IF image.finger \in templates
                          THEN Ack(TemplateId[image.finger])
                          ELSE Nack(NACK_IDENTIFY_FAILED)
        BY <2>2, <3>3 DEF AnswerTo, CommandAt
      <4>2. Identified(replies'[1]) < MAX_FGP_COUNT =>
              image.finger \in Enrolled /\ replies'[1].param = TemplateId[image.finger]
        BY <1>1, <4>1 DEF Identified, Ack, Nack, NACK_IDENTIFY_FAILED, MAX_FGP_COUNT
      <4> QED
        BY <1>3, <1>4, <3>1, <3>3, <4>2 DEF Armed, Taken
    <3>4. CASE pc[s] \notin {"press", "identify"}
      BY <1>3, <1>4, <2>5, <3>1, <3>4 DEF Armed
    <3> QED
      BY <3>2, <3>3, <3>4
  <2> QED
    BY <2>4, <2>5
<1> QED
  BY <1>5, <1>6

\* A turn of the scan loop that ends keeps the thread's own turn.
LEMMA TurnScan ==
  ASSUME IInv, Calm, NEW s \in Scans, Scan(s)
  PROVE  Turn(s)'
<1> USE DEF Turn
<1>1. /\ s \in Threads /\ pc[s] # "off" /\ UNCHANGED <<finger, touch, image>>
  BY DEF Threads, Scan, ScanSend, CheckEnabled, ScanIgnore, ScanPress, ScanIdentify,
         AtCall, sensorVars, moduleVars
<1>2. \A t \in Threads : waiting[t] => t = s
  BY <1>1, NobodyElseWaits DEF IInv
<1>3. /\ pc \in [Scans -> AtCall \cup {"off", "loop"}]
      /\ detect \in [Scans -> BOOLEAN] /\ captured \in [Scans -> Images]
      /\ opened \in [Scans -> 0..MaxTouches]
  BY Parts DEF IInv, ScanOK
<1>4. TypeOK /\ Exchange /\ Turn(s) /\ Sensor
  BY DEF IInv
<1>5. CASE ScanSend(s)
  <2>1. Send(s, CommandAt(pc[s])) /\ UNCHANGED <<pc, detect, captured, opened>>
    BY <1>5 DEF ScanSend, scanVars
  <2>2. replies' = <<>> /\ ~waiting[s]
    BY <1>1, <1>2, <1>4, <2>1, SendAlone DEF Send
  <2> QED
    BY <1>1, <1>4, <2>1, <2>2 DEF Armed, Taken, Answered
<1>6. CASE CheckEnabled(s)
  <2>1. /\ pc[s] = "loop" /\ pc'[s] \in {"press", "exit"} /\ UNCHANGED waiting
        /\ UNCHANGED <<detect, captured, opened>>
    BY <1>3, <1>6 DEF CheckEnabled, Goto
  <2>2. ~waiting[s]
    BY <1>1, <2>1 DEF IInv, Waits, AtCall
  <2> QED
    BY <1>1, <1>4, <2>1, <2>2 DEF Armed, Answered
<1>7. ASSUME NEW r, Receive(s, r)
      PROVE  Answered(s) /\ r = replies[1] /\ ~Answered(s)'
  BY <1>1, <1>2, <1>4, <1>7, ReceiveAlone DEF Answered
<1>8. CASE ScanIgnore(s)
  <2>1. PICK r : Receive(s, r)
    BY <1>8 DEF ScanIgnore
  <2>2. Answered(s) /\ ~Answered(s)' /\ UNCHANGED <<detect, captured, opened>>
    BY <1>7, <1>8, <2>1 DEF ScanIgnore
  <2>3. \/ pc[s] \in {"led", "exit"} /\ pc'[s] \in {"loop", "off"}
        \/ pc[s] = "capture" /\ pc'[s] = "identify"
    BY <1>3, <1>8 DEF ScanIgnore, Goto
  <2> QED
    BY <1>1, <1>4, <2>2, <2>3 DEF Armed, Taken
<1>9. CASE ScanPress(s)
  <2>1. PICK r : /\ Receive(s, r)
                 /\ IF Pressed(r)
                    THEN /\ Goto(s, IF detect[s] THEN "capture" ELSE "loop")
                         /\ detect' = [detect EXCEPT ![s] = FALSE]
                    ELSE /\ Goto(s, "loop")
                         /\ detect' = [detect EXCEPT ![s] = TRUE]
    BY <1>9 DEF ScanPress
  <2>2. /\ Answered(s) /\ r = replies[1] /\ ~Answered(s)'
        /\ pc[s] = "press" /\ UNCHANGED <<captured, opened>>
    BY <1>7, <1>9, <2>1 DEF ScanPress
  <2>3. CASE Pressed(r)
    <3>1. /\ pc'[s] = (IF detect[s] THEN "capture" ELSE "loop") /\ ~detect'[s]
      BY <1>3, <2>1, <2>3 DEF Goto
    <3> QED
      BY <1>1, <1>4, <2>2, <3>1 DEF Armed
  <2>4. CASE ~Pressed(r)
    <3>1. pc'[s] = "loop" /\ Armed(s)
      BY <1>3, <1>4, <2>1, <2>2, <2>4 DEF Goto
    <3> QED
      BY <1>1, <1>4, <2>2, <3>1 DEF Armed
  <2> QED
    BY <2>3, <2>4
<1>10. CASE ScanIdentify(s)
  <2>1. /\ pc[s] = "identify" /\ pc'[s] = "loop" /\ UNCHANGED detect
        /\ opened'[s] = opened[s] \/ opened'[s] = captured[s].touch
    BY <1>3, <1>10 DEF ScanIdentify, Goto
  <2>2. opened'[s] <= touch
    BY <1>4, <2>1 DEF Taken, Sensor
  <2> QED
    BY <1>1, <1>4, <2>1, <2>2 DEF Armed
<1> QED
  BY <1>5, <1>6, <1>8, <1>9, <1>10 DEF Scan

\* Every step keeps every thread's turn.
LEMMA TurnStep ==
  ASSUME IInv, Calm, [Next]_vars, NEW s \in Scans
  PROVE  Turn(s)'
<1> USE DEF scanVars, linkVars, moduleVars, sensorVars
<1>1. /\ touch \in Nat /\ Turn(s) /\ opened \in [Scans -> 0..MaxTouches]
      /\ finger # NoFinger => touch > 0
      /\ pc \in [Scans -> AtCall \cup {"off", "loop"}]
      /\ detect \in [Scans -> BOOLEAN] /\ opened[s] \in Nat
  BY Parts, ScanLoopAssumption DEF IInv, SensorOK, ScanOK
<1>2. CASE Lift \/ (\E f \in Fingers : Touch(f))
  <2>1. /\ UNCHANGED <<image, replies, waiting, pc, detect, captured, opened>>
        /\ finger' = NoFinger \/ touch' = touch + 1
        /\ touch' = touch \/ touch' = touch + 1
    BY <1>2 DEF Lift, Touch
  <2> QED
    BY <1>1, <2>1 DEF Turn, Armed, Taken, Answered
<1>3. CASE Module
  BY <1>3, TurnAnswer DEF Module, Lose, Calm
<1>4. ASSUME NEW u \in Scans, Scan(u) PROVE Turn(s)'
  <2>1. CASE u = s
    BY <1>4, <2>1, TurnScan
  <2>2. CASE u # s
    <3>1. pc[u] # "off" /\ UNCHANGED <<finger, touch>>
      BY <1>4 DEF Scan, ScanSend, CheckEnabled, ScanIgnore, ScanPress, ScanIdentify, AtCall
    <3>2. pc[s] = "off"
      BY <2>2, <3>1 DEF IInv, OneActive
    <3>3. pc'[s] = pc[s] /\ detect'[s] = detect[s] /\ opened'[s] = opened[s]
      BY <1>1, <1>4, <2>2 DEF Scan, ScanSend, CheckEnabled, ScanIgnore, ScanPress,
                              ScanIdentify, Goto
    <3> QED
      BY <1>1, <3>1, <3>2, <3>3, TurnOff
  <2> QED
    BY <2>1, <2>2
<1>5. ASSUME Enable, UNCHANGED <<finger, touch, image, replies, waiting>>
      PROVE  Turn(s)'
  <2>1. PICK u \in Scans :
          /\ pc[u] = "off" /\ pc' = [pc EXCEPT ![u] = "led"]
          /\ detect' = [detect EXCEPT ![u] = TRUE]
          /\ captured' = [captured EXCEPT ![u] = NoImage]
          /\ opened' = [opened EXCEPT ![u] = 0]
    BY <1>5 DEF Enable
  <2>2. CASE u = s
    BY <1>1, <1>5, <2>1, <2>2 DEF Turn, Armed
  <2>3. CASE u # s
    <3>1. /\ pc'[s] = pc[s] /\ detect'[s] = detect[s] /\ opened'[s] = opened[s]
          /\ captured'[s] = captured[s]
      BY <1>1, <2>1, <2>3, Parts DEF IInv, ScanOK
    <3> QED
      BY <1>1, <1>5, <3>1 DEF Turn, Armed, Taken, Answered
  <2> QED
    BY <2>2, <2>3
<1>6. CASE Operator
  BY <1>1, <1>5, <1>6, TurnKept
     DEF Operator, TypeStart, TypeStop, TypeCount, TypeWipe, TypeDump
<1>7. ASSUME MainSend \/ MainReceive PROVE Turn(s)'
  <2>1. ~waiting[s] /\ ~waiting'[s]
    <3>1. s # Main /\ s \in Threads /\ mpc = "device"
      BY <1>7, ScanLoopAssumption DEF Threads, MainSend, MainReceive
    <3>2. ~waiting[s]
      BY <3>1, NobodyElseWaits DEF IInv
    <3>3. waiting'[s] = waiting[s]
      BY <1>7, <3>1, Parts DEF IInv, LinkOK, MainSend, MainReceive, Send, Receive
    <3> QED
      BY <3>2, <3>3
  <2>2. UNCHANGED <<finger, touch, image, pc, detect, captured, opened>>
    BY <1>7 DEF MainSend, MainReceive
  <2> QED
    BY <1>1, <2>1, <2>2 DEF Turn, Armed, Taken, Answered
<1>8. CASE MainStep
  <2>1. CASE Join
    BY <1>1, <2>1, TurnKept DEF Join
  <2>2. CASE Finish
    BY <1>1, <1>5, <2>2, TurnKept DEF Finish
  <2> QED
    BY <1>7, <1>8, <2>1, <2>2 DEF MainStep
<1>9. CASE UNCHANGED vars
  BY <1>1, <1>9, TurnKept DEF vars
<1> QED
  BY <1>2, <1>3, <1>4, <1>6, <1>8, <1>9 DEF Next
-----------------------------------------------------------------------------
\* The image is of no touch yet to come.
LEMMA SensorStep ==
  ASSUME TypeOK, Sensor, [Next]_vars
  PROVE  Sensor'
<1> USE DEF Sensor, scanVars, linkVars, moduleVars, sensorVars
<1>1. touch \in Nat /\ image.touch \in Nat
  BY Parts, TouchesAreNat, ScanLoopAssumption DEF SensorOK
<1>2. CASE Lift \/ (\E f \in Fingers : Touch(f)) \/ Lose
  BY <1>1, <1>2 DEF Lift, Touch, Lose
<1>3. CASE Answer
  BY <1>1, <1>3 DEF Answer, Work, NoImage
<1>4. CASE \E s \in Scans : Scan(s)
  BY <1>4 DEF Scan, ScanSend, CheckEnabled, ScanIgnore, ScanPress, ScanIdentify
<1>5. CASE Operator
  BY <1>5 DEF Operator, TypeStart, TypeStop, TypeCount, TypeWipe, TypeDump
<1>6. CASE MainStep
  BY <1>6 DEF MainStep, Join, MainSend, MainReceive, Finish
<1>7. CASE UNCHANGED vars
  BY <1>7 DEF vars
<1> QED
  BY <1>2, <1>3, <1>4, <1>5, <1>6, <1>7 DEF Next, Module

\* An admission is of the finger the thread took, the first of its touch.
LEMMA AdmitStep ==
  ASSUME IInv, Calm, [Next]_vars
  PROVE  AdmitsOnlyIdentified' /\ OneAdmissionPerTouch'
<1> USE DEF scanVars, linkVars, moduleVars, sensorVars
<1>1. CASE UNCHANGED <<admitted, twice>>
  BY <1>1 DEF IInv, AdmitsOnlyIdentified, OneAdmissionPerTouch
<1>2. ASSUME NEW s \in Scans, ScanIdentify(s)
      PROVE  AdmitsOnlyIdentified' /\ OneAdmissionPerTouch'
  <2>1. PICK r \in Possible :
          /\ Receive(s, r)
          /\ IF Identified(r) < MAX_FGP_COUNT
             THEN /\ twice' = IF opened[s] = captured[s].touch
                              THEN twice \cup {captured[s].touch} ELSE twice
                  /\ admitted' = admitted \cup
                       {[id |-> Identified(r), finger |-> captured[s].finger,
                         touch |-> captured[s].touch]}
             ELSE UNCHANGED <<admitted, twice>>
    BY <1>2 DEF ScanIdentify
  <2>2. pc[s] = "identify" /\ s \in Threads /\ Exchange /\ TypeOK
    BY <1>2 DEF ScanIdentify, Threads, IInv
  <2>3. \A t \in Threads : waiting[t] => t = s
    BY <2>2, NobodyElseWaits DEF IInv
  <2>4. Answered(s) /\ r = replies[1]
    BY <2>1, <2>2, <2>3, ReceiveAlone
  <2>5. CASE Identified(r) < MAX_FGP_COUNT
    <3>1. /\ captured[s] = image /\ image.finger \in Enrolled
          /\ image.finger # NoFinger => opened[s] < image.touch
          /\ r.param = TemplateId[image.finger]
      BY <2>2, <2>4, <2>5 DEF IInv, Turn, Taken
    <3>2. TemplateId[image.finger] \in 0..(MAX_FGP_COUNT - 1) /\ image.finger # NoFinger
      BY <3>1, ScanLoopAssumption
    <3>3. Identified(r) = TemplateId[image.finger]
      <4>1. \A n \in 0..(MAX_FGP_COUNT - 1) : n \in Int /\ ~(n > MAX_FGP_COUNT)
        BY DEF MAX_FGP_COUNT
      <4> QED
        BY <3>1, <3>2, <4>1 DEF Identified
    <3>4. opened[s] # captured[s].touch
      <4>1. opened[s] \in Nat /\ image.touch \in Nat
        BY <2>2, Parts, TouchesAreNat DEF ScanOK, SensorOK
      <4> QED
        BY <3>1, <3>2, <4>1
    <3>5. twice' = twice /\ \A a \in admitted' : a \in admitted \/
            a = [id |-> Identified(r), finger |-> image.finger, touch |-> image.touch]
      BY <2>1, <2>5, <3>1, <3>4
    <3> QED
      BY <3>1, <3>3, <3>5 DEF IInv, AdmitsOnlyIdentified, OneAdmissionPerTouch
  <2>6. CASE ~(Identified(r) < MAX_FGP_COUNT)
    BY <1>1, <2>1, <2>6
  <2> QED
    BY <2>5, <2>6
<1>3. CASE Lift \/ (\E f \in Fingers : Touch(f)) \/ Module
  BY <1>1, <1>3 DEF Lift, Touch, Module, Answer, Lose
<1>4. ASSUME NEW s \in Scans, Scan(s), ~ScanIdentify(s) PROVE UNCHANGED <<admitted, twice>>
  BY <1>4 DEF Scan, ScanSend, CheckEnabled, ScanIgnore, ScanPress
<1>5. CASE Operator
  BY <1>1, <1>5 DEF Operator, TypeStart, TypeStop, TypeCount, TypeWipe, TypeDump
<1>6. CASE MainStep
  BY <1>1, <1>6 DEF MainStep, Join, MainSend, MainReceive, Finish
<1>7. CASE UNCHANGED vars
  BY <1>1, <1>7 DEF vars
<1> QED
  BY <1>1, <1>2, <1>3, <1>4, <1>5, <1>6, <1>7 DEF Next

\* The invariant holds at first ...
LEMMA InitInv == Init => IInv
<1> SUFFICES ASSUME Init PROVE IInv
  OBVIOUS
<1>1. TypeOK
  BY InitTypes
<1>2. OneActive
  BY DEF Init, OneActive
<1>3. \A t \in Threads : ~waiting[t]
  BY DEF Init
<1>4. Waits /\ Exchange
  BY <1>3 DEF Init, Waits, Exchange, Threads
<1>5. \A s \in Scans : Turn(s)
  BY DEF Init, Turn, Armed, Taken
<1>6. Sensor /\ AdmitsOnlyIdentified /\ OneAdmissionPerTouch
  BY DEF Init, NoImage, Sensor, AdmitsOnlyIdentified, OneAdmissionPerTouch
<1> QED
  BY <1>1, <1>2, <1>4, <1>5, <1>6 DEF IInv

\* ... every step keeps it ...
LEMMA NextInv == ASSUME IInv, Calm, [Next]_vars PROVE IInv'
<1>1. TypeOK /\ OneActive /\ Waits /\ Exchange /\ Sensor
  BY DEF IInv
<1>2. TypeOK'
  BY <1>1, TypeStep
<1>3. OneActive' /\ Waits' /\ Exchange' /\ Sensor'
  BY <1>1, OneActiveStep, WaitsStep, ExchangeStep, SensorStep
<1>4. (\A s \in Scans : Turn(s))' /\ AdmitsOnlyIdentified' /\ OneAdmissionPerTouch'
  BY TurnStep, AdmitStep
<1> QED
  BY <1>2, <1>3, <1>4 DEF IInv

\* ... and past a join only commands of the main thread are on the link.
LEMMA InvQuiet == ASSUME IInv PROVE StoppedMeansQuiet
<1> SUFFICES ASSUME mpc = "device", ~enabled
             PROVE  /\ \A s \in Scans : pc[s] = "off"
                    /\ \A i \in 1..Len(cmds) : cmds[i].from = Main
  BY DEF StoppedMeansQuiet
<1>1. \A s \in Scans : pc[s] = "off"
  BY DEF IInv, OneActive
<1>2. \A t \in Threads : waiting[t] => t = Main
  BY NobodyElseWaits DEF IInv
<1>3. \/ cmds = <<>>
      \/ cmds = <<[from |-> Main, cmd |-> CallOf(Main)]>>
  BY <1>2 DEF IInv, Exchange
<1>4. \A i \in 1..Len(cmds) : cmds[i].from = Main
  BY <1>3
<1> QED
  BY <1>1, <1>4

\* Of the calm module and operator, for any fingers and any number of scan
\* threads and touches: the door opens only for an enrolled finger, as the
\* number of the very finger the thread's CaptureFinger took.
THEOREM OnlyIdentified == ASSUME Calm PROVE Spec => []AdmitsOnlyIdentified
<1>1. IInv /\ [Next]_vars => IInv'
  BY NextInv
<1>2. IInv => AdmitsOnlyIdentified
  BY DEF IInv
<1> QED
  BY <1>1, <1>2, InitInv, PTL DEF Spec

\* Of the same: however long a finger stays, the latch of a scan thread opens
\* the door for it once.
THEOREM OnePerTouch == ASSUME Calm PROVE Spec => []OneAdmissionPerTouch
<1>1. IInv /\ [Next]_vars => IInv'
  BY NextInv
<1>2. IInv => OneAdmissionPerTouch
  BY DEF IInv
<1> QED
  BY <1>1, <1>2, InitInv, PTL DEF Spec

\* Of the same: past SetEnabled(false) no scan thread runs, and no command of
\* one is left before those of the main thread.
THEOREM StoppedIsQuiet == ASSUME Calm PROVE Spec => []StoppedMeansQuiet
<1>1. IInv /\ [Next]_vars => IInv'
  BY NextInv
<1>2. IInv => StoppedMeansQuiet
  BY InvQuiet
<1> QED
  BY <1>1, <1>2, InitInv, PTL DEF Spec
=============================================================================
