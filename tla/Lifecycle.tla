------------------------------ MODULE Lifecycle ------------------------------
(***************************************************************************)
(* The life of the daemon (main.cpp): init starts the threads that watch   *)
(* the doors, the prompt takes commands, enroll stops some of the threads, *)
(* restart and the watchdog end them all and begin anew.  The threads log  *)
(* what they decide (EventLog).                                            *)
(*                                                                         *)
(* A command is a list of steps for the main thread to take.               *)
(***************************************************************************)
EXTENDS EventLog, Sequences, SequencesExt

CONSTANTS
  Main,
  Scanners,    \* the scan threads, in the order of init
  Intercom,    \* its thread, as a sequence of one
  MaxRestarts  \* bound: restarts in a behaviour

Loggers == ToSet(Scanners \o Intercom)

ASSUME LifecycleAssumption ==
  /\ Scanners \in Seq(Threads) /\ Intercom \in Seq(Threads)
  /\ Threads = Loggers \cup {Main}
  /\ Main \notin Loggers
  /\ MaxRestarts \in Nat

VARIABLES
  enabled,   \* enabled[s]: SetEnabled's flag
  alive,     \* alive[s]: does the thread in s's handle run?
  turn,      \* turn[s]: is it in a turn of its loop, past IsEnabled?
  todo,      \* what is left of the command
  prompt,    \* does the main thread wait for a line?
  due,       \* is the watchdog's interval over?
  restarts

threadVars == <<enabled, alive, turn>>
mainVars == <<todo, prompt, due, restarts>>
vars == <<logVars, threadVars, mainVars>>

Init ==
  /\ LogInit
  /\ enabled = [s \in Loggers |-> TRUE]
  /\ alive = [s \in Loggers |-> TRUE]
  /\ turn = [s \in Loggers |-> FALSE]
  /\ todo = <<>> /\ prompt = FALSE
  /\ due = FALSE /\ restarts = 0

(***************************************************************************)
(* scan_thread and loop_thread, as far as they log.                        *)
(***************************************************************************)
\* The test of the loop.
Turn(s) ==
  /\ alive[s] /\ enabled[s] /\ ~turn[s] /\ at[s] = "out"
  /\ turn' = [turn EXCEPT ![s] = TRUE]
  /\ UNCHANGED <<logVars, enabled, alive, mainVars>>

\* Who is let in is shown and logged; who is not, and a ring, is logged; or
\* there is nobody.
Decide(s) ==
  /\ turn[s]
  /\ turn' = [turn EXCEPT ![s] = FALSE]
  /\ \/ Log(s, "enter")
     \/ s \in ToSet(Scanners) /\ Log(s, "query")
     \/ UNCHANGED logVars
  /\ UNCHANGED <<enabled, alive, mainVars>>

Call(s) == Exec(s) /\ UNCHANGED <<threadVars, mainVars>>

\* A mutex that the thread has kept stays locked.
EndThread(s) ==
  /\ alive[s] /\ ~enabled[s] /\ ~turn[s] /\ at[s] = "out"
  /\ alive' = [alive EXCEPT ![s] = FALSE]
  /\ owner' = IF owner = s THEN Gone ELSE owner
  /\ UNCHANGED <<callVars, depth, fileVars, connVars, enabled, turn, mainVars>>

(***************************************************************************)
(* The commands.                                                           *)
(***************************************************************************)
Step(op, s) == [op |-> op, s |-> s]

\* SetEnabled on each of these, one after the other.
Stop(threads) ==
  [i \in 1..(2 * Len(threads)) |->
     Step(IF i % 2 = 1 THEN "disable" ELSE "join", threads[(i + 1) \div 2])]
Start(threads) == [i \in DOMAIN threads |-> Step("enable", threads[i])]

\* Mutant: the intercom is forgotten.
CleanupScanners == <<Step("close", Main)>> \o Stop(Scanners)

Cleanup == <<Step("close", Main)>> \o Stop(Scanners) \o Stop(Intercom)
Launch == <<Step("open", Main)>> \o Start(Scanners) \o Start(Intercom)

Restart == Cleanup \o Launch

\* enroll, as far as the database goes: a new user is inserted; a finger that
\* was enrolled is inserted and linked; the outcome is logged.
Record(new, enrolled) ==
     (IF new THEN <<Step("row", Main)>> ELSE <<>>)
  \o (IF enrolled THEN <<Step("insert", Main), Step("row", Main), Step("row", Main)>>
                  ELSE <<>>)
  \o <<Step("log", Main), Step("returned", Main)>>

Enroll(new, enrolled) ==
  Stop(Reverse(Scanners)) \o Record(new, enrolled) \o Start(Reverse(Scanners))

\* Mutant: the interval is not looked at.
TopUnwatched ==
  /\ todo = <<>> /\ ~prompt
  /\ prompt' = TRUE
  /\ UNCHANGED <<logVars, threadVars, due, todo, restarts>>

\* The top of main's loop: the watchdog is looked at once per line.
Top ==
  /\ todo = <<>> /\ ~prompt
  /\ IF due /\ restarts < MaxRestarts
     THEN todo' = Restart /\ restarts' = restarts + 1 /\ UNCHANGED prompt
     ELSE prompt' = TRUE /\ UNCHANGED <<todo, restarts>>
  /\ UNCHANGED <<logVars, threadVars, due>>

Line(command) ==
  /\ prompt
  /\ prompt' = FALSE
  /\ todo' = command
  /\ UNCHANGED <<logVars, threadVars, due>>

TypeNothing == Line(<<>>) /\ UNCHANGED restarts
TypeEnroll ==
  /\ last < MaxEvents
  /\ \E new, enrolled \in BOOLEAN : Line(Enroll(new, enrolled))
  /\ UNCHANGED restarts
TypeRestart == /\ restarts < MaxRestarts
               /\ Line(Restart)
               /\ restarts' = restarts + 1

Elapse ==
  /\ ~due
  /\ due' = TRUE
  /\ UNCHANGED <<logVars, threadVars, todo, prompt, restarts>>

Takes(op) == todo # <<>> /\ Head(todo).op = op /\ todo' = Tail(todo)
Arg == Head(todo).s

Disable ==
  /\ Takes("disable")
  /\ enabled' = [enabled EXCEPT ![Arg] = FALSE]
  /\ UNCHANGED <<logVars, alive, turn, prompt, due, restarts>>

Join ==
  /\ Takes("join")
  /\ ~alive[Arg]
  /\ UNCHANGED <<logVars, threadVars, prompt, due, restarts>>

Enable ==
  /\ Takes("enable")
  /\ enabled' = [enabled EXCEPT ![Arg] = TRUE]
  /\ alive' = [alive EXCEPT ![Arg] = TRUE]
  /\ UNCHANGED <<logVars, turn, prompt, due, restarts>>

CloseDatabase == Takes("close") /\ Close(Main)
                 /\ UNCHANGED <<threadVars, prompt, due, restarts>>

\* init takes the watchdog's time stamp.
OpenDatabase == Takes("open") /\ Open /\ due' = FALSE
                /\ UNCHANGED <<threadVars, prompt, restarts>>

Insert == Takes("insert") /\ at[Main] = "out" /\ InsertFingerprint(Main)
          /\ UNCHANGED <<threadVars, prompt, due, restarts>>

Write == Takes("row") /\ InsertRow(Main)
         /\ UNCHANGED <<threadVars, prompt, due, restarts>>

LogEnroll ==
  /\ Takes("log") /\ at[Main] = "out"
  /\ IF last < MaxEvents THEN Log(Main, "enter") ELSE UNCHANGED logVars
  /\ UNCHANGED <<threadVars, prompt, due, restarts>>

Returned ==
  /\ Takes("returned") /\ at[Main] = "out"
  /\ UNCHANGED <<logVars, threadVars, prompt, due, restarts>>

MainStep == \/ Top \/ Disable \/ Join \/ Enable \/ CloseDatabase \/ OpenDatabase
            \/ Insert \/ Write \/ LogEnroll \/ Call(Main) \/ Returned
Operator == TypeNothing \/ TypeEnroll \/ TypeRestart
Logger(s) == Turn(s) \/ Decide(s) \/ Call(s) \/ EndThread(s)

Next ==
  \/ MainStep \/ Operator \/ Elapse
  \/ \E s \in Loggers : Logger(s)

Spec == Init /\ [][Next]_vars

\* Threads that can run run; nobody is bound to come to the door or to type.
FairSpec == /\ Spec
            /\ WF_vars(MainStep)
            /\ \A s \in Loggers : WF_vars(Logger(s))
-----------------------------------------------------------------------------
Ops == {"disable", "join", "enable", "close", "open", "row", "insert", "log",
        "returned"}

TypeOK ==
  /\ LogTypeOK
  /\ todo \in Seq([op : Ops, s : Threads])
  /\ enabled \in [Loggers -> BOOLEAN] /\ alive \in [Loggers -> BOOLEAN]
  /\ turn \in [Loggers -> BOOLEAN]
  /\ prompt \in BOOLEAN /\ due \in BOOLEAN
  /\ restarts \in 0..MaxRestarts

\* When the database is opened again no thread of the life before is left, and
\* a thread meets a closed database only while cleanup has not joined it yet.
CleanBetweenLives ==
  /\ todo # <<>> /\ Head(todo).op = "open" => \A s \in Loggers : ~alive[s]
  /\ \A s \in Loggers : ~open /\ alive[s] => \E i \in DOMAIN todo : todo[i] = Step("join", s)

\* The types, and the mutex.
LifecycleInv == TypeOK /\ MutexKept

\* Has something gone wrong that the code does not recover from?
Trouble == faults > 0 \/ stale # "none" \/ \E t \in Threads : at[t] = "undefined"

\* A thread that logs comes back from it...
EventsReturn ==
  \A t \in Threads : at[t] \in {"query", "enter"} ~> at[t] = "out" \/ Trouble

\* ... and a command, a restart by the watchdog included, comes to its end.
CommandsEnd == todo # <<>> ~> todo = <<>> \/ Trouble

\* While lines are typed, empty ones will do, the watchdog restarts the daemon
\* when its interval is over.
WatchdogActs ==
  []<><<TypeNothing>>_vars => (due ~> ~due \/ restarts = MaxRestarts \/ Trouble)
=============================================================================
