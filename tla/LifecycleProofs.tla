---------------------------- MODULE LifecycleProofs ---------------------------
(***************************************************************************)
(* Proofs about Lifecycle, for any number of threads, events and restarts  *)
(* and whatever fails: who has the connection and its transaction, what    *)
(* the server is told, and what is left of one life in the next.           *)
(***************************************************************************)
EXTENDS Lifecycle, SequenceTheorems, FiniteSetTheorems, TLAPS
-----------------------------------------------------------------------------
\* What a transaction holds at each step of the thread that has begun it.
Transaction ==
  /\ ~txn => pending = {}
  /\ pending # {} => owner # NoThread
  /\ \A e, f \in pending : e = f
  /\ \A t \in Threads :
       /\ at[t] = "begin" /\ ~txn => depth = 1
       /\ at[t] \in {"statement", "end", "leave", "stored"} => depth = 1
       /\ at[t] \in {"statement", "end", "leave"} => txn
       /\ at[t] \in {"statement", "leave", "stored"} => pending = {}
       /\ at[t] = "end" => pending = {event[t]}
       /\ at[t] = "post" => event[t] # Row

LogInv == LogTypeOK /\ MutexKept /\ Transaction /\ PostedIsStored

Writes == {"row", "insert", "log"}

\* Of the main thread's writes each is waited for before the next step.
Waited ==
  /\ \A i \in 1..Len(todo) : todo[i].op \in Writes =>
       i < Len(todo) /\ todo[i + 1].op \in Writes \cup {"returned"}
  /\ at[Main] # "out" => todo # <<>> /\ Head(todo).op \in Writes \cup {"returned"}

\* No step before i starts a thread, and each thread has ended or is joined.
EndedBefore(i) ==
  /\ \A j \in 1..(i - 1) : todo[j].op # "enable"
  /\ \A s \in Loggers :
       alive[s] => \E j \in 1..(i - 1) : todo[j] = Step("join", s)

\* The database is closed before the threads are joined and opened after that.
Reopens ==
  /\ \A i \in 1..Len(todo) : todo[i].op = "open" => EndedBefore(i)
  /\ ~open => \E i \in 1..Len(todo) : todo[i].op = "open"
  /\ \A i \in 1..Len(todo) : todo[i].op = "close" =>
       \E j \in (i + 1)..Len(todo) : todo[j].op = "open"
  /\ prompt => todo = <<>>

Ended == \A s \in Loggers : ~alive[s] => at[s] = "out" /\ ~turn[s]

IInv == TypeOK /\ LogInv /\ Waited /\ Reopens /\ Ended
-----------------------------------------------------------------------------
\* PostedIsStored, of one event at a time.
Accounted(x) ==
  x \in stored <=>
    \/ x \in posted \/ x \in lost
    \/ x # Row /\ \E t \in Threads : at[t] \in {"stored", "post"} /\ x = event[t]

\* The database and the server agree when they agree of each event.
LEMMA PostedIff == PostedIsStored <=> \A x : Accounted(x)
BY DEF PostedIsStored, Accounted

\* The same after a step.
LEMMA PostedIffNext == PostedIsStored' <=> (\A x : Accounted(x))'
BY DEF PostedIsStored, Accounted

\* Row is no event.
LEMMA RowIsNoEvent == Row \notin Events /\ Events \subseteq Nat
BY DEF Row, Events

\* Only one thread is between entering the mutex and leaving it.
LEMMA OneInside ==
  ASSUME LogInv, NEW t \in Threads, at[t] \in Inside
  PROVE  /\ owner = t /\ t # NoThread /\ t # Gone
         /\ \A u \in Threads : at[u] \in Inside => u = t
BY EventLogAssumption DEF LogInv, MutexKept

\* A step of exec keeps the types ...
LEMMA ExecTypes ==
  ASSUME LogInv, NEW t \in Threads, Exec(t)
  PROVE  LogTypeOK'
<1>1. LogTypeOK /\ Transaction /\ MutexKept
  BY DEF LogInv
<1> USE RowIsNoEvent, EventLogAssumption
    DEF LogTypeOK, Goto, Undefined, callVars, mutexVars, fileVars, connVars, Inside
<1>2. CASE Query(t)
  BY <1>1, <1>2 DEF Query
<1>3. CASE Enter(t)
  BY <1>1, <1>3 DEF Enter, EnterMutex
<1>4. CASE Begin(t)
  BY <1>1, <1>4 DEF Begin
<1>5. CASE Statement(t)
  <2>1. at' \in [Threads -> Inside \cup {"out", "query", "enter", "post", "undefined"}]
    BY <1>1, <1>5 DEF Statement
  <2>2. pending' \subseteq Events \cup {Row}
    BY <1>1, <1>5 DEF Statement
  <2>3. faults' \in 0..MaxFaults
    BY <1>1, <1>5 DEF Statement, Fault
  <2> QED
    BY <1>1, <1>5, <2>1, <2>2, <2>3 DEF Statement
<1>6. CASE End(t)
  <2>1. at' \in [Threads -> Inside \cup {"out", "query", "enter", "post", "undefined"}]
    BY <1>1, <1>6 DEF End
  <2>2. stored' \subseteq Events /\ pending' \subseteq Events \cup {Row} /\ txn' \in BOOLEAN
    BY <1>1, <1>6 DEF End, Commits, CommitFails
  <2>3. faults' \in 0..MaxFaults
    BY <1>1, <1>6 DEF End, Commits, CommitFails, Fault
  <2> QED
    BY <1>1, <1>6, <2>1, <2>2, <2>3 DEF End
<1>7. CASE Leave(t)
  <2>1. owner = t /\ depth = 1
    BY <1>1, <1>7 DEF Leave, MutexKept, Transaction
  <2> QED
    BY <1>1, <1>7, <2>1 DEF Leave, LeaveMutex, Returns
<1>8. CASE Post(t)
  BY <1>1, <1>8 DEF Post, Transaction
<1> QED
  BY <1>2, <1>3, <1>4, <1>5, <1>6, <1>7, <1>8 DEF Exec

\* ... and the mutex ...
LEMMA ExecMutex ==
  ASSUME LogInv, NEW t \in Threads, Exec(t)
  PROVE  MutexKept'
<1>1. /\ LogTypeOK /\ Transaction /\ MutexKept
      /\ at[t] \in Inside => owner = t /\ \A u \in Threads : at[u] \in Inside => u = t
  BY OneInside DEF LogInv
<1>2. at \in [Threads -> Inside \cup {"out", "query", "enter", "post", "undefined"}]
  BY <1>1 DEF LogTypeOK
<1> USE EventLogAssumption
    DEF MutexKept, Goto, Undefined, callVars, mutexVars, fileVars, connVars, Inside
<1>3. CASE Query(t)
  BY <1>1, <1>2, <1>3 DEF Query
<1>4. CASE Enter(t)
  BY <1>1, <1>2, <1>4 DEF Enter, EnterMutex
<1>5. CASE Begin(t)
  BY <1>1, <1>2, <1>5 DEF Begin
<1>6. CASE Statement(t)
  BY <1>1, <1>2, <1>6 DEF Statement, Transaction
<1>7. CASE End(t)
  BY <1>1, <1>2, <1>7 DEF End, Commits, CommitFails, Transaction
<1>8. CASE Leave(t)
  <2>1. owner = t /\ depth = 1
    BY <1>1, <1>8 DEF Leave, Transaction
  <2>2. owner' = NoThread /\ UNCHANGED txn
    BY <1>8, <2>1 DEF Leave, LeaveMutex
  <2>3. \A u \in Threads : at'[u] \notin Inside
    BY <1>1, <1>2, <1>8 DEF Leave, Returns
  <2> QED
    BY <2>2, <2>3
<1>9. CASE Post(t)
  BY <1>1, <1>2, <1>9 DEF Post
<1> QED
  BY <1>3, <1>4, <1>5, <1>6, <1>7, <1>8, <1>9 DEF Exec

\* ... what a transaction holds ...
LEMMA ExecTransaction ==
  ASSUME LogInv, NEW t \in Threads, Exec(t)
  PROVE  Transaction'
<1>1. /\ LogTypeOK /\ Transaction /\ MutexKept
      /\ at[t] \in Inside => owner = t /\ \A u \in Threads : at[u] \in Inside => u = t
  BY OneInside DEF LogInv
<1>2. /\ at \in [Threads -> Inside \cup {"out", "query", "enter", "post", "undefined"}]
      /\ depth \in Nat /\ (depth = 0 <=> owner = NoThread) /\ txn \in BOOLEAN
  BY <1>1 DEF LogTypeOK
<1> USE EventLogAssumption
    DEF Transaction, Goto, Undefined, callVars, mutexVars, fileVars, connVars, Inside
<1>3. CASE Query(t)
  BY <1>1, <1>2, <1>3 DEF Query
<1>4. CASE Enter(t)
  <2>1. CASE Undefined(t) /\ UNCHANGED mutexVars
    BY <1>1, <1>2, <1>4, <2>1 DEF Enter
  <2>2. CASE EnterMutex(t) /\ Goto(t, "begin")
    <3>1. owner = NoThread \/ (owner = t /\ txn)
      <4>1. owner \in {NoThread, t} /\ at[t] = "enter"
        BY <1>4, <2>2 DEF Enter, EnterMutex
      <4>2. ASSUME owner = t PROVE txn
        <5>1. owner \in Threads /\ at[owner] \notin Inside
          BY <4>1, <4>2
        <5> QED
          BY ONLY <5>1, <1>1 DEF MutexKept
      <4> QED
        BY <4>1, <4>2
    <3>2. \A u \in Threads : at[u] \notin Inside
      BY <1>1, <1>4, <2>2, <3>1 DEF Enter, EnterMutex, MutexKept
    <3> QED
      BY <1>1, <1>2, <1>4, <2>2, <3>1, <3>2 DEF Enter, EnterMutex
  <2> QED
    BY <1>4, <2>1, <2>2 DEF Enter
<1>5. CASE Begin(t)
  BY <1>1, <1>2, <1>5 DEF Begin
<1>6. CASE Statement(t)
  BY <1>1, <1>2, <1>6 DEF Statement
<1>7. CASE End(t)
  <2>1. CASE Commits /\ Goto(t, "stored")
    BY <1>1, <1>2, <1>7, <2>1 DEF End, Commits
  <2>2. CASE CommitFails /\ Goto(t, "out")
    BY <1>1, <1>2, <1>7, <2>2 DEF End, CommitFails
  <2> QED
    BY <1>7, <2>1, <2>2 DEF End
<1>8. CASE Leave(t)
  BY <1>1, <1>2, <1>8 DEF Leave, LeaveMutex, Returns
<1>9. CASE Post(t)
  BY <1>1, <1>2, <1>9 DEF Post
<1> QED
  BY <1>3, <1>4, <1>5, <1>6, <1>7, <1>8, <1>9 DEF Exec

\* ... and what the server is told.
LEMMA ExecPosted ==
  ASSUME LogInv, NEW t \in Threads, Exec(t)
  PROVE  PostedIsStored'
<1> SUFFICES ASSUME NEW x PROVE Accounted(x)'
  BY PostedIffNext
<1>1. LogTypeOK /\ Transaction /\ Accounted(x)
  BY PostedIff DEF LogInv
<1>2. at \in [Threads -> Inside \cup {"out", "query", "enter", "post", "undefined"}]
  BY <1>1 DEF LogTypeOK
<1> USE DEF Accounted, Goto, Undefined, callVars, mutexVars, fileVars, connVars
<1>3. CASE Query(t)
  BY <1>1, <1>2, <1>3 DEF Query
<1>4. CASE Enter(t)
  BY <1>1, <1>2, <1>4 DEF Enter
<1>5. CASE Begin(t)
  BY <1>1, <1>2, <1>5 DEF Begin
<1>6. CASE Statement(t)
  BY <1>1, <1>2, <1>6 DEF Statement
<1>7. CASE End(t)
  <2>1. CASE Commits /\ Goto(t, "stored")
    BY <1>1, <1>2, <1>7, <2>1 DEF End, Commits, Transaction
  <2>2. CASE CommitFails /\ Goto(t, "out")
    BY <1>1, <1>2, <1>7, <2>2 DEF End, CommitFails
  <2> QED
    BY <1>7, <2>1, <2>2 DEF End
<1>8. CASE Leave(t)
  BY <1>1, <1>2, <1>8 DEF Leave, Returns
<1>9. CASE Post(t)
  BY <1>1, <1>2, <1>9 DEF Post, Transaction
<1> QED
  BY <1>3, <1>4, <1>5, <1>6, <1>7, <1>8, <1>9 DEF Exec
-----------------------------------------------------------------------------
\* A call is begun with the mutex as it was.
LEMMA LogBegins ==
  ASSUME LogInv, NEW t \in Threads,
         InsertRow(t) \/ Log(t, "enter") \/ Log(t, "query")
  PROVE  LogInv'
<1>1. /\ LogTypeOK /\ Transaction /\ MutexKept /\ PostedIsStored
      /\ \A u \in Threads : at[u] \in Inside => owner = u
  BY DEF LogInv, MutexKept
<1>2. PICK l \in {"enter", "query"} :
        /\ at[t] = "out" /\ at' = [at EXCEPT ![t] = l]
        /\ UNCHANGED <<mutexVars, fileVars, connVars>>
  BY DEF InsertRow, Log, Goto
<1>3. PICK e \in Events \cup {Row} : event' = [event EXCEPT ![t] = e]
  <2>1. CASE InsertRow(t)
    BY <2>1 DEF InsertRow
  <2>2. CASE Log(t, "enter") \/ Log(t, "query")
    <3>1. last + 1 \in Events /\ event' = [event EXCEPT ![t] = last + 1]
      BY <1>1, <2>2, EventLogAssumption DEF Log, LogTypeOK, Events
    <3> QED
      BY <3>1
  <2> QED
    BY <2>1, <2>2
<1>4. last' \in 0..MaxEvents
  BY <1>1, EventLogAssumption DEF InsertRow, Log, LogTypeOK
<1> USE DEF mutexVars, fileVars, connVars, Inside
<1>5. LogTypeOK'
  BY <1>1, <1>2, <1>3, <1>4 DEF LogTypeOK
<1>6. MutexKept'
  BY <1>1, <1>2 DEF MutexKept, LogTypeOK
<1>7. Transaction'
  BY <1>1, <1>2, <1>3 DEF Transaction, LogTypeOK
<1>8. PostedIsStored'
  <2> SUFFICES ASSUME NEW x PROVE Accounted(x)'
    BY PostedIffNext
  <2>1. Accounted(x)
    BY <1>1, PostedIff
  <2> QED
    BY <1>1, <1>2, <1>3, <2>1 DEF Accounted, LogTypeOK
<1> QED
  BY <1>5, <1>6, <1>7, <1>8 DEF LogInv

\* A thread that ends leaves the mutex it has kept locked.
LEMMA LogEnds ==
  ASSUME LogInv, NEW t \in Threads, at[t] = "out",
         owner' = IF owner = t THEN Gone ELSE owner,
         UNCHANGED <<callVars, depth, fileVars, connVars>>
  PROVE  LogInv'
<1>1. LogTypeOK /\ Transaction /\ MutexKept /\ PostedIsStored
  BY DEF LogInv
<1> USE EventLogAssumption DEF callVars, fileVars, connVars
<1>2. LogTypeOK'
  BY <1>1 DEF LogTypeOK
<1>3. MutexKept'
  BY <1>1 DEF MutexKept, Inside
<1>4. Transaction'
  BY <1>1 DEF Transaction
<1>5. PostedIsStored'
  BY <1>1 DEF PostedIsStored
<1> QED
  BY <1>2, <1>3, <1>4, <1>5 DEF LogInv

\* The connection may be replaced while nobody is inside.
LEMMA LogReopens ==
  ASSUME LogInv, \A t \in Threads : at[t] \notin Inside,
         open' \in BOOLEAN, reading' \in BOOLEAN,
         stale' \in {"none", "shared", "reserved"},
         UNCHANGED <<callVars, fileVars>>,
         \/ UNCHANGED <<txn, pending, mutexVars>>
         \/ txn' = FALSE /\ pending' = {} /\ owner' = NoThread /\ depth' = 0
  PROVE  LogInv'
<1>1. LogTypeOK /\ Transaction /\ MutexKept /\ PostedIsStored
  BY DEF LogInv
<1> USE EventLogAssumption DEF callVars, fileVars, mutexVars
<1>2. LogTypeOK'
  <2>1. CASE UNCHANGED <<txn, pending, mutexVars>>
    BY <1>1, <2>1 DEF LogTypeOK
  <2>2. CASE txn' = FALSE /\ pending' = {} /\ owner' = NoThread /\ depth' = 0
    BY <1>1, <2>2 DEF LogTypeOK
  <2> QED
    BY <2>1, <2>2
<1>3. MutexKept'
  BY <1>1 DEF MutexKept
<1>4. Transaction'
  BY <1>1 DEF Transaction, Inside
<1>5. PostedIsStored'
  BY <1>1 DEF PostedIsStored
<1> QED
  BY <1>2, <1>3, <1>4, <1>5 DEF LogInv

\* An invariant of the log is one as long as its variables stay.
LEMMA LogStays ==
  ASSUME LogInv, UNCHANGED logVars
  PROVE  LogInv'
<1> USE DEF logVars, callVars, mutexVars, fileVars, connVars
<1>1. LogTypeOK /\ Transaction /\ MutexKept /\ PostedIsStored
  BY DEF LogInv
<1>2. LogTypeOK'
  BY <1>1 DEF LogTypeOK
<1>3. MutexKept' /\ Transaction'
  BY <1>1 DEF MutexKept, Transaction
<1>4. PostedIsStored'
  BY <1>1 DEF PostedIsStored
<1> QED
  BY <1>2, <1>3, <1>4 DEF LogInv
-----------------------------------------------------------------------------
Steps == [op : Ops, s : Threads]

\* A command of nothing but these operations.
Only(q, ops) == q \in Seq(Steps) /\ \A i \in 1..Len(q) : q[i].op \in ops

\* In a command each write has another or the wait behind it.
WaitedFor(q) ==
  \A i \in 1..Len(q) : q[i].op \in Writes =>
    i < Len(q) /\ q[i + 1].op \in Writes \cup {"returned"}

\* A step is a step.
LEMMA StepIsStep ==
  ASSUME NEW op \in Ops, NEW s \in Threads
  PROVE  Step(op, s) \in Steps /\ Step(op, s).op = op /\ Step(op, s).s = s
BY DEF Step, Steps

\* A command of one step.
LEMMA OnlyOne ==
  ASSUME NEW op \in Ops
  PROVE  /\ Main \in Threads
         /\ Only(<<Step(op, Main)>>, {op}) /\ Len(<<Step(op, Main)>>) = 1
         /\ <<Step(op, Main)>>[1] = Step(op, Main)
<1>1. Main \in Threads
  BY LifecycleAssumption
<1>2. Step(op, Main) \in Steps /\ Step(op, Main).op = op
  BY <1>1, StepIsStep
<1> QED
  BY <1>1, <1>2 DEF Only

\* Commands one after the other.
LEMMA OnlyConcat ==
  ASSUME NEW a, NEW b, NEW A, NEW B, Only(a, A), Only(b, B)
  PROVE  /\ Only(a \o b, A \cup B)
         /\ Len(a \o b) = Len(a) + Len(b) /\ Len(a) \in Nat /\ Len(b) \in Nat
         /\ \A i \in 1..Len(a) : (a \o b)[i] = a[i]
         /\ \A i \in 1..Len(b) : (a \o b)[Len(a) + i] = b[i]
<1>1. a \in Seq(Steps) /\ b \in Seq(Steps) /\ Len(a) \in Nat /\ Len(b) \in Nat
  BY LenProperties DEF Only
<1>2. /\ a \o b \in Seq(Steps) /\ Len(a \o b) = Len(a) + Len(b)
      /\ \A i \in 1..(Len(a) + Len(b)) :
           (a \o b)[i] = IF i <= Len(a) THEN a[i] ELSE b[i - Len(a)]
  BY <1>1, ConcatProperties
<1>3. \A i \in 1..Len(a) : (a \o b)[i] = a[i]
  BY <1>1, <1>2
<1>4. \A i \in 1..Len(b) : (a \o b)[Len(a) + i] = b[i]
  BY <1>1, <1>2
<1>5. \A i \in 1..Len(a \o b) : (a \o b)[i].op \in A \cup B
  <2> TAKE i \in 1..Len(a \o b)
  <2>1. CASE i <= Len(a)
    BY <1>1, <1>2, <2>1 DEF Only
  <2>2. CASE ~(i <= Len(a))
    <3>1. i - Len(a) \in 1..Len(b) /\ (a \o b)[i] = b[i - Len(a)]
      BY <1>1, <1>2, <2>2
    <3> QED
      BY <3>1 DEF Only
  <2> QED
    BY <2>1, <2>2
<1> QED
  BY <1>1, <1>2, <1>3, <1>4, <1>5 DEF Only

\* A function on 1..n is a sequence.
LEMMA FunctionIsSeq ==
  ASSUME NEW S, NEW n \in Nat, NEW f \in [1..n -> S]
  PROVE  f \in Seq(S)
BY SeqDef

\* Stop disables and joins, and joins each.
LEMMA StopShape ==
  ASSUME NEW q \in Seq(Threads)
  PROVE  /\ Only(Stop(q), {"disable", "join"})
         /\ \A k \in 1..Len(q) : \E i \in 1..Len(Stop(q)) : Stop(q)[i] = Step("join", q[k])
<1>1. Len(q) \in Nat /\ \A k \in 1..Len(q) : q[k] \in Threads
  BY LenProperties, ElementOfSeq
<1>2. \A i \in 1..(2 * Len(q)) : (i + 1) \div 2 \in 1..Len(q)
  BY <1>1
<1>3. \A i \in 1..(2 * Len(q)) : /\ Stop(q)[i] \in Steps
                                 /\ Stop(q)[i].op \in {"disable", "join"}
  BY <1>1, <1>2 DEF Stop, Step, Steps, Ops
<1>4. Stop(q) \in [1..(2 * Len(q)) -> Steps]
  BY <1>3 DEF Stop
<1>5. Stop(q) \in Seq(Steps)
  BY <1>1, <1>4, FunctionIsSeq
<1>6. 1..Len(Stop(q)) = 1..(2 * Len(q))
  BY <1>4, <1>5, LenProperties
<1>7. \A k \in 1..Len(q) : 2 * k \in 1..(2 * Len(q)) /\ Stop(q)[2 * k] = Step("join", q[k])
  <2> TAKE k \in 1..Len(q)
  <2>1. 2 * k \in 1..(2 * Len(q)) /\ (2 * k) % 2 = 0 /\ (2 * k + 1) \div 2 = k
    BY <1>1
  <2> QED
    BY <2>1 DEF Stop
<1> QED
  BY <1>3, <1>5, <1>6, <1>7 DEF Only

\* Start enables.
LEMMA StartShape ==
  ASSUME NEW q \in Seq(Threads)
  PROVE  Only(Start(q), {"enable"})
<1>1. Len(q) \in Nat /\ DOMAIN q = 1..Len(q) /\ \A k \in 1..Len(q) : q[k] \in Threads
  BY LenProperties, ElementOfSeq
<1>2. \A i \in 1..Len(q) : Start(q)[i] \in Steps /\ Start(q)[i].op = "enable"
  BY <1>1 DEF Start, Step, Steps, Ops
<1>3. Start(q) \in [1..Len(q) -> Steps]
  BY <1>1, <1>2 DEF Start
<1>4. Start(q) \in Seq(Steps)
  BY <1>1, <1>3, FunctionIsSeq
<1>5. 1..Len(Start(q)) = 1..Len(q)
  BY <1>3, <1>4, LenProperties
<1> QED
  BY <1>2, <1>4, <1>5 DEF Only

\* cleanup closes the database and joins every thread ...
LEMMA CleanupShape ==
  /\ Only(Cleanup, {"close", "disable", "join"})
  /\ \A s \in Loggers : \E i \in 1..Len(Cleanup) : Cleanup[i] = Step("join", s)
<1> DEFINE c == <<Step("close", Main)>>
           a == Stop(Scanners)
           b == Stop(Intercom)
<1>1. Only(c, {"close"}) /\ Only(a, {"disable", "join"}) /\ Only(b, {"disable", "join"})
  BY OnlyOne, StopShape, LifecycleAssumption DEF Ops
<1> HIDE DEF c, a, b
<1>2. /\ Only(c \o a, {"close"} \cup {"disable", "join"})
      /\ Len(c \o a) = Len(c) + Len(a) /\ Len(c) \in Nat /\ Len(a) \in Nat
      /\ \A i \in 1..Len(a) : (c \o a)[Len(c) + i] = a[i]
  BY <1>1, OnlyConcat
<1>3. /\ Only((c \o a) \o b, ({"close"} \cup {"disable", "join"}) \cup {"disable", "join"})
      /\ Len((c \o a) \o b) = Len(c \o a) + Len(b) /\ Len(b) \in Nat
      /\ \A i \in 1..Len(c \o a) : ((c \o a) \o b)[i] = (c \o a)[i]
      /\ \A i \in 1..Len(b) : ((c \o a) \o b)[Len(c \o a) + i] = b[i]
  BY <1>1, <1>2, OnlyConcat
<1>4. Cleanup = (c \o a) \o b
  BY DEF Cleanup, c, a, b
<1>5. \A i \in 1..Len(a) : \E j \in 1..Len(Cleanup) : Cleanup[j] = a[i]
  <2> TAKE i \in 1..Len(a)
  <2>1. Len(c) + i \in 1..Len(c \o a) /\ Len(c) + i \in 1..Len(Cleanup)
    BY <1>2, <1>3, <1>4
  <2> QED
    BY <1>2, <1>3, <1>4, <2>1
<1>6. \A i \in 1..Len(b) : \E j \in 1..Len(Cleanup) : Cleanup[j] = b[i]
  <2> TAKE i \in 1..Len(b)
  <2>1. Len(c \o a) + i \in 1..Len(Cleanup)
    BY <1>2, <1>3, <1>4
  <2> QED
    BY <1>3, <1>4, <2>1
<1>7. ASSUME NEW s \in Loggers
      PROVE  \/ \E k \in 1..Len(Scanners) : Scanners[k] = s
             \/ \E k \in 1..Len(Intercom) : Intercom[k] = s
  <2>1. /\ Scanners \in Seq(Threads) /\ Intercom \in Seq(Threads)
        /\ Scanners \o Intercom \in Seq(Threads)
    BY LifecycleAssumption, ConcatProperties
  <2>2. PICK k \in DOMAIN (Scanners \o Intercom) : (Scanners \o Intercom)[k] = s
    BY DEF Loggers, ToSet
  <2>3. k \in 1..(Len(Scanners) + Len(Intercom)) /\ Len(Scanners) \in Nat /\ Len(Intercom) \in Nat
    BY <2>1, <2>2, LenProperties, ConcatProperties
  <2>4. (Scanners \o Intercom)[k] = IF k <= Len(Scanners) THEN Scanners[k]
                                    ELSE Intercom[k - Len(Scanners)]
    BY <2>1, <2>3, ConcatProperties
  <2> QED
    BY <2>2, <2>3, <2>4
<1>8. \A s \in Loggers : \E i \in 1..Len(Cleanup) : Cleanup[i] = Step("join", s)
  <2> TAKE s \in Loggers
  <2>1. CASE \E k \in 1..Len(Scanners) : Scanners[k] = s
    <3>1. \E i \in 1..Len(a) : a[i] = Step("join", s)
      BY <2>1, StopShape, LifecycleAssumption DEF a
    <3> QED
      BY <3>1, <1>5
  <2>2. CASE \E k \in 1..Len(Intercom) : Intercom[k] = s
    <3>1. \E i \in 1..Len(b) : b[i] = Step("join", s)
      BY <2>2, StopShape, LifecycleAssumption DEF b
    <3> QED
      BY <3>1, <1>6
  <2> QED
    BY <1>7, <2>1, <2>2
<1>9. Only(Cleanup, {"close", "disable", "join"})
  BY <1>3, <1>4 DEF Only
<1> QED
  BY <1>8, <1>9

\* ... and init opens the database before it starts one.
LEMMA LaunchShape ==
  /\ Only(Launch, {"open", "enable"})
  /\ Len(Launch) >= 1 /\ Launch[1].op = "open"
  /\ \A i \in 2..Len(Launch) : Launch[i].op = "enable"
<1> DEFINE c == <<Step("open", Main)>>
           a == Start(Scanners)
           b == Start(Intercom)
<1>1. Only(c, {"open"}) /\ Only(a, {"enable"}) /\ Only(b, {"enable"})
  BY OnlyOne, StartShape, LifecycleAssumption DEF Ops
<1>2. Len(c) = 1 /\ c[1].op = "open"
  BY OnlyOne, StepIsStep DEF Ops
<1> HIDE DEF c, a, b
<1>3. /\ Only(c \o a, {"open"} \cup {"enable"})
      /\ Len(c \o a) = 1 + Len(a) /\ Len(a) \in Nat
      /\ (c \o a)[1] = c[1]
      /\ \A i \in 1..Len(a) : (c \o a)[1 + i] = a[i]
  <2>1. /\ Only(c \o a, {"open"} \cup {"enable"})
        /\ Len(c \o a) = Len(c) + Len(a) /\ Len(a) \in Nat
        /\ \A i \in 1..Len(c) : (c \o a)[i] = c[i]
        /\ \A i \in 1..Len(a) : (c \o a)[Len(c) + i] = a[i]
    BY <1>1, OnlyConcat
  <2> QED
    BY <1>2, <2>1
<1>4. /\ Only((c \o a) \o b, ({"open"} \cup {"enable"}) \cup {"enable"})
      /\ Len((c \o a) \o b) = 1 + Len(a) + Len(b) /\ Len(b) \in Nat
      /\ \A i \in 1..(1 + Len(a)) : ((c \o a) \o b)[i] = (c \o a)[i]
      /\ \A i \in 1..Len(b) : ((c \o a) \o b)[1 + Len(a) + i] = b[i]
  <2>1. /\ Only((c \o a) \o b, ({"open"} \cup {"enable"}) \cup {"enable"})
        /\ Len((c \o a) \o b) = Len(c \o a) + Len(b) /\ Len(b) \in Nat
        /\ \A i \in 1..Len(c \o a) : ((c \o a) \o b)[i] = (c \o a)[i]
        /\ \A i \in 1..Len(b) : ((c \o a) \o b)[Len(c \o a) + i] = b[i]
    <3>1. Only(c \o a, {"open"} \cup {"enable"}) /\ Only(b, {"enable"})
      BY <1>1, <1>3
    <3> QED
      BY <3>1, OnlyConcat
  <2> QED
    BY <1>3, <2>1
<1>5. Launch = (c \o a) \o b
  BY DEF Launch, c, a, b
<1>6. Launch[1].op = "open" /\ Len(Launch) >= 1
  BY <1>2, <1>3, <1>4, <1>5
<1>7. \A i \in 2..Len(Launch) : Launch[i].op = "enable"
  <2> TAKE i \in 2..Len(Launch)
  <2>1. CASE i <= 1 + Len(a)
    <3>1. i - 1 \in 1..Len(a) /\ Launch[i] = (c \o a)[1 + (i - 1)]
      BY <1>3, <1>4, <1>5, <2>1
    <3>2. Launch[i] = a[i - 1]
      BY <1>3, <3>1
    <3> QED
      BY <1>1, <3>1, <3>2 DEF Only
  <2>2. CASE ~(i <= 1 + Len(a))
    <3>1. i - 1 - Len(a) \in 1..Len(b) /\ i = 1 + Len(a) + (i - 1 - Len(a))
      BY <1>3, <1>4, <1>5, <2>2
    <3>2. Launch[i] = b[i - 1 - Len(a)]
      BY <1>4, <1>5, <3>1
    <3> QED
      BY <1>1, <3>1, <3>2 DEF Only
  <2> QED
    BY <2>1, <2>2
<1>8. Only(Launch, {"open", "enable"})
  BY <1>4, <1>5 DEF Only
<1> QED
  BY <1>6, <1>7, <1>8

\* restart closes the database, joins every thread, and opens it before it
\* starts the first.
LEMMA RestartShape ==
  /\ Only(Restart, {"close", "disable", "join", "open", "enable"})
  /\ \E k \in 1..Len(Restart) :
       /\ Restart[k].op = "open"
       /\ \A i \in 1..Len(Restart) :
            (i = k \/ Restart[i].op # "open") /\ (i < k \/ Restart[i].op # "close")
       /\ \A i \in 1..(k - 1) : Restart[i].op # "enable"
       /\ \A s \in Loggers : \E i \in 1..(k - 1) : Restart[i] = Step("join", s)
<1> DEFINE k == Len(Cleanup) + 1
<1>1. /\ Only(Cleanup \o Launch, {"close", "disable", "join"} \cup {"open", "enable"})
      /\ Len(Restart) = Len(Cleanup) + Len(Launch)
      /\ Len(Cleanup) \in Nat /\ Len(Launch) \in Nat
      /\ \A i \in 1..Len(Cleanup) : Restart[i] = Cleanup[i]
      /\ \A i \in 1..Len(Launch) : Restart[Len(Cleanup) + i] = Launch[i]
  BY CleanupShape, LaunchShape, OnlyConcat DEF Restart
<1>2. k \in 1..Len(Restart) /\ Restart[k].op = "open"
  <2>1. 1 \in 1..Len(Launch) /\ k \in 1..Len(Restart)
    BY <1>1, LaunchShape
  <2> QED
    BY <1>1, <2>1, LaunchShape
<1>3. ASSUME NEW i \in 1..Len(Restart), i # k
      PROVE  /\ i < k => Restart[i].op \in {"close", "disable", "join"}
             /\ ~(i < k) => Restart[i].op = "enable"
  <2>1. CASE i < k
    BY <1>1, <2>1, CleanupShape DEF Only
  <2>2. CASE ~(i < k)
    <3>1. i - Len(Cleanup) \in 2..Len(Launch) /\ i = Len(Cleanup) + (i - Len(Cleanup))
      BY <1>1, <1>3, <2>2
    <3>2. Restart[i] = Launch[i - Len(Cleanup)]
      BY <1>1, <3>1
    <3> QED
      BY <2>2, <3>1, <3>2, LaunchShape
  <2> QED
    BY <2>1, <2>2
<1>4. \A s \in Loggers : \E i \in 1..(k - 1) : Restart[i] = Step("join", s)
  BY <1>1, CleanupShape
<1>5. \A i \in 1..(k - 1) : Restart[i].op # "enable"
  <2> TAKE i \in 1..(k - 1)
  <2>1. i \in 1..Len(Restart) /\ i # k /\ i < k
    BY <1>1, <1>2
  <2> QED
    BY <1>3, <2>1
<1>6. \A i \in 1..Len(Restart) :
        (i = k \/ Restart[i].op # "open") /\ (i < k \/ Restart[i].op # "close")
  BY <1>2, <1>3
<1>7. Only(Restart, {"close", "disable", "join", "open", "enable"})
  BY <1>1 DEF Restart, Only
<1> QED
  BY <1>2, <1>4, <1>5, <1>6, <1>7

\* Waits come behind writes one after the other ...
LEMMA WaitedForConcat ==
  ASSUME NEW a, NEW b, NEW A, NEW B, Only(a, A), Only(b, B),
         WaitedFor(a), WaitedFor(b)
  PROVE  WaitedFor(a \o b)
<1> SUFFICES ASSUME NEW i \in 1..Len(a \o b), (a \o b)[i].op \in Writes
             PROVE  /\ i < Len(a \o b)
                    /\ (a \o b)[i + 1].op \in Writes \cup {"returned"}
  BY DEF WaitedFor
<1>1. /\ Len(a \o b) = Len(a) + Len(b) /\ Len(a) \in Nat /\ Len(b) \in Nat
      /\ \A j \in 1..Len(a) : (a \o b)[j] = a[j]
      /\ \A j \in 1..Len(b) : (a \o b)[Len(a) + j] = b[j]
  BY OnlyConcat
<1>2. CASE i <= Len(a)
  <2>1. i < Len(a) /\ a[i + 1].op \in Writes \cup {"returned"}
    BY <1>1, <1>2 DEF WaitedFor
  <2> QED
    BY <1>1, <2>1
<1>3. CASE ~(i <= Len(a))
  <2>1. i - Len(a) \in 1..Len(b) /\ i = Len(a) + (i - Len(a))
    BY <1>1, <1>3
  <2>2. i - Len(a) < Len(b) /\ b[i - Len(a) + 1].op \in Writes \cup {"returned"}
    BY <1>1, <2>1 DEF WaitedFor
  <2>3. i - Len(a) + 1 \in 1..Len(b) /\ i + 1 = Len(a) + (i - Len(a) + 1)
    BY <1>1, <2>1, <2>2
  <2> QED
    BY <1>1, <2>2, <2>3
<1> QED
  BY <1>2, <1>3

\* ... in the record of an enrollment ...
LEMMA RecordShape ==
  ASSUME NEW new \in BOOLEAN, NEW enrolled \in BOOLEAN
  PROVE  /\ Only(Record(new, enrolled), Writes \cup {"returned"})
         /\ WaitedFor(Record(new, enrolled))
<1> DEFINE a == IF new THEN <<Step("row", Main)>> ELSE <<>>
           b == IF enrolled
                THEN <<Step("insert", Main), Step("row", Main), Step("row", Main)>>
                ELSE <<>>
           c == <<Step("log", Main), Step("returned", Main)>>
<1>1. \A op \in Ops : Step(op, Main) \in Steps /\ Step(op, Main).op = op
  BY StepIsStep, LifecycleAssumption
<1>2. Only(a, Writes) /\ Only(b, Writes)
  BY <1>1 DEF Only, Writes, Ops
<1>3. /\ Only(c, Writes \cup {"returned"}) /\ Len(c) = 2
      /\ c[1].op = "log" /\ c[2].op = "returned"
  BY <1>1 DEF Only, Writes, Ops
<1> HIDE DEF a, b, c
<1>4. Only(a \o b, Writes \cup Writes)
  BY <1>2, OnlyConcat
<1>5. /\ Only((a \o b) \o c, (Writes \cup Writes) \cup (Writes \cup {"returned"}))
      /\ Len((a \o b) \o c) = Len(a \o b) + Len(c) /\ Len(a \o b) \in Nat
      /\ \A i \in 1..Len(a \o b) : ((a \o b) \o c)[i] = (a \o b)[i]
      /\ \A i \in 1..Len(c) : ((a \o b) \o c)[Len(a \o b) + i] = c[i]
  <2>1. Only(a \o b, Writes \cup Writes) /\ Only(c, Writes \cup {"returned"})
    BY <1>3, <1>4
  <2> QED
    BY <2>1, OnlyConcat
<1>6. Record(new, enrolled) = (a \o b) \o c
  BY DEF Record, a, b, c
<1>7. /\ ((a \o b) \o c)[Len(a \o b) + 1].op = "log"
      /\ ((a \o b) \o c)[Len(a \o b) + 2].op = "returned"
  BY <1>3, <1>5
<1>8. ASSUME NEW i \in 1..Len((a \o b) \o c), ((a \o b) \o c)[i].op \in Writes
      PROVE  /\ i < Len((a \o b) \o c)
             /\ ((a \o b) \o c)[i + 1].op \in Writes \cup {"returned"}
  <2>1. i # Len(a \o b) + 2 /\ i \in Nat
    BY <1>7, <1>8 DEF Writes
  <2>2. i < Len(a \o b) \/ i = Len(a \o b) \/ i = Len(a \o b) + 1
    BY <1>3, <1>5, <2>1
  <2>3. CASE i < Len(a \o b)
    <3>1. i + 1 \in 1..Len(a \o b) /\ i < Len((a \o b) \o c)
      BY <1>3, <1>5, <2>1, <2>3
    <3> QED
      BY <1>4, <1>5, <3>1 DEF Only
  <2>4. CASE i = Len(a \o b) \/ i = Len(a \o b) + 1
    BY <1>3, <1>5, <1>7, <2>4 DEF Writes
  <2> QED
    BY <2>2, <2>3, <2>4
<1> QED
  BY <1>5, <1>6, <1>8 DEF WaitedFor, Only

\* ... and in the whole of one, which leaves the database open.
LEMMA EnrollShape ==
  ASSUME NEW new \in BOOLEAN, NEW enrolled \in BOOLEAN
  PROVE  /\ Only(Enroll(new, enrolled), Ops \ {"open", "close"})
         /\ WaitedFor(Enroll(new, enrolled))
<1> DEFINE q == Reverse(Scanners)
           r == Record(new, enrolled)
<1>1. q \in Seq(Threads)
  <2>1. /\ Scanners \in Seq(Threads) /\ Len(Scanners) \in Nat
        /\ \A i \in 1..Len(Scanners) : Scanners[i] \in Threads
    BY LifecycleAssumption, LenProperties, ElementOfSeq
  <2>2. q \in [1..Len(Scanners) -> Threads]
    BY <2>1 DEF Reverse
  <2> QED
    BY <2>1, <2>2, FunctionIsSeq
<1>2. /\ Only(Stop(q), {"disable", "join"}) /\ Only(Start(q), {"enable"})
      /\ Only(r, Writes \cup {"returned"}) /\ WaitedFor(r)
  BY <1>1, StopShape, StartShape, RecordShape
<1> HIDE DEF q, r
<1>3. WaitedFor(Stop(q)) /\ WaitedFor(Start(q))
  BY <1>2 DEF WaitedFor, Only, Writes
<1>4. Only(Stop(q) \o r, {"disable", "join"} \cup (Writes \cup {"returned"}))
  BY <1>2, OnlyConcat
<1>5. WaitedFor(Stop(q) \o r)
  BY <1>2, <1>3, WaitedForConcat
<1>6. Only((Stop(q) \o r) \o Start(q),
           ({"disable", "join"} \cup (Writes \cup {"returned"})) \cup {"enable"})
  BY <1>2, <1>4, OnlyConcat
<1>7. WaitedFor((Stop(q) \o r) \o Start(q))
  BY <1>2, <1>3, <1>4, <1>5, WaitedForConcat
<1> QED
  BY <1>6, <1>7 DEF Enroll, Only, Writes, Ops, q, r
-----------------------------------------------------------------------------
\* The types, without those of the log.
ThreadTypes ==
  /\ enabled \in [Loggers -> BOOLEAN] /\ alive \in [Loggers -> BOOLEAN]
  /\ turn \in [Loggers -> BOOLEAN]
MainTypes ==
  /\ todo \in Seq(Steps)
  /\ prompt \in BOOLEAN /\ due \in BOOLEAN
  /\ restarts \in 0..MaxRestarts

\* The types hold when their three parts do.
LEMMA Parts == TypeOK <=> LogTypeOK /\ ThreadTypes /\ MainTypes
BY DEF TypeOK, ThreadTypes, MainTypes, Steps

\* The same after a step.
LEMMA PartsNext == TypeOK' <=> LogTypeOK' /\ ThreadTypes' /\ MainTypes'
BY DEF TypeOK, ThreadTypes, MainTypes, Steps

\* The main thread is none of those that log what they decide.
LEMMA MainIsNoLogger ==
  /\ Main \in Threads /\ Main \notin Loggers /\ Loggers \subseteq Threads
  /\ \A t \in Threads : t \in Loggers \/ t = Main
BY LifecycleAssumption

\* What must hold of the log and the threads for the main thread to take the
\* first step of its command and keep what is left of it in order.
LEMMA CommandStep ==
  ASSUME IInv, todo # <<>>, todo' = Tail(todo), UNCHANGED prompt,
         Head(todo).op = "enable" \/
           \A s \in Loggers : alive'[s] => alive[s] /\ Head(todo) # Step("join", s),
         ~open' => Head(todo).op = "close" \/ (~open /\ Head(todo).op # "open"),
         at'[Main] # "out" => Head(todo).op \in Writes
  PROVE  Waited' /\ Reopens' /\ todo' \in Seq(Steps)
<1>1. todo \in Seq(Steps) /\ Waited /\ Reopens
  BY Parts DEF IInv, MainTypes
<1>2. /\ todo' \in Seq(Steps) /\ Len(todo) \in Nat \ {0} /\ Len(todo') = Len(todo) - 1
      /\ \A i \in 1..Len(todo') : todo'[i] = todo[i + 1]
      /\ Head(todo) = todo[1]
  BY <1>1, HeadTailProperties, EmptySeq
<1>3. \A i \in 1..Len(todo') : i + 1 \in 1..Len(todo) /\ i \in Nat
  BY <1>2
<1>4. Waited'
  <2>1. ASSUME NEW i \in 1..Len(todo'), todo'[i].op \in Writes
        PROVE  i < Len(todo') /\ todo'[i + 1].op \in Writes \cup {"returned"}
    <3>1. i + 1 < Len(todo) /\ todo[i + 2].op \in Writes \cup {"returned"}
      BY <1>1, <1>2, <1>3, <2>1 DEF Waited
    <3>2. i + 1 \in 1..Len(todo') /\ i < Len(todo')
      BY <1>2, <3>1
    <3> QED
      BY <1>2, <3>1, <3>2
  <2>2. ASSUME at'[Main] # "out"
        PROVE  todo' # <<>> /\ Head(todo').op \in Writes \cup {"returned"}
    <3>1. 1 < Len(todo) /\ todo[2].op \in Writes \cup {"returned"}
      BY <1>1, <1>2, <2>2 DEF Waited
    <3>2. Len(todo') >= 1 /\ todo'[1] = todo[2]
      BY <1>2, <3>1
    <3>3. todo' # <<>>
      BY <3>2
    <3>4. Head(todo') = todo'[1]
      BY <1>2, <3>3, HeadTailProperties
    <3> QED
      BY <3>1, <3>2, <3>3, <3>4
  <2> QED
    BY <2>1, <2>2 DEF Waited
<1>5. ASSUME NEW i \in 1..Len(todo'), todo'[i].op = "open"
      PROVE  EndedBefore(i)'
  <2>1. EndedBefore(i + 1) /\ Head(todo).op # "enable"
    <3>1. EndedBefore(i + 1)
      BY <1>1, <1>2, <1>3, <1>5 DEF Reopens
    <3>2. 1 \in 1..((i + 1) - 1)
      BY <1>3
    <3> QED
      BY <1>2, <3>1, <3>2 DEF EndedBefore
  <2>2. \A j \in 1..(i - 1) : j + 1 \in 1..((i + 1) - 1) /\ todo'[j] = todo[j + 1]
    BY <1>2, <1>3
  <2>3. ASSUME NEW s \in Loggers, alive'[s]
        PROVE  \E j \in 1..(i - 1) : todo'[j] = Step("join", s)
    <3>1. alive[s] /\ Head(todo) # Step("join", s)
      BY <2>1, <2>3
    <3>2. PICK j \in 1..((i + 1) - 1) : todo[j] = Step("join", s)
      BY <2>1, <3>1 DEF EndedBefore
    <3>3. j # 1
      BY <1>2, <3>1, <3>2
    <3>4. j - 1 \in 1..(i - 1) /\ (j - 1) + 1 = j
      BY <1>3, <3>2, <3>3
    <3> QED
      BY <2>2, <3>2, <3>4
  <2>4. \A j \in 1..(i - 1) : todo'[j].op # "enable"
    BY <2>1, <2>2 DEF EndedBefore
  <2> QED
    BY <2>3, <2>4 DEF EndedBefore
<1>6. ASSUME NEW i \in 1..Len(todo), todo[i].op = "open", i # 1
      PROVE  i - 1 \in 1..Len(todo') /\ todo'[i - 1].op = "open"
  BY <1>2, <1>6
<1>7. ASSUME ~open' PROVE \E i \in 1..Len(todo') : todo'[i].op = "open"
  <2>1. CASE Head(todo).op = "close"
    <3>1. PICK j \in (1 + 1)..Len(todo) : todo[j].op = "open"
      BY <1>1, <1>2, <2>1 DEF Reopens
    <3>2. j \in 1..Len(todo) /\ j # 1
      BY <1>2
    <3> QED
      BY <1>6, <3>1, <3>2
  <2>2. CASE ~open /\ Head(todo).op # "open"
    <3>1. PICK j \in 1..Len(todo) : todo[j].op = "open"
      BY <1>1, <2>2 DEF Reopens
    <3>2. j # 1
      BY <1>2, <2>2, <3>1
    <3> QED
      BY <1>6, <3>1, <3>2
  <2> QED
    BY <1>7, <2>1, <2>2
<1>8. ASSUME NEW i \in 1..Len(todo'), todo'[i].op = "close"
      PROVE  \E j \in (i + 1)..Len(todo') : todo'[j].op = "open"
  <2>1. PICK j \in ((i + 1) + 1)..Len(todo) : todo[j].op = "open"
    BY <1>1, <1>2, <1>3, <1>8 DEF Reopens
  <2>2. j \in 1..Len(todo) /\ j # 1 /\ j - 1 \in (i + 1)..Len(todo')
    BY <1>2, <1>3, <2>1
  <2> QED
    BY <1>6, <2>1, <2>2
<1>9. prompt' => todo' = <<>>
  BY <1>1 DEF Reopens
<1> QED
  BY <1>2, <1>4, <1>5, <1>7, <1>8, <1>9 DEF Reopens

\* A new command is in order.
LEMMA NewCommand ==
  ASSUME IInv, todo = <<>>, ~prompt', UNCHANGED <<logVars, threadVars>>,
         \/ todo' = <<>> \/ todo' = Restart
         \/ \E new, enrolled \in BOOLEAN : todo' = Enroll(new, enrolled)
  PROVE  Waited' /\ Reopens' /\ todo' \in Seq(Steps)
<1> USE DEF logVars, callVars, connVars, threadVars
<1>1. at[Main] = "out" /\ open
  <2>1. ~(\E i \in 1..Len(todo) : todo[i].op = "open")
    OBVIOUS
  <2> QED
    BY <2>1 DEF IInv, Waited, Reopens
<1>2. at'[Main] = "out" /\ open'
  BY <1>1
<1>3. CASE todo' = <<>>
  <2>1. todo' \in Seq(Steps) /\ \A i \in 1..Len(todo') : FALSE
    BY <1>3
  <2> QED
    BY <1>2, <2>1 DEF Waited, Reopens
<1>4. CASE todo' = Restart
  <2>1. Only(todo', {"close", "disable", "join", "open", "enable"})
    BY <1>4, RestartShape
  <2>2. Waited'
    BY <1>2, <2>1 DEF Waited, Only, Writes
  <2>3. PICK k \in 1..Len(todo') :
          /\ todo'[k].op = "open"
          /\ \A i \in 1..Len(todo') :
               (i = k \/ todo'[i].op # "open") /\ (i < k \/ todo'[i].op # "close")
          /\ \A i \in 1..(k - 1) : todo'[i].op # "enable"
          /\ \A s \in Loggers : \E i \in 1..(k - 1) : todo'[i] = Step("join", s)
    BY <1>4, RestartShape
  <2>4. EndedBefore(k)'
    BY <2>3 DEF EndedBefore
  <2>5. \A i \in 1..Len(todo') : todo'[i].op = "open" => EndedBefore(i)'
    BY <2>3, <2>4
  <2>6. \A i \in 1..Len(todo') : todo'[i].op = "close" =>
          \E j \in (i + 1)..Len(todo') : todo'[j].op = "open"
    <3> SUFFICES ASSUME NEW i \in 1..Len(todo'), todo'[i].op = "close"
                 PROVE  k \in (i + 1)..Len(todo')
      BY <2>3
    <3>1. i < k
      BY <2>3
    <3> QED
      BY <3>1
  <2> QED
    BY <1>2, <2>1, <2>2, <2>5, <2>6 DEF Reopens, Only
<1>5. CASE \E new, enrolled \in BOOLEAN : todo' = Enroll(new, enrolled)
  <2>1. Only(todo', Ops \ {"open", "close"}) /\ WaitedFor(todo')
    BY <1>5, EnrollShape
  <2>2. \A i \in 1..Len(todo') : todo'[i].op \notin {"open", "close"}
    BY <2>1 DEF Only
  <2> QED
    BY <1>2, <2>1, <2>2 DEF Waited, WaitedFor, Reopens, Only
<1> QED
  BY <1>3, <1>4, <1>5

\* What is left of a command stays in order while threads end.
LEMMA CommandKept ==
  ASSUME IInv, UNCHANGED <<todo, prompt, open>>,
         \A s \in Loggers : alive'[s] => alive[s],
         at'[Main] # "out" => at[Main] # "out"
  PROVE  Waited' /\ Reopens'
<1>1. Waited /\ Reopens
  BY DEF IInv
<1>2. Waited'
  BY <1>1 DEF Waited
<1>3. \A i \in 1..Len(todo) : EndedBefore(i) => EndedBefore(i)'
  BY DEF EndedBefore
<1>4. Reopens'
  BY <1>1, <1>3 DEF Reopens
<1> QED
  BY <1>2, <1>4
-----------------------------------------------------------------------------
Places == Inside \cup {"out", "query", "enter", "post", "undefined"}

\* A call moves the thread that is in it, and no other.
LEMMA ExecMoves ==
  ASSUME NEW t \in Threads, Exec(t), at \in [Threads -> Places]
  PROVE  /\ at[t] # "out" /\ UNCHANGED open
         /\ \A u \in Threads : u # t => at'[u] = at[u]
BY DEF Exec, Query, Enter, Begin, Statement, End, Leave, Post, Goto, Undefined, connVars

\* Each thread is somewhere.
LEMMA Locations == ASSUME LogInv PROVE at \in [Threads -> Places]
BY DEF LogInv, LogTypeOK, Places

\* The whole of the invariant, once its parts are known.
LEMMA Together ==
  ASSUME LogInv', ThreadTypes', MainTypes', Waited', Reopens', Ended'
  PROVE  IInv'
BY PartsNext DEF IInv, LogInv

\* A call of the connection keeps the log's invariant.
LEMMA ExecInv == ASSUME LogInv, NEW t \in Threads, Exec(t) PROVE LogInv'
BY ExecTypes, ExecMutex, ExecTransaction, ExecPosted DEF LogInv

\* The steps of a thread that logs.
LEMMA LoggerStep ==
  ASSUME IInv, NEW s \in Loggers, Logger(s)
  PROVE  IInv'
<1> USE DEF threadVars, mainVars
<1>1. /\ LogInv /\ ThreadTypes /\ MainTypes /\ Ended /\ Waited /\ Reopens
      /\ s \in Threads /\ s # Main
      /\ at \in [Threads -> Places]
  BY Parts, MainIsNoLogger, Locations DEF IInv
<1>2. UNCHANGED mainVars
  BY DEF Logger, Turn, Decide, Call, EndThread
<1>3. MainTypes'
  BY <1>1, <1>2 DEF MainTypes
<1>4. ASSUME UNCHANGED open, at'[Main] = at[Main],
             \A u \in Loggers : alive'[u] => alive[u]
      PROVE  Waited' /\ Reopens'
  BY <1>2, <1>4, CommandKept
<1>5. CASE Turn(s)
  <2>1. LogInv'
    BY <1>1, <1>5, LogStays DEF Turn
  <2>2. ThreadTypes' /\ Ended'
    BY <1>1, <1>5 DEF Turn, ThreadTypes, Ended, logVars, callVars
  <2>3. Waited' /\ Reopens'
    BY <1>4, <1>5 DEF Turn, logVars, callVars, connVars
  <2> QED
    BY <1>3, <2>1, <2>2, <2>3, Together
<1>6. CASE Decide(s)
  <2>1. UNCHANGED logVars \/ Log(s, "enter") \/ Log(s, "query")
    BY <1>6 DEF Decide
  <2>2. LogInv'
    BY <1>1, <2>1, LogStays, LogBegins
  <2>3. UNCHANGED open /\ \A u \in Threads : u # s => at'[u] = at[u]
    BY <1>1, <2>1 DEF Log, Goto, logVars, callVars, connVars
  <2>4. alive[s] /\ UNCHANGED alive
    BY <1>1, <1>6 DEF Decide, Ended
  <2>5. ThreadTypes'
    BY <1>1, <1>6 DEF Decide, ThreadTypes
  <2>6. Ended'
    BY <1>1, <1>6, <2>3, <2>4, MainIsNoLogger DEF Decide, ThreadTypes, Ended
  <2>7. Waited' /\ Reopens'
    BY <1>1, <1>4, <2>3, <2>4, MainIsNoLogger
  <2> QED
    BY <1>3, <2>2, <2>5, <2>6, <2>7, Together
<1>7. CASE Call(s)
  <2>1. LogInv'
    BY <1>1, <1>7, ExecInv DEF Call
  <2>2. at[s] # "out" /\ UNCHANGED open /\ \A u \in Threads : u # s => at'[u] = at[u]
    BY <1>1, <1>7, ExecMoves DEF Call
  <2>3. ThreadTypes'
    BY <1>1, <1>7 DEF Call, ThreadTypes
  <2>4. Ended'
    BY <1>1, <1>7, <2>2, MainIsNoLogger DEF Call, Ended
  <2>5. Waited' /\ Reopens'
    BY <1>1, <1>4, <1>7, <2>2, MainIsNoLogger DEF Call
  <2> QED
    BY <1>3, <2>1, <2>3, <2>4, <2>5, Together
<1>8. CASE EndThread(s)
  <2>1. LogInv'
    BY <1>1, <1>8, LogEnds DEF EndThread
  <2>2. ThreadTypes' /\ Ended'
    BY <1>1, <1>8 DEF EndThread, ThreadTypes, Ended, callVars
  <2>3. \A u \in Loggers : alive'[u] => alive[u]
    BY <1>1, <1>8 DEF EndThread, ThreadTypes
  <2>4. Waited' /\ Reopens'
    BY <1>4, <1>8, <2>3 DEF EndThread, callVars, connVars
  <2> QED
    BY <1>3, <2>1, <2>2, <2>4, Together
<1> QED
  BY <1>5, <1>6, <1>7, <1>8 DEF Logger

\* The steps of the main thread that leave the threads and the log alone.
LEMMA OperatorStep ==
  ASSUME IInv, Top \/ Operator \/ Elapse
  PROVE  IInv'
<1>1. /\ LogInv /\ ThreadTypes /\ MainTypes /\ Ended /\ Waited /\ Reopens
      /\ MaxRestarts \in Nat
  BY Parts, LifecycleAssumption DEF IInv
<1>2. UNCHANGED <<logVars, threadVars>>
  BY DEF Top, Operator, TypeNothing, TypeEnroll, TypeRestart, Line, Elapse
<1>3. LogInv'
  BY <1>1, <1>2, LogStays
<1>4. ThreadTypes' /\ Ended'
  BY <1>1, <1>2 DEF ThreadTypes, Ended, threadVars, logVars, callVars
<1>5. prompt' \in BOOLEAN /\ due' \in BOOLEAN /\ restarts' \in 0..MaxRestarts
  <2>1. \/ UNCHANGED restarts
        \/ restarts < MaxRestarts /\ restarts' = restarts + 1
    BY DEF Top, Operator, TypeNothing, TypeEnroll, TypeRestart, Elapse
  <2>2. restarts' \in 0..MaxRestarts
    BY <1>1, <2>1 DEF MainTypes
  <2>3. (prompt' \in BOOLEAN \/ prompt' = prompt) /\ (due' \in BOOLEAN \/ due' = due)
    BY DEF Top, Operator, TypeNothing, TypeEnroll, TypeRestart, Line, Elapse
  <2> QED
    BY <1>1, <2>2, <2>3 DEF MainTypes
<1>6. CASE UNCHANGED todo /\ (todo = <<>> \/ UNCHANGED prompt)
  <2>1. UNCHANGED <<at, open, alive>>
    BY <1>2 DEF logVars, callVars, connVars, threadVars
  <2>2. Waited'
    BY <1>1, <1>6, <2>1 DEF Waited
  <2>3. \A i \in 1..Len(todo) : EndedBefore(i) => EndedBefore(i)'
    BY <1>6, <2>1 DEF EndedBefore
  <2>4. Reopens'
    BY <1>1, <1>6, <2>1, <2>3 DEF Reopens
  <2>5. MainTypes'
    BY <1>1, <1>5, <1>6 DEF MainTypes
  <2> QED
    BY <1>3, <1>4, <2>2, <2>4, <2>5, Together
<1>7. ASSUME todo = <<>>, ~prompt',
             \/ todo' = <<>> \/ todo' = Restart
             \/ \E new, enrolled \in BOOLEAN : todo' = Enroll(new, enrolled)
      PROVE  IInv'
  <2>1. Waited' /\ Reopens' /\ todo' \in Seq(Steps)
    BY <1>2, <1>7, NewCommand
  <2>2. MainTypes'
    BY <1>5, <2>1 DEF MainTypes
  <2> QED
    BY <1>3, <1>4, <2>1, <2>2, Together
<1>8. CASE Top
  <2>1. CASE UNCHANGED todo
    BY <1>6, <1>8, <2>1 DEF Top
  <2>2. CASE ~UNCHANGED todo
    BY <1>7, <1>8, <2>2 DEF Top
  <2> QED
    BY <2>1, <2>2
<1>9. CASE Operator
  <2>1. prompt /\ todo = <<>>
    BY <1>1, <1>9 DEF Operator, TypeNothing, TypeEnroll, TypeRestart, Line, Reopens
  <2> QED
    BY <1>7, <1>9, <2>1 DEF Operator, TypeNothing, TypeEnroll, TypeRestart, Line
<1>10. CASE Elapse
  BY <1>6, <1>10 DEF Elapse
<1> QED
  BY <1>8, <1>9, <1>10

\* The steps of the main thread in a command.
LEMMA MainThreadStep ==
  ASSUME IInv, MainStep, ~Top
  PROVE  IInv'
<1> USE DEF threadVars
<1>1. /\ LogInv /\ ThreadTypes /\ MainTypes /\ Ended /\ Waited /\ Reopens
      /\ Main \in Threads /\ Main \notin Loggers
      /\ at \in [Threads -> Places]
  BY Parts, MainIsNoLogger, Locations DEF IInv
<1>2. UNCHANGED <<prompt, restarts>> /\ due' \in BOOLEAN /\ prompt \in BOOLEAN
      /\ restarts \in 0..MaxRestarts
  BY <1>1 DEF MainTypes, MainStep, Disable, Join, Enable, CloseDatabase, OpenDatabase,
              Insert, Write, LogEnroll, Call, Returned, mainVars
<1>3. ASSUME todo # <<>>, Head(todo).op \notin Writes \cup {"returned"}
      PROVE  at[Main] = "out"
  BY <1>1, <1>3 DEF Waited
<1>4. ASSUME LogInv', Waited', Reopens', todo' \in Seq(Steps), UNCHANGED threadVars,
             \A u \in Threads : u # Main => at'[u] = at[u]
      PROVE  IInv'
  <2>1. ThreadTypes' /\ MainTypes'
    BY <1>1, <1>2, <1>4 DEF ThreadTypes, MainTypes
  <2>2. Ended'
    BY <1>1, <1>4, MainIsNoLogger DEF Ended
  <2> QED
    BY <1>4, <2>1, <2>2, Together
<1>5. CASE Disable
  <2>1. UNCHANGED logVars /\ at'[Main] = "out" /\ LogInv'
    BY <1>1, <1>3, <1>5, LogStays DEF Disable, Takes, Writes, logVars, callVars
  <2>2. Waited' /\ Reopens' /\ todo' \in Seq(Steps)
    BY <1>5, <2>1, CommandStep DEF Disable, Takes, Step, logVars, connVars
  <2>3. ThreadTypes' /\ MainTypes'
    BY <1>1, <1>2, <1>5, <2>2 DEF Disable, ThreadTypes, MainTypes
  <2>4. Ended'
    BY <1>1, <1>5, <2>1 DEF Disable, Ended, logVars, callVars
  <2> QED
    BY <2>1, <2>2, <2>3, <2>4, Together
<1>6. CASE Join
  <2>1. UNCHANGED logVars /\ at'[Main] = "out" /\ LogInv'
    BY <1>1, <1>3, <1>6, LogStays DEF Join, Takes, Writes, logVars, callVars
  <2>2. \A s \in Loggers : alive'[s] => alive[s] /\ Head(todo) # Step("join", s)
    BY <1>6 DEF Join, Step, Arg
  <2>3. Waited' /\ Reopens' /\ todo' \in Seq(Steps)
    BY <1>6, <2>1, <2>2, CommandStep DEF Join, Takes, logVars, connVars
  <2> QED
    BY <1>4, <1>6, <2>1, <2>3 DEF Join, logVars, callVars
<1>7. CASE Enable
  <2>1. UNCHANGED logVars /\ at'[Main] = "out" /\ LogInv'
    BY <1>1, <1>3, <1>7, LogStays DEF Enable, Takes, Writes, logVars, callVars
  <2>2. Waited' /\ Reopens' /\ todo' \in Seq(Steps)
    BY <1>7, <2>1, CommandStep DEF Enable, Takes, logVars, connVars
  <2>3. ThreadTypes' /\ MainTypes'
    BY <1>1, <1>2, <1>7, <2>2 DEF Enable, ThreadTypes, MainTypes
  <2>4. Ended'
    BY <1>1, <1>7, <2>1 DEF Enable, Ended, ThreadTypes, logVars, callVars
  <2> QED
    BY <2>1, <2>2, <2>3, <2>4, Together
<1>9. CASE CloseDatabase
  <2>1. /\ Takes("close") /\ at[Main] = "out" /\ owner \in {NoThread, Main}
        /\ UNCHANGED at
    BY <1>3, <1>9 DEF CloseDatabase, Close, Takes, Writes, callVars
  <2>2. \A t \in Threads : at[t] \notin Inside
    BY <1>1, <2>1, EventLogAssumption DEF LogInv, MutexKept, Inside
  <2>3. /\ open' \in BOOLEAN /\ reading' \in BOOLEAN
        /\ stale' \in {"none", "shared", "reserved"} /\ UNCHANGED <<callVars, fileVars>>
        /\ \/ UNCHANGED <<txn, pending, mutexVars>>
           \/ txn' = FALSE /\ pending' = {} /\ owner' = NoThread /\ depth' = 0
    BY <1>1, <1>9 DEF CloseDatabase, Close, LogInv, LogTypeOK
  <2>4. LogInv'
    BY <1>1, <2>2, <2>3, LogReopens
  <2>5. Waited' /\ Reopens' /\ todo' \in Seq(Steps)
    BY <1>9, <2>1, CommandStep DEF CloseDatabase, Takes, Step
  <2> QED
    BY <1>4, <1>9, <2>1, <2>4, <2>5 DEF CloseDatabase
<1>10. CASE OpenDatabase
  <2>1. /\ Takes("open") /\ at[Main] = "out" /\ UNCHANGED at /\ open' = TRUE
    BY <1>3, <1>10 DEF OpenDatabase, Open, Takes, Writes, callVars
  <2>2. \A s \in Loggers : ~alive[s]
    <3>1. 1 \in 1..Len(todo) /\ todo[1].op = "open"
      BY <1>1, <2>1, EmptySeq, HeadTailProperties DEF Takes, MainTypes
    <3>2. EndedBefore(1)
      BY <1>1, <3>1 DEF Reopens
    <3> QED
      BY <3>2 DEF EndedBefore
  <2>3. \A t \in Threads : at[t] \notin Inside
    BY <1>1, <2>1, <2>2, MainIsNoLogger DEF Ended, Inside
  <2>4. /\ open' \in BOOLEAN /\ reading' \in BOOLEAN
        /\ stale' \in {"none", "shared", "reserved"} /\ UNCHANGED <<callVars, fileVars>>
        /\ txn' = FALSE /\ pending' = {} /\ owner' = NoThread /\ depth' = 0
    BY <1>1, <1>10 DEF OpenDatabase, Open, LogInv, LogTypeOK
  <2>5. LogInv'
    BY <1>1, <2>3, <2>4, LogReopens
  <2>6. Waited' /\ Reopens' /\ todo' \in Seq(Steps)
    BY <1>10, <2>1, CommandStep DEF OpenDatabase, Takes, Step
  <2> QED
    BY <1>4, <1>10, <2>1, <2>5, <2>6 DEF OpenDatabase
<1>11. CASE Insert
  <2>1. /\ Takes("insert") /\ at[Main] = "out" /\ UNCHANGED <<at, open>>
    BY <1>11 DEF Insert, InsertFingerprint, callVars
  <2>2. LogInv'
    <3>1. /\ reading' = TRUE
          /\ UNCHANGED <<callVars, mutexVars, fileVars, open, txn, pending, stale>>
      BY <1>11 DEF Insert, InsertFingerprint
    <3>2. LogTypeOK' /\ MutexKept' /\ Transaction' /\ PostedIsStored'
      BY <1>1, <3>1 DEF LogInv, LogTypeOK, MutexKept, Transaction, PostedIsStored,
                        callVars, mutexVars, fileVars
    <3> QED
      BY <3>2 DEF LogInv
  <2>3. Waited' /\ Reopens' /\ todo' \in Seq(Steps)
    BY <1>11, <2>1, CommandStep DEF Insert, Takes, Step
  <2> QED
    BY <1>4, <1>11, <2>1, <2>2, <2>3 DEF Insert
<1>12. CASE Write \/ LogEnroll
  <2>1. /\ Takes("row") \/ Takes("log")
        /\ InsertRow(Main) \/ Log(Main, "enter") \/ UNCHANGED logVars
        /\ UNCHANGED threadVars
    BY <1>12 DEF Write, LogEnroll
  <2>2. LogInv'
    BY <1>1, <2>1, LogBegins, LogStays
  <2>3. UNCHANGED open /\ \A u \in Threads : u # Main => at'[u] = at[u]
    BY <1>1, <2>1 DEF InsertRow, Log, Goto, logVars, callVars, connVars
  <2>4. Waited' /\ Reopens' /\ todo' \in Seq(Steps)
    BY <1>2, <2>1, <2>3, CommandStep DEF Takes, Step, Writes
  <2> QED
    BY <1>4, <2>1, <2>2, <2>3, <2>4
<1>13. CASE Returned
  <2>1. Takes("returned") /\ at[Main] = "out" /\ UNCHANGED <<at, open>> /\ LogInv'
    BY <1>1, <1>13, LogStays DEF Returned, logVars, callVars, connVars
  <2>2. Waited' /\ Reopens' /\ todo' \in Seq(Steps)
    BY <1>13, <2>1, CommandStep DEF Returned, Takes, Step
  <2> QED
    BY <1>4, <1>13, <2>1, <2>2 DEF Returned
<1>14. CASE Call(Main)
  <2>1. LogInv' /\ UNCHANGED mainVars /\ UNCHANGED threadVars
    BY <1>1, <1>14, ExecInv DEF Call
  <2>2. /\ at[Main] # "out" /\ UNCHANGED open
        /\ \A u \in Threads : u # Main => at'[u] = at[u]
    BY <1>1, <1>14, ExecMoves DEF Call
  <2>3. Waited' /\ Reopens' /\ todo' \in Seq(Steps)
    BY <1>1, <2>1, <2>2, CommandKept DEF mainVars, MainTypes
  <2> QED
    BY <1>4, <2>1, <2>2, <2>3
<1> QED
  BY <1>5, <1>6, <1>7, <1>9, <1>10, <1>11, <1>12, <1>13, <1>14 DEF MainStep
-----------------------------------------------------------------------------
\* The invariant holds at first ...
LEMMA InitInv == Init => IInv
<1> SUFFICES ASSUME Init PROVE IInv
  OBVIOUS
<1> USE EventLogAssumption, LifecycleAssumption DEF Init, LogInit
<1>0. 0 \in 0..MaxEvents /\ 0 \in 0..MaxFaults /\ 0 \in 0..MaxRestarts
  BY ONLY EventLogAssumption, LifecycleAssumption
<1>1. LogTypeOK
  <2>1. /\ at \in [Threads -> Inside \cup {"out", "query", "enter", "post", "undefined"}]
        /\ event \in [Threads -> Events \cup {Row}]
    OBVIOUS
  <2> QED
    BY <1>0, <2>1 DEF LogTypeOK
<1>2. MutexKept /\ Transaction
  BY DEF MutexKept, Transaction, Inside
<1>3. PostedIsStored
  BY DEF PostedIsStored
<1>4. ThreadTypes
  BY DEF ThreadTypes
<1>5. MainTypes
  <2>1. todo = <<>> /\ prompt = FALSE /\ due = FALSE /\ restarts = 0
    OBVIOUS
  <2> QED
    BY ONLY <1>0, <2>1, EmptySeq DEF MainTypes
<1>6. todo = <<>> /\ \A i \in 1..Len(todo) : FALSE
  OBVIOUS
<1>7. Waited /\ Reopens
  BY <1>6 DEF Waited, Reopens
<1>8. Ended
  BY DEF Ended
<1> QED
  BY <1>1, <1>2, <1>3, <1>4, <1>5, <1>7, <1>8, Parts DEF IInv, LogInv

\* ... every step keeps it ...
LEMMA NextInv == IInv /\ [Next]_vars => IInv'
<1> SUFFICES ASSUME IInv, [Next]_vars PROVE IInv'
  OBVIOUS
<1>1. CASE UNCHANGED vars
  <2>1. /\ LogInv /\ ThreadTypes /\ MainTypes /\ Ended
        /\ UNCHANGED logVars /\ UNCHANGED threadVars /\ UNCHANGED mainVars
    BY <1>1, Parts DEF IInv, vars
  <2>2. LogInv'
    BY <2>1, LogStays
  <2>3. ThreadTypes' /\ MainTypes' /\ Ended'
    BY <2>1 DEF ThreadTypes, MainTypes, Ended, threadVars, mainVars, logVars, callVars
  <2>4. Waited' /\ Reopens'
    BY <2>1, CommandKept DEF threadVars, mainVars, logVars, callVars, connVars
  <2> QED
    BY <2>2, <2>3, <2>4, Together
<1> QED
  BY <1>1, LoggerStep, OperatorStep, MainThreadStep DEF Next

\* ... and implies what the runs check.
LEMMA InvProperties ==
  ASSUME IInv
  PROVE  /\ LifecycleInv /\ PostedIsStored
         /\ OneWriterPerTransaction /\ CleanBetweenLives
<1>1. LogInv /\ Reopens /\ TypeOK /\ MainTypes
  BY Parts DEF IInv
<1>2. OneWriterPerTransaction
  <2>1. Transaction /\ txn \in BOOLEAN
    BY <1>1 DEF LogInv, LogTypeOK
  <2>2. pending = {} \/ \E e \in pending : pending = {e}
    BY <2>1 DEF Transaction
  <2>3. Cardinality(pending) <= 1
    BY <2>2, FS_EmptySet, FS_Singleton
  <2>4. pending # {} => txn /\ owner # NoThread
    BY <2>1 DEF Transaction
  <2> QED
    BY <2>3, <2>4 DEF OneWriterPerTransaction
<1>3. ASSUME todo # <<>>, Head(todo).op = "open", NEW s \in Loggers
      PROVE  ~alive[s]
  <2>1. 1 \in 1..Len(todo) /\ todo[1].op = "open"
    BY <1>1, <1>3, EmptySeq, HeadTailProperties DEF MainTypes
  <2> QED
    BY <1>1, <2>1 DEF Reopens, EndedBefore
<1>4. ASSUME ~open, NEW s \in Loggers, alive[s]
      PROVE  \E i \in DOMAIN todo : todo[i] = Step("join", s)
  <2>1. PICK k \in 1..Len(todo) : todo[k].op = "open"
    BY <1>1, <1>4 DEF Reopens
  <2>2. PICK i \in 1..(k - 1) : todo[i] = Step("join", s)
    BY <1>1, <1>4, <2>1 DEF Reopens, EndedBefore
  <2>3. i \in DOMAIN todo
    BY <1>1, LenProperties DEF MainTypes
  <2> QED
    BY <2>2, <2>3
<1>5. CleanBetweenLives
  BY <1>3, <1>4 DEF CleanBetweenLives
<1> QED
  BY <1>1, <1>2, <1>5 DEF LogInv, LifecycleInv

\* Whatever fails, and across restarts: the types hold, two threads are never
\* in the connection's mutex, and who keeps it has left a transaction open.
THEOREM MutexOrTransaction == Spec => []LifecycleInv
<1>1. IInv => LifecycleInv
  BY InvProperties
<1> QED
  BY <1>1, InitInv, NextInv, PTL DEF Spec

\* The server is told of no event that the database does not have, and one that it misses is on its
\* way or its POST has failed, whatever statement or commit fails.
THEOREM ServerKnowsStored == Spec => []PostedIsStored
<1>1. IInv => PostedIsStored
  BY InvProperties
<1> QED
  BY <1>1, InitInv, NextInv, PTL DEF Spec

\* A transaction never holds the events of two threads, also after a commit
\* that failed and left it open.
THEOREM OneWriter == Spec => []OneWriterPerTransaction
<1>1. IInv => OneWriterPerTransaction
  BY InvProperties
<1> QED
  BY <1>1, InitInv, NextInv, PTL DEF Spec

\* A restart opens the database when all threads of the life before have been
\* joined, and each thread that meets the closed one is about to be.
THEOREM NobodySurvives == Spec => []CleanBetweenLives
<1>1. IInv => CleanBetweenLives
  BY InvProperties
<1> QED
  BY <1>1, InitInv, NextInv, PTL DEF Spec
=============================================================================
