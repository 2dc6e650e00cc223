------------------------------- MODULE EventLog ------------------------------
(***************************************************************************)
(* The event tables (db.c) as the threads of the daemon share them: one    *)
(* SQLite connection with its recursive mutex and one transaction per      *)
(* event, exec().  A statement that fails leaves its transaction open; a   *)
(* BEGIN or END that fails leaves the mutex locked.  An event is posted to *)
(* the server (req.c) once it is stored, and once only: what curl returns  *)
(* is printed and dropped.                                                 *)
(*                                                                         *)
(* Statements fail because another process has the file locked, or another *)
(* connection of this one: db_insert_fingerprint never finalizes its first *)
(* statement, a connection with a statement is not closed, and one that is *)
(* not closed keeps its locks when db_open has opened the next.            *)
(***************************************************************************)
EXTENDS Integers, FiniteSets

CONSTANTS
  Threads,     \* threads that log
  NoThread,    \* the holder of a free mutex
  Gone,        \* the holder of a mutex whose thread has ended
  MaxEvents,   \* bound: events in a behaviour
  Faults,      \* which of "statement", "commit" and "post" may fail: the first
               \* two on a locked file, the third on the way to the server
  MaxFaults    \* bound: how often the file is locked

ASSUME EventLogAssumption ==
  /\ NoThread \notin Threads /\ Gone \notin Threads /\ NoThread # Gone
  /\ MaxEvents \in Nat /\ MaxFaults \in Nat
  /\ Faults \subseteq {"statement", "commit", "post"}

Events == 1..MaxEvents
Row == 0        \* an insertion that is no event

VARIABLES
  at,       \* at[t]: where t is in its call of the database
  event,    \* event[t]: the event t logs, or Row
  last,     \* events so far
  open,     \* is sDB a connection?
  owner,    \* holder of its mutex
  depth,    \* how often the holder has entered it
  txn,      \* is a transaction open on it?
  pending,  \* what the transaction has inserted
  reading,  \* has it a statement that was not finalized?
  stale,    \* the file lock of connections that were not closed
  stored,
  posted,   \* events whose POST reached the server, whatever it made of them
  lost,     \* events whose POST failed, as far as curl could tell
  faults    \* statements and commits that failed

callVars == <<at, event, last>>
mutexVars == <<owner, depth>>
fileVars == <<stored, posted, lost, faults>>
connVars == <<open, txn, pending, reading, stale>>
logVars == <<callVars, mutexVars, fileVars, connVars>>

LogInit ==
  /\ at = [t \in Threads |-> "out"]
  /\ event = [t \in Threads |-> Row]
  /\ last = 0
  /\ open = TRUE /\ owner = NoThread /\ depth = 0
  /\ txn = FALSE /\ pending = {} /\ reading = FALSE /\ stale = "none"
  /\ stored = {} /\ posted = {} /\ lost = {} /\ faults = 0

Goto(t, l) == at' = [at EXCEPT ![t] = l]

\* A use of the connection's mutex after the connection was closed.
Undefined(t) == ~open /\ Goto(t, "undefined")

EnterMutex(t) ==
  /\ owner \in {NoThread, t}
  /\ owner' = t /\ depth' = depth + 1
LeaveMutex(t) ==
  /\ depth' = depth - 1
  /\ owner' = IF depth = 1 THEN NoThread ELSE t

\* A call starts: a query of the name to show and then the event, or the event.
Log(t, first) ==
  /\ at[t] = "out" /\ last < MaxEvents
  /\ last' = last + 1
  /\ event' = [event EXCEPT ![t] = last + 1]
  /\ Goto(t, first)
  /\ UNCHANGED <<mutexVars, fileVars, connVars>>

\* An insertion into the other tables (what it inserts is in Registry).
InsertRow(t) ==
  /\ at[t] = "out"
  /\ event' = [event EXCEPT ![t] = Row]
  /\ Goto(t, "enter")
  /\ UNCHANGED <<last, mutexVars, fileVars, connVars>>

\* db_get_user_name, between entering the mutex and leaving it.
Query(t) ==
  /\ at[t] = "query"
  /\ \/ open /\ owner \in {NoThread, t} /\ Goto(t, "enter")
     \/ Undefined(t)
  /\ UNCHANGED <<event, last, mutexVars, fileVars, connVars>>

\* Mutant: exec does not enter the mutex.
EnterNot(t) ==
  /\ at[t] = "enter"
  /\ \/ open /\ Goto(t, "begin")
     \/ Undefined(t)
  /\ UNCHANGED <<event, last, mutexVars, fileVars, connVars>>

\* exec, step by step.
Enter(t) ==
  /\ at[t] = "enter"
  /\ \/ open /\ EnterMutex(t) /\ Goto(t, "begin")
     \/ Undefined(t) /\ UNCHANGED mutexVars
  /\ UNCHANGED <<event, last, fileVars, connVars>>

\* BEGIN fails in a transaction, and exec returns with the mutex.
Begin(t) ==
  /\ at[t] = "begin"
  /\ txn' = TRUE
  /\ Goto(t, IF txn THEN "out" ELSE "statement")
  /\ UNCHANGED <<event, last, mutexVars, fileVars, open, pending, reading, stale>>

Fault(kind) ==
  /\ kind \in Faults /\ faults < MaxFaults
  /\ faults' = faults + 1

\* A statement needs a file nobody else writes to.
Statement(t) ==
  /\ at[t] = "statement"
  /\ \/ /\ stale # "reserved"
        /\ pending' = pending \cup {event[t]}
        /\ Goto(t, "end") /\ UNCHANGED faults
     \/ /\ Fault("statement")
        /\ Goto(t, "leave") /\ UNCHANGED pending
     \/ /\ stale = "reserved"
        /\ Goto(t, "leave") /\ UNCHANGED <<pending, faults>>
  /\ UNCHANGED <<event, last, mutexVars, stored, posted, lost, open, txn, reading, stale>>

\* A commit needs a file nobody else has a lock on.
Commits ==
  /\ stale = "none"
  /\ stored' = stored \cup (pending \ {Row}) /\ pending' = {} /\ txn' = FALSE
  /\ UNCHANGED faults
CommitFails ==
  /\ \/ stale # "none" /\ UNCHANGED faults
     \/ Fault("commit")
  /\ UNCHANGED <<stored, pending, txn>>

\* Mutant: exec reports success although END failed.
EndUnchecked(t) ==
  /\ at[t] = "end"
  /\ Commits \/ CommitFails
  /\ Goto(t, "stored")
  /\ UNCHANGED <<event, last, mutexVars, posted, lost, open, reading, stale>>

\* END: exec returns with the mutex if it fails.
End(t) ==
  /\ at[t] = "end"
  /\ \/ Commits /\ Goto(t, "stored")
     \/ CommitFails /\ Goto(t, "out")
  /\ UNCHANGED <<event, last, mutexVars, posted, lost, open, reading, stale>>

Returns(t) == IF at[t] = "stored" /\ event[t] # Row THEN "post" ELSE "out"

\* Mutant: exec returns without leaving the mutex.
LeaveNot(t) ==
  /\ at[t] \in {"leave", "stored"}
  /\ Goto(t, Returns(t))
  /\ UNCHANGED <<event, last, mutexVars, fileVars, connVars>>

Leave(t) ==
  /\ at[t] \in {"leave", "stored"}
  /\ LeaveMutex(t)
  /\ Goto(t, Returns(t))
  /\ UNCHANGED <<event, last, fileVars, connVars>>

\* req_log_fingerprint and req_log_intercom.  A POST may fail, whether or not
\* it has reached the server (its answer may be lost), and nobody tries again.
Post(t) ==
  /\ at[t] = "post"
  /\ \E arrives, fails \in BOOLEAN :
       /\ arrives \/ fails
       /\ fails => "post" \in Faults
       /\ posted' = IF arrives THEN posted \cup {event[t]} ELSE posted
       /\ lost' = IF fails THEN lost \cup {event[t]} ELSE lost
  /\ Goto(t, "out")
  /\ UNCHANGED <<event, last, mutexVars, stored, faults, connVars>>

\* db_insert_fingerprint's SELECT, which is left unfinalized.
InsertFingerprint(t) ==
  /\ owner \in {NoThread, t}
  /\ reading' = TRUE
  /\ UNCHANGED <<callVars, mutexVars, fileVars, open, txn, pending, stale>>

\* db_close waits for the mutex.  A transaction is rolled back; a connection
\* with a statement is left as it is.
Close(t) ==
  /\ owner \in {NoThread, t}
  /\ IF reading THEN UNCHANGED <<open, txn, pending, mutexVars>>
     ELSE /\ open' = FALSE /\ txn' = FALSE /\ pending' = {}
          /\ owner' = NoThread /\ depth' = 0
  /\ UNCHANGED <<callVars, fileVars, reading, stale>>

\* db_open: a new connection, whatever became of the old one.
Open ==
  /\ open' = TRUE /\ txn' = FALSE /\ pending' = {} /\ reading' = FALSE
  /\ owner' = NoThread /\ depth' = 0
  /\ stale' = IF ~open THEN stale
              ELSE IF pending # {} THEN "reserved"
              ELSE IF stale = "none" THEN "shared" ELSE stale
  /\ UNCHANGED <<callVars, fileVars>>

Exec(t) == \/ Query(t) \/ Enter(t) \/ Begin(t) \/ Statement(t) \/ End(t)
           \/ Leave(t) \/ Post(t)
-----------------------------------------------------------------------------
Inside == {"begin", "statement", "end", "leave", "stored"}

LogTypeOK ==
  /\ at \in [Threads -> Inside \cup {"out", "query", "enter", "post", "undefined"}]
  /\ event \in [Threads -> Events \cup {Row}] /\ last \in 0..MaxEvents
  /\ open \in BOOLEAN /\ txn \in BOOLEAN /\ reading \in BOOLEAN
  /\ owner \in Threads \cup {NoThread, Gone}
  /\ depth \in Nat /\ (depth = 0 <=> owner = NoThread)
  /\ pending \subseteq Events \cup {Row}
  /\ stale \in {"none", "shared", "reserved"}
  /\ stored \subseteq Events /\ posted \subseteq Events /\ lost \subseteq Events
  /\ faults \in 0..MaxFaults

\* What the server is told is in the database, and it misses an event of the
\* database only if that one's POST has failed or is still to come: whatever
\* statements and commits fail, and across restarts.
PostedIsStored ==
  stored = posted \cup lost \cup
    ({event[t] : t \in {u \in Threads : at[u] \in {"stored", "post"}}} \ {Row})

\* A transaction has the event of one thread, and no other thread can get into
\* it: an insertion that was not committed keeps the mutex.
OneWriterPerTransaction ==
  /\ Cardinality(pending) <= 1
  /\ pending # {} => txn /\ owner # NoThread

\* Two threads are never between entering the mutex and leaving it, and a
\* thread that has kept the mutex has done so with a transaction open.
MutexKept ==
  /\ \A t \in Threads : at[t] \in Inside => owner = t
  /\ owner = Gone => txn
  /\ owner \in Threads /\ at[owner] \notin Inside => txn
=============================================================================
