------------------------------- MODULE FpsLink -------------------------------
(***************************************************************************)
(* The serial link to one fingerprint scanner (FPS_GT511Linux.cpp), as the *)
(* threads of the daemon share it.                                         *)
(*                                                                         *)
(* A driver call is two critical sections of FPS_GT511::_mutex with a gap  *)
(* between them: SendCommand writes a command, GetResponse polls the port  *)
(* for RESPONSE_LEN bytes.  Nothing in a response names its command, so    *)
(* the answer a caller gets is whatever RESPONSE_LEN bytes come next.      *)
(*                                                                         *)
(* The bytes the device writes form one stream, numbered from 0.  A byte   *)
(* is nothing but its number: answerAt[c] is the number of the first byte  *)
(* of the answer to command c, and a packet is an interval of the stream.  *)
(* Downloads (GetTemplate, GetImage) have DATA_LEN more bytes behind the   *)
(* answer, read by a second critical section which has no timeout.         *)
(***************************************************************************)
EXTENDS Integers, FiniteSets

CONSTANTS
  Threads,        \* threads that hold a pointer to this scanner's FPS_GT511
  NoThread,       \* the holder of a free mutex
  RESPONSE_LEN,   \* bytes of a response packet (12 in the code)
  DATA_LEN,       \* bytes of a data packet (6 more than the payload)
  MaxCalls,       \* bound: commands written in a behaviour
  MaxTimeouts,    \* bound: GetResponse loops that end by RESPONSE_TIMEOUT_MS
  Downloads,      \* is a command a download? the values to explore
  Lossy,          \* may the device leave a command without an answer?
  Serialised,     \* do callers stop the other threads first (SetEnabled(false))?
  SleepCovers     \* is usleep before GetResponse longer than a transmission?

ASSUME FpsLinkAssumption ==
  /\ NoThread \notin Threads
  /\ RESPONSE_LEN \in Nat \ {0}
  /\ DATA_LEN \in Nat \ {0}
  /\ MaxCalls \in Nat
  /\ MaxTimeouts \in Nat
  /\ Downloads \subseteq BOOLEAN
  /\ Lossy \in BOOLEAN /\ Serialised \in BOOLEAN /\ SleepCovers \in BOOLEAN

Calls == 1..MaxCalls
Unanswered == -1

VARIABLES
  pc,        \* pc[t]: where thread t is in its driver call
  mutex,     \* holder of _mutex, or NoThread
  call,      \* call[t]: number of t's last command (0 before the first)
  index,     \* index[t]: bytes t's read loop has copied
  start,     \* start[t]: stream number of the first byte of t's packet
  packet,    \* packet[t]: the response t parsed last
  sent,      \* commands written to the port
  download,  \* download[c]: is command c a download?
  taken,     \* commands the device has dealt with
  answerAt,  \* answerAt[c]: stream number of c's answer, or Unanswered
  acked,     \* acked[c]: is c's answer an Ack?
  produced,  \* bytes the device has written
  arrived,   \* bytes that have reached the kernel's buffer
  consumed,  \* bytes that read() has returned
  timeouts   \* GetResponse loops ended by the timeout

threadVars == <<pc, mutex, call, index, start, packet, timeouts>>
deviceVars == <<taken, answerAt, acked, produced>>
vars == <<threadVars, deviceVars, sent, download, arrived, consumed>>

NoPacket == [call |-> 0, start |-> Unanswered, len |-> 0]

Init ==
  /\ pc = [t \in Threads |-> "idle"]
  /\ mutex = NoThread
  /\ call = [t \in Threads |-> 0]
  /\ index = [t \in Threads |-> 0]
  /\ start = [t \in Threads |-> 0]
  /\ packet = [t \in Threads |-> NoPacket]
  /\ sent = 0
  /\ download = [c \in Calls |-> FALSE]
  /\ taken = 0
  /\ answerAt = [c \in Calls |-> Unanswered]
  /\ acked = [c \in Calls |-> FALSE]
  /\ produced = 0
  /\ arrived = 0
  /\ consumed = 0
  /\ timeouts = 0

(***************************************************************************)
(* The device and the line.                                                *)
(***************************************************************************)
\* Bytes the device writes for command c: the answer, and the data packet of
\* a download it accepts.
AnswerLen(c, ack) == RESPONSE_LEN + (IF ack /\ download[c] THEN DATA_LEN ELSE 0)

Answer(ack) ==
  LET c == taken + 1 IN
  /\ taken < sent
  /\ taken' = c
  /\ answerAt' = [answerAt EXCEPT ![c] = produced]
  /\ acked' = [acked EXCEPT ![c] = ack]
  /\ produced' = produced + AnswerLen(c, ack)
  /\ UNCHANGED <<threadVars, sent, download, arrived, consumed>>

Lose ==
  /\ Lossy
  /\ taken < sent
  /\ taken' = taken + 1
  /\ UNCHANGED <<threadVars, answerAt, acked, produced, sent, download,
                 arrived, consumed>>

Arrive ==
  /\ arrived < produced
  /\ arrived' = arrived + 1
  /\ UNCHANGED <<threadVars, deviceVars, sent, download, consumed>>

(***************************************************************************)
(* The driver.                                                             *)
(***************************************************************************)
\* Mutant: a caller does not stop the other threads first.
SendCommandAnytime(t, d) ==
  /\ pc[t] = "idle"
  /\ mutex = NoThread
  /\ sent < MaxCalls
  /\ sent' = sent + 1
  /\ call' = [call EXCEPT ![t] = sent + 1]
  /\ download' = [download EXCEPT ![sent + 1] = d]
  /\ pc' = [pc EXCEPT ![t] = "sent"]
  /\ UNCHANGED <<mutex, index, start, packet, timeouts, deviceVars, arrived,
                 consumed>>

\* SendCommand / SendData: the whole packet is written under the mutex.
SendCommand(t, d) ==
  /\ pc[t] = "idle"
  /\ mutex = NoThread
  /\ sent < MaxCalls
  /\ Serialised => \A u \in Threads : pc[u] = "idle"
  /\ sent' = sent + 1
  /\ call' = [call EXCEPT ![t] = sent + 1]
  /\ download' = [download EXCEPT ![sent + 1] = d]
  /\ pc' = [pc EXCEPT ![t] = "sent"]
  /\ UNCHANGED <<mutex, index, start, packet, timeouts, deviceVars, arrived,
                 consumed>>

\* Mutant: the sleep is removed.
SleptNot(t) == t \in Threads

\* The download commands sleep 50 or 100 ms before GetResponse.  Where that
\* is long enough the device has answered and the answer has arrived.
Slept(t) ==
  SleepCovers /\ download[call[t]] =>
    /\ taken >= call[t]
    /\ answerAt[call[t]] # Unanswered => arrived - consumed >= RESPONSE_LEN

\* GetResponse, up to its loop.
LockResponse(t) ==
  /\ pc[t] = "sent"
  /\ mutex = NoThread
  /\ Slept(t)
  /\ mutex' = t
  /\ index' = [index EXCEPT ![t] = 0]
  /\ start' = [start EXCEPT ![t] = consumed]
  /\ pc' = [pc EXCEPT ![t] = "reading"]
  /\ UNCHANGED <<call, packet, timeouts, deviceVars, sent, download, arrived,
                 consumed>>

\* read() returns what is there, up to the size it is asked for.
Available(size) ==
  IF arrived - consumed < size THEN arrived - consumed ELSE size

\* The Ack flag a parsed packet shows: the device's, when the packet is a
\* whole answer; otherwise whatever the bytes at its place happen to be.
AckSeen(first, len) ==
  IF len = RESPONSE_LEN /\ \E c \in Calls : answerAt[c] = first
  THEN {acked[c] : c \in {d \in Calls : answerAt[d] = first}}
  ELSE BOOLEAN

\* Mutant: the Ack of a download is not followed by GetData.
ReturnWithoutData(t, len) ==
  /\ mutex' = NoThread
  /\ packet' = [packet EXCEPT
                  ![t] = [call |-> call[t], start |-> start[t], len |-> len]]
  /\ pc' = [pc EXCEPT ![t] = "idle"]

\* GetResponse after its loop: unlock, parse, and on with the caller.
Return(t, len) ==
  /\ mutex' = NoThread
  /\ packet' = [packet EXCEPT
                  ![t] = [call |-> call[t], start |-> start[t], len |-> len]]
  /\ \E ack \in AckSeen(start[t], len) :
       pc' = [pc EXCEPT ![t] =
                IF ack /\ download[call[t]] THEN "acked" ELSE "idle"]

\* Mutant: the -1 of a failed read is added to the index.
PollFailing(t) ==
  LET n == IF Available(RESPONSE_LEN) = 0 THEN -1 ELSE Available(RESPONSE_LEN)
      i == index[t] + n
  IN
  /\ pc[t] = "reading"
  /\ consumed' = consumed + (IF n > 0 THEN n ELSE 0)
  /\ index' = [index EXCEPT ![t] = i]
  /\ \/ i < RESPONSE_LEN /\ UNCHANGED <<pc, mutex, packet>>
     \/ i >= RESPONSE_LEN /\ Return(t, i)
  /\ UNCHANGED <<call, start, timeouts, deviceVars, sent, download, arrived>>

\* Mutant: the packet is taken to be complete one byte early.
PollShort(t) ==
  LET n == Available(RESPONSE_LEN)
      i == index[t] + n
  IN
  /\ pc[t] = "reading"
  /\ n > 0
  /\ consumed' = consumed + n
  /\ index' = [index EXCEPT ![t] = i]
  /\ IF i < RESPONSE_LEN - 1 THEN UNCHANGED <<pc, mutex, packet>> ELSE Return(t, i)
  /\ UNCHANGED <<call, start, timeouts, deviceVars, sent, download, arrived>>

\* One turn of GetResponse's loop that reads something.  Each read asks for
\* RESPONSE_LEN bytes however many are missing; what is copied beyond the
\* array leaves the thread in a state the language does not define.
Poll(t) ==
  LET n == Available(RESPONSE_LEN)
      i == index[t] + n
  IN
  /\ pc[t] = "reading"
  /\ n > 0
  /\ consumed' = consumed + n
  /\ index' = [index EXCEPT ![t] = i]
  /\ \/ i < RESPONSE_LEN /\ UNCHANGED <<pc, mutex, packet>>
     \/ i = RESPONSE_LEN /\ Return(t, i)
     \/ /\ i > RESPONSE_LEN
        /\ pc' = [pc EXCEPT ![t] = "overrun"]
        /\ UNCHANGED <<mutex, packet>>
  /\ UNCHANGED <<call, start, timeouts, deviceVars, sent, download, arrived>>

\* Mutant: the way out by the timeout leaves the mutex locked.
TimeoutLocked(t) ==
  /\ pc[t] = "reading"
  /\ Available(RESPONSE_LEN) = 0
  /\ timeouts < MaxTimeouts
  /\ timeouts' = timeouts + 1
  /\ pc' = [pc EXCEPT ![t] = "idle"]
  /\ UNCHANGED <<mutex, packet, call, index, start, deviceVars, sent, download,
                 arrived, consumed>>

\* The turn that reads nothing after RESPONSE_TIMEOUT_MS: what was read so
\* far is parsed as if it were a packet.
Timeout(t) ==
  /\ pc[t] = "reading"
  /\ Available(RESPONSE_LEN) = 0
  /\ timeouts < MaxTimeouts
  /\ timeouts' = timeouts + 1
  /\ Return(t, index[t])
  /\ UNCHANGED <<call, index, start, deviceVars, sent, download, arrived,
                 consumed>>

\* GetData: GetResponse(n), up to its loop.
LockData(t) ==
  /\ pc[t] = "acked"
  /\ mutex = NoThread
  /\ mutex' = t
  /\ index' = [index EXCEPT ![t] = 0]
  /\ pc' = [pc EXCEPT ![t] = "data"]
  /\ UNCHANGED <<call, start, packet, timeouts, deviceVars, sent, download,
                 arrived, consumed>>

\* Its loop ends on a full read or when the pieces add up exactly; there is
\* no timeout.
PollData(t) ==
  LET n == Available(DATA_LEN)
      i == index[t] + n
  IN
  /\ pc[t] = "data"
  /\ n > 0
  /\ consumed' = consumed + n
  /\ index' = [index EXCEPT ![t] = i]
  /\ IF n = DATA_LEN \/ i = DATA_LEN
     THEN pc' = [pc EXCEPT ![t] = "idle"] /\ mutex' = NoThread
     ELSE UNCHANGED <<pc, mutex>>
  /\ UNCHANGED <<call, start, packet, timeouts, deviceVars, sent, download,
                 arrived>>

Device == Arrive \/ Lose \/ \E ack \in BOOLEAN : Answer(ack)
Reader(t) == \/ LockResponse(t) \/ Poll(t) \/ Timeout(t)
             \/ LockData(t) \/ PollData(t)
Next ==
  \/ Device
  \/ \E t \in Threads : Reader(t) \/ \E d \in Downloads : SendCommand(t, d)

Spec == Init /\ [][Next]_vars

\* The device keeps answering and transmitting, and a thread in a driver call
\* keeps running.  Nobody is bound to start a call.
FairSpec == /\ Spec
            /\ WF_vars(Device)
            /\ \A t \in Threads : WF_vars(Reader(t))

-----------------------------------------------------------------------------
(***************************************************************************)
(* Properties.                                                             *)
(***************************************************************************)
TypeOK ==
  /\ pc \in [Threads -> {"idle", "sent", "reading", "acked", "data", "overrun"}]
  /\ mutex \in Threads \cup {NoThread}
  /\ call \in [Threads -> 0..MaxCalls]
  /\ index \in [Threads -> Nat]
  /\ start \in [Threads -> Nat]
  /\ packet \in [Threads -> [call : 0..MaxCalls,
                             start : Nat \cup {Unanswered}, len : Nat]]
  /\ sent \in 0..MaxCalls
  /\ download \in [Calls -> BOOLEAN]
  /\ taken \in 0..MaxCalls
  /\ answerAt \in [Calls -> Nat \cup {Unanswered}]
  /\ acked \in [Calls -> BOOLEAN]
  /\ produced \in Nat
  /\ arrived \in Nat
  /\ consumed \in Nat
  /\ timeouts \in 0..MaxTimeouts

\* The response a caller parses is, whole, the device's answer to the command
\* the caller wrote (the comment on GetResponse: "Gets the response to the
\* command ... (and waits for it)").
OwnResponse ==
  \A t \in Threads :
    packet[t].call # 0 =>
      /\ packet[t].len = RESPONSE_LEN
      /\ packet[t].start = answerAt[packet[t].call]

\* No read loop copies more bytes than the packet it reads has (the download
\* methods: "recevoir 12 bytes pour la reponse").
FramesExact ==
  \A t \in Threads :
    /\ pc[t] = "reading" => index[t] < RESPONSE_LEN
    /\ pc[t] = "data" => index[t] < DATA_LEN
    /\ pc[t] # "overrun"

\* When no call is in progress nothing is under way on the line: no command
\* to be answered, no byte of an old answer that the next caller would read.
QuietBetweenCalls ==
  (\A t \in Threads : pc[t] = "idle") => taken = sent /\ produced = consumed

(***************************************************************************)
(* The inductive invariant behind OwnResponse, FramesExact and             *)
(* QuietBetweenCalls, for callers that are serialised, a line without      *)
(* timeouts, and sleeps that cover the answer of a download.               *)
(***************************************************************************)
Busy(t) == pc[t] # "idle"
Pending(c) == taken < c
Lost(c) == taken >= c /\ answerAt[c] = Unanswered
Answered(c) == taken >= c /\ answerAt[c] # Unanswered

\* What the thread in a call may find on the line, by its place in the call.
ExchangeInv(t) ==
  LET c == call[t] IN
  /\ Busy(t) => c = sent /\ sent > 0
  /\ pc[t] = "sent" =>
       \/ (Pending(c) \/ Lost(c)) /\ produced = consumed
       \/ /\ Answered(c)
          /\ answerAt[c] = consumed
          /\ produced = consumed + AnswerLen(c, acked[c])
  /\ pc[t] = "reading" =>
       /\ start[t] + index[t] = consumed
       /\ index[t] < RESPONSE_LEN
       /\ \/ ((Pending(c) /\ ~download[c]) \/ Lost(c))
             /\ produced = consumed /\ index[t] = 0
          \/ /\ Answered(c)
             /\ answerAt[c] = start[t]
             /\ produced = start[t] + AnswerLen(c, acked[c])
             /\ download[c] =>
                  index[t] = 0 /\ arrived - consumed >= RESPONSE_LEN
  /\ pc[t] \in {"acked", "data"} =>
       /\ Answered(c)
       /\ produced = consumed + DATA_LEN - (IF pc[t] = "data" THEN index[t] ELSE 0)
  /\ pc[t] = "data" => index[t] < DATA_LEN
  /\ pc[t] # "overrun"

\* One call at a time, and the mutex is held by the thread in a read loop.
OneCall ==
  /\ \A t, u \in Threads : Busy(t) /\ Busy(u) => t = u
  /\ \A t \in Threads : mutex = t <=> pc[t] \in {"reading", "data"}

\* Bytes are consumed after they arrive and arrive after they are produced;
\* at most one command waits for the device.
LineInv ==
  /\ consumed <= arrived /\ arrived <= produced
  /\ taken <= sent /\ sent <= taken + 1

\* Answers have distinct places in the stream, in the order of their commands.
AnswersInv ==
  /\ \A c \in Calls : Pending(c) => answerAt[c] = Unanswered
  /\ \A c, d \in Calls :
       c < d /\ Answered(c) /\ Answered(d) => answerAt[c] < answerAt[d]
  /\ \A c \in Calls : Answered(c) => answerAt[c] < produced
  /\ \A t \in Threads : IF packet[t].call = 0 THEN packet[t].len = 0
                        ELSE Answered(packet[t].call)

LinkInv ==
  /\ OneCall
  /\ LineInv
  /\ AnswersInv
  /\ OwnResponse
  /\ QuietBetweenCalls
  /\ \A t \in Threads : ExchangeInv(t)

\* Every driver call returns, answered or not, unless an overrun left the
\* process without a defined behaviour.
CallsReturn ==
  \A t \in Threads :
    pc[t] = "sent" ~> \/ pc[t] = "idle"
                     \/ \E u \in Threads : pc[u] = "overrun"

\* The calls whose whole answer thread t was handed by its last GetResponse.
Handed(t) ==
  {c \in Calls : /\ packet[t].len = RESPONSE_LEN
                 /\ packet[t].start = answerAt[c]
                 /\ answerAt[c] # Unanswered}

Phase(t) == CASE pc[t] = "idle" -> "idle"
              [] pc[t] \in {"acked", "data"} -> "downloading"
              [] OTHER -> "waiting"

Rpc == INSTANCE FpsRpc WITH
         phase <- [t \in Threads |-> Phase(t)],
         issued <- sent,
         mine <- call,
         reply <- [t \in Threads |-> Handed(t)]

\* The link implements the driver's promise.
ImplementsRpc == Rpc!Spec
=============================================================================
