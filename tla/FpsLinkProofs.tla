---------------------------- MODULE FpsLinkProofs ----------------------------
(***************************************************************************)
(* TLAPS proofs about FpsLink, for every set of threads, packet length,    *)
(* data length and bound on the number of calls.                           *)
(***************************************************************************)
EXTENDS FpsLink, TLAPS

-----------------------------------------------------------------------------
(* Type correctness.                                                       *)

\* Whatever Return writes has its type, and it touches nothing but the three
\* variables it names.
LEMMA ReturnType ==
  ASSUME TypeOK, NEW t \in Threads, NEW len \in Nat, Return(t, len)
  PROVE  /\ pc' \in [Threads -> {"idle", "sent", "reading", "acked", "data",
                                 "overrun"}]
         /\ mutex' \in Threads \cup {NoThread}
         /\ packet' \in [Threads -> [call : 0..MaxCalls,
                                     start : Nat \cup {Unanswered}, len : Nat]]
BY DEF Return, TypeOK

\* The number of bytes a read takes is a natural number.
LEMMA AvailableType ==
  ASSUME TypeOK, NEW size \in Nat, Available(size) > 0
  PROVE  Available(size) \in Nat
BY DEF Available, TypeOK

\* Every variable keeps its type, in every regime of the link: with or without
\* losses, timeouts, downloads and callers that exclude each other.
THEOREM TypeCorrect == Spec => []TypeOK
<1>1. Init => TypeOK
  BY FpsLinkAssumption DEF Init, TypeOK, NoPacket, Unanswered, Calls
<1>2. TypeOK /\ [Next]_vars => TypeOK'
  <2> SUFFICES ASSUME TypeOK, [Next]_vars PROVE TypeOK'
    OBVIOUS
  <2> USE FpsLinkAssumption
  <2>1. ASSUME NEW ack \in BOOLEAN, Answer(ack) PROVE TypeOK'
    <3>1. AnswerLen(taken + 1, ack) \in Nat
      BY <2>1 DEF Answer, AnswerLen
    <3> QED BY <2>1, <3>1 DEF TypeOK, Answer, threadVars, Calls
  <2>2. ASSUME Lose PROVE TypeOK'
    BY <2>2 DEF TypeOK, Lose, threadVars
  <2>3. ASSUME Arrive PROVE TypeOK'
    BY <2>3 DEF TypeOK, Arrive, threadVars, deviceVars
  <2>4. ASSUME NEW t \in Threads, NEW d \in Downloads, SendCommand(t, d)
        PROVE  TypeOK'
    BY <2>4 DEF TypeOK, SendCommand, deviceVars, Calls
  <2>5. ASSUME NEW t \in Threads, LockResponse(t) PROVE TypeOK'
    BY <2>5 DEF TypeOK, LockResponse, deviceVars
  <2>6. ASSUME NEW t \in Threads, Poll(t) PROVE TypeOK'
    <3> DEFINE n == Available(RESPONSE_LEN)
               i == index[t] + n
    <3>1. n \in Nat /\ i \in Nat
      BY <2>6, AvailableType DEF Poll, TypeOK
    <3>2. CASE i < RESPONSE_LEN
      BY <2>6, <3>1, <3>2 DEF TypeOK, Poll, deviceVars
    <3>3. CASE i = RESPONSE_LEN
      <4>1. Return(t, i)
        BY <2>6, <3>1, <3>3 DEF Poll
      <4> HIDE DEF i, n
      <4> QED BY <2>6, <3>1, <4>1, ReturnType DEF TypeOK, Poll, deviceVars, i, n
    <3>4. CASE i > RESPONSE_LEN
      BY <2>6, <3>1, <3>4 DEF TypeOK, Poll, deviceVars
    <3> QED BY <3>1, <3>2, <3>3, <3>4
  <2>7. ASSUME NEW t \in Threads, Timeout(t) PROVE TypeOK'
    <3>1. Return(t, index[t]) /\ index[t] \in Nat
      BY <2>7 DEF Timeout, TypeOK
    <3> QED BY <2>7, <3>1, ReturnType DEF TypeOK, Timeout, deviceVars
  <2>8. ASSUME NEW t \in Threads, LockData(t) PROVE TypeOK'
    BY <2>8 DEF TypeOK, LockData, deviceVars
  <2>9. ASSUME NEW t \in Threads, PollData(t) PROVE TypeOK'
    <3>1. Available(DATA_LEN) \in Nat
      BY <2>9, AvailableType DEF PollData
    <3> HIDE DEF Available
    <3> QED BY <2>9, <3>1 DEF TypeOK, PollData, deviceVars
  <2>10. CASE UNCHANGED vars
    BY <2>10 DEF TypeOK, vars, threadVars, deviceVars
  <2> QED
    BY <2>1, <2>2, <2>3, <2>4, <2>5, <2>6, <2>7, <2>8, <2>9, <2>10
    DEF Next, Device, Reader
<1> QED BY <1>1, <1>2, PTL DEF Spec

-----------------------------------------------------------------------------
(* The inductive invariant.  Each lemma is one action.                     *)

\* The invariant holds of a link that was just opened.
LEMMA InvInit == Init => LinkInv
BY FpsLinkAssumption
DEF Init, LinkInv, OneCall, LineInv, AnswersInv, Busy, Pending, Answered, OwnResponse, QuietBetweenCalls,
    ExchangeInv, NoPacket, Unanswered, Calls

\* An answer goes out to the one command that waits for it, and its bytes are
\* the only ones on the line.
LEMMA InvAnswer ==
  ASSUME TypeOK, LinkInv, NEW ack \in BOOLEAN, Answer(ack)
  PROVE  LinkInv'
<1> USE FpsLinkAssumption DEF TypeOK, Answer, threadVars
<1>0. PICK c \in Calls : c = taken + 1
  BY DEF Calls
<1>1. /\ c \in Calls /\ c = taken + 1 /\ c = sent /\ answerAt[c] = Unanswered
      /\ AnswerLen(c, ack) \in Nat /\ AnswerLen(c, ack) > 0
  BY <1>0 DEF LinkInv, LineInv, AnswersInv, Calls, Pending, AnswerLen
<1>2. PICK t \in Threads : Busy(t) /\ call[t] = c
  BY <1>1 DEF LinkInv, QuietBetweenCalls, Busy, ExchangeInv
<1>3. produced = consumed /\ arrived = consumed
  BY <1>1, <1>2 DEF LinkInv, LineInv, ExchangeInv, Busy, Pending, Lost, Answered
<1>4. ASSUME NEW u \in Threads PROVE ExchangeInv(u)'
  <2>1. ExchangeInv(u)
    BY DEF LinkInv
  <2>2. CASE u = t
    <3>1. ExchangeInv(t) /\ call[t] = c /\ Busy(t) /\ Pending(c)
      BY <1>1, <1>2, <2>1, <2>2 DEF Pending
    <3>2. /\ pc[t] \in {"sent", "reading"}
          /\ pc[t] = "reading" => ~download[c]
      BY <1>1, <3>1 DEF ExchangeInv, Busy, Pending, Lost, Answered
    <3>3. Answered(c)' /\ answerAt'[c] = consumed /\ acked'[c] = ack
          /\ produced' = consumed + AnswerLen(c, ack)
      BY <1>1, <1>3 DEF Answered, Unanswered
    <3>4. AnswerLen(c, acked[c])' = AnswerLen(c, ack)
      BY <3>3 DEF AnswerLen
    <3>5. CASE pc[t] = "sent"
      BY <1>1, <2>2, <3>1, <3>3, <3>4, <3>5 DEF ExchangeInv, Busy
    <3>6. CASE pc[t] = "reading"
      <4>1. /\ start[t] = consumed /\ index[t] = 0
        BY <1>1, <3>1, <3>6 DEF ExchangeInv, Pending, Lost, Answered
      <4> QED
        BY <1>1, <2>2, <3>1, <3>2, <3>3, <3>4, <3>6, <4>1
        DEF ExchangeInv, Busy
    <3> QED BY <2>2, <3>2, <3>5, <3>6
  <2>3. CASE u # t
    <3>1. pc[u] = "idle"
      BY <1>2, <2>3 DEF LinkInv, OneCall, Busy
    <3> QED BY <3>1 DEF ExchangeInv, Busy
  <2> QED BY <2>2, <2>3
<1>5. /\ answerAt'[c] = produced
      /\ \A d \in Calls \ {c} : answerAt'[d] = answerAt[d]
      /\ taken = c - 1 /\ taken' = c
      /\ produced \in Nat /\ produced' \in Nat /\ produced' > produced
  BY <1>1
<1>6. /\ \A d \in Calls : Pending(d)' => answerAt'[d] = Unanswered
      /\ \A d, e \in Calls :
           d < e /\ Answered(d)' /\ Answered(e)' => answerAt'[d] < answerAt'[e]
      /\ \A d \in Calls : Answered(d)' => answerAt'[d] < produced'
  <2>1. /\ \A d \in Calls : Pending(d) => answerAt[d] = Unanswered
        /\ \A d, e \in Calls :
             d < e /\ Answered(d) /\ Answered(e) => answerAt[d] < answerAt[e]
        /\ \A d \in Calls : Answered(d) => answerAt[d] < produced
    BY DEF LinkInv, AnswersInv
  <2>2. \A d \in Calls : answerAt[d] \in Int
    BY DEF Unanswered
  <2> HIDE DEF TypeOK, Answer
  <2>3. \A d \in Calls : Pending(d)' => Pending(d) /\ d # c
    BY <1>5 DEF Pending, Calls
  <2>4. \A d \in Calls : Answered(d)' /\ d # c => Answered(d) /\ d < c
    BY <1>5 DEF Answered, Calls
  <2>5. \A d \in Calls : Answered(d)' => answerAt'[d] < produced'
    BY <1>5, <2>1, <2>2, <2>4
  <2>6. ASSUME NEW d \in Calls, NEW e \in Calls, d < e, Answered(d)', Answered(e)'
        PROVE  answerAt'[d] < answerAt'[e]
    <3>1. d # c
      BY <1>5, <2>4, <2>6 DEF Calls
    <3> QED BY <1>5, <2>1, <2>4, <2>6, <3>1
  <2> QED BY <1>5, <2>1, <2>3, <2>5, <2>6
<1>6a. ASSUME NEW u \in Threads, packet[u].call # 0
       PROVE  /\ Answered(packet[u].call)'
              /\ answerAt'[packet[u].call] = answerAt[packet[u].call]
  <2>1. PICK d \in Calls : d = packet[u].call
    BY <1>6a DEF Calls
  <2>2. Answered(d)
    BY <1>6a, <2>1 DEF LinkInv, AnswersInv
  <2>3. d # c
    BY <1>1, <2>2 DEF Answered
  <2>4. answerAt'[d] = answerAt[d] /\ Answered(d)'
    BY <1>5, <2>2, <2>3 DEF Answered, Calls
  <2> QED BY <2>1, <2>4
<1>7. OwnResponse'
  BY <1>6a DEF LinkInv, OwnResponse
<1>8. QuietBetweenCalls'
  BY <1>2 DEF QuietBetweenCalls, Busy
<1> QED BY <1>1, <1>4, <1>5, <1>6, <1>6a, <1>7, <1>8
  DEF LinkInv, OneCall, LineInv, AnswersInv, Busy

\* A command that is lost leaves the line quiet.
LEMMA InvLose ==
  ASSUME TypeOK, LinkInv, Lose
  PROVE  LinkInv'
<1> USE FpsLinkAssumption DEF TypeOK, Lose, threadVars
<1>1. PICK c \in Calls : c = taken + 1 /\ c = sent /\ answerAt[c] = Unanswered
  BY DEF LinkInv, LineInv, AnswersInv, Calls, Pending
<1>2. PICK t \in Threads : Busy(t) /\ call[t] = c
  BY <1>1 DEF LinkInv, QuietBetweenCalls, Busy, ExchangeInv
<1>3. ASSUME NEW u \in Threads PROVE ExchangeInv(u)'
  <2>1. ExchangeInv(u) /\ (Busy(u) => u = t)
    BY <1>2 DEF LinkInv, OneCall
  <2> QED
    BY <1>1, <1>2, <2>1
    DEF ExchangeInv, Busy, Pending, Lost, Answered, AnswerLen
<1>4. \A d \in Calls : Answered(d)' <=> Answered(d)
  BY <1>1 DEF Answered, Calls
<1>5. \A u \in Threads : packet[u].call # 0 => packet[u].call \in Calls
  BY DEF Calls
<1>6. OwnResponse' /\ QuietBetweenCalls'
  BY <1>2 DEF LinkInv, OwnResponse, QuietBetweenCalls, Busy
<1> QED BY <1>1, <1>3, <1>4, <1>5, <1>6
     DEF LinkInv, OneCall, LineInv, AnswersInv, Pending, Busy

\* Bytes that arrive change nothing but how much a read can take.
LEMMA InvArrive ==
  ASSUME TypeOK, LinkInv, Arrive
  PROVE  LinkInv'
<1> USE FpsLinkAssumption DEF TypeOK, Arrive, threadVars, deviceVars
<1>1. ASSUME NEW u \in Threads PROVE ExchangeInv(u)'
  <2>1. ExchangeInv(u)
    BY DEF LinkInv
  <2> QED
    BY <2>1 DEF ExchangeInv, Busy, Pending, Lost, Answered, AnswerLen
<1>2. OwnResponse' /\ QuietBetweenCalls'
  BY DEF LinkInv, OwnResponse, QuietBetweenCalls
<1> QED BY <1>1, <1>2
     DEF LinkInv, OneCall, LineInv, AnswersInv, Pending, Answered, Busy

\* A command is written only between calls, when nothing is under way.
LEMMA InvSendCommand ==
  ASSUME TypeOK, LinkInv, Serialised, NEW t \in Threads, NEW d \in Downloads,
         SendCommand(t, d)
  PROVE  LinkInv'
<1> USE FpsLinkAssumption DEF TypeOK, SendCommand, deviceVars
<1>1. /\ \A u \in Threads : pc[u] = "idle"
      /\ taken = sent /\ produced = consumed
  BY DEF LinkInv, QuietBetweenCalls
<1>2. PICK c \in Calls : c = sent + 1
  BY DEF Calls
<1>3. ASSUME NEW u \in Threads PROVE ExchangeInv(u)'
  <2>1. CASE u = t
    BY <1>1, <1>2, <2>1 DEF ExchangeInv, Busy, Pending
  <2>2. CASE u # t
    BY <1>1, <2>2 DEF ExchangeInv, Busy
  <2> QED BY <2>1, <2>2
<1>4. OwnResponse'
  BY DEF LinkInv, OwnResponse
<1>5. QuietBetweenCalls'
  BY DEF QuietBetweenCalls
<1> QED BY <1>1, <1>2, <1>3, <1>4, <1>5
     DEF LinkInv, OneCall, LineInv, AnswersInv, Pending, Answered, Busy

\* A caller enters the read loop where its own answer starts.
LEMMA InvLockResponse ==
  ASSUME TypeOK, LinkInv, SleepCovers, NEW t \in Threads, LockResponse(t)
  PROVE  LinkInv'
<1> USE FpsLinkAssumption DEF TypeOK, LockResponse, deviceVars
<1>1. ASSUME NEW u \in Threads PROVE ExchangeInv(u)'
  <2>1. ExchangeInv(u) /\ (Busy(u) => u = t)
    BY DEF LinkInv, OneCall, Busy
  <2>2. CASE u = t
    BY <2>1, <2>2
    DEF ExchangeInv, Busy, Pending, Lost, Answered, AnswerLen, Slept
  <2>3. CASE u # t
    BY <2>1, <2>3 DEF ExchangeInv, Busy
  <2> QED BY <2>2, <2>3
<1>2. OwnResponse' /\ QuietBetweenCalls'
  BY DEF LinkInv, OwnResponse, QuietBetweenCalls
<1>3. \A u \in Threads : mutex' = u <=> pc'[u] \in {"reading", "data"}
  BY DEF LinkInv, OneCall, Busy
<1> QED BY <1>1, <1>2, <1>3
     DEF LinkInv, OneCall, LineInv, AnswersInv, Pending, Answered, Busy

\* The data packet of a download starts where its answer has ended.
LEMMA InvLockData ==
  ASSUME TypeOK, LinkInv, NEW t \in Threads, LockData(t)
  PROVE  LinkInv'
<1> USE FpsLinkAssumption DEF TypeOK, LockData, deviceVars
<1>1. ASSUME NEW u \in Threads PROVE ExchangeInv(u)'
  <2>1. ExchangeInv(u) /\ (Busy(u) => u = t)
    BY DEF LinkInv, OneCall, Busy
  <2>2. CASE u = t
    BY <2>1, <2>2 DEF ExchangeInv, Busy, Answered
  <2>3. CASE u # t
    BY <2>1, <2>3 DEF ExchangeInv, Busy
  <2> QED BY <2>2, <2>3
<1>2. OwnResponse' /\ QuietBetweenCalls'
  BY DEF LinkInv, OwnResponse, QuietBetweenCalls
<1>3. \A u \in Threads : mutex' = u <=> pc'[u] \in {"reading", "data"}
  BY DEF LinkInv, OneCall, Busy
<1> QED BY <1>1, <1>2, <1>3
     DEF LinkInv, OneCall, LineInv, AnswersInv, Pending, Answered, Busy

\* What the reader of a response finds: nothing, or bytes of its own answer,
\* never more than its packet still needs.
LEMMA PollReads ==
  ASSUME TypeOK, LinkInv, NEW t \in Threads, Poll(t)
  PROVE  /\ call[t] \in Calls
         /\ Answered(call[t])
         /\ answerAt[call[t]] = start[t]
         /\ start[t] + index[t] = consumed
         /\ produced = start[t] + AnswerLen(call[t], acked[call[t]])
         /\ Available(RESPONSE_LEN) \in Nat \ {0}
         /\ index[t] + Available(RESPONSE_LEN) <= RESPONSE_LEN
         /\ consumed + Available(RESPONSE_LEN) <= arrived
         /\ download[call[t]] => Available(RESPONSE_LEN) = RESPONSE_LEN
<1> USE FpsLinkAssumption DEF TypeOK
<1>1. /\ ExchangeInv(t) /\ pc[t] = "reading"
      /\ consumed <= arrived /\ arrived <= produced
      /\ Available(RESPONSE_LEN) > 0
  BY DEF LinkInv, LineInv, Poll
<1>2. call[t] \in Calls
  BY <1>1 DEF ExchangeInv, Busy, Calls
<1>3. /\ Available(RESPONSE_LEN) \in Nat \ {0}
      /\ consumed + Available(RESPONSE_LEN) <= arrived
      /\ Available(RESPONSE_LEN) <= RESPONSE_LEN
      /\ arrived - consumed >= RESPONSE_LEN =>
           Available(RESPONSE_LEN) = RESPONSE_LEN
  BY <1>1 DEF Available
<1>4. produced # consumed
  BY <1>1, <1>3
<1>5. /\ Answered(call[t]) /\ answerAt[call[t]] = start[t]
      /\ start[t] + index[t] = consumed
      /\ produced = start[t] + AnswerLen(call[t], acked[call[t]])
      /\ download[call[t]] =>
           index[t] = 0 /\ arrived - consumed >= RESPONSE_LEN
  BY <1>1, <1>4 DEF ExchangeInv
<1>6. ~download[call[t]] => produced = start[t] + RESPONSE_LEN
  BY <1>2, <1>5 DEF AnswerLen
<1>7. index[t] + Available(RESPONSE_LEN) <= RESPONSE_LEN
  <2>1. CASE download[call[t]]
    BY <1>3, <1>5, <2>1
  <2>2. CASE ~download[call[t]]
    BY <1>1, <1>3, <1>5, <1>6, <2>2
  <2> QED BY <2>1, <2>2
<1> QED BY <1>2, <1>3, <1>5, <1>7

\* A turn of GetResponse's loop stays inside the caller's own answer, and the
\* turn that completes it leaves the line quiet or at the data packet.
LEMMA InvPoll ==
  ASSUME TypeOK, LinkInv, NEW t \in Threads, Poll(t)
  PROVE  LinkInv'
<1> USE FpsLinkAssumption DEF TypeOK, deviceVars
<1>1. PICK c \in Calls : c = call[t]
  BY PollReads
<1>2. PICK n \in Nat \ {0} : n = Available(RESPONSE_LEN)
  BY PollReads
<1>3. /\ Answered(c) /\ answerAt[c] = start[t]
      /\ start[t] + index[t] = consumed
      /\ produced = start[t] + AnswerLen(c, acked[c])
      /\ index[t] + n <= RESPONSE_LEN
      /\ consumed + n <= arrived
      /\ download[c] => n = RESPONSE_LEN
  BY <1>1, <1>2, PollReads
<1>4. /\ consumed' = consumed + n
      /\ index' = [index EXCEPT ![t] = index[t] + n]
      /\ UNCHANGED <<call, start, timeouts, deviceVars, sent, download, arrived>>
      /\ \/ index[t] + n < RESPONSE_LEN /\ UNCHANGED <<pc, mutex, packet>>
         \/ index[t] + n = RESPONSE_LEN /\ Return(t, RESPONSE_LEN)
  BY <1>2, <1>3 DEF Poll
<1>5. \A u \in Threads : u # t => pc[u] = "idle" /\ mutex # u
  BY DEF LinkInv, OneCall, Busy, Poll
<1>6. pc[t] = "reading" /\ ExchangeInv(t)
  BY DEF Poll, LinkInv
<1>6a. c = sent /\ sent > 0
  <2>1. Busy(t)
    BY <1>6 DEF Busy
  <2> QED BY <1>1, <1>6, <2>1 DEF ExchangeInv
<1>6b. consumed' = start[t] + (index[t] + n) /\ start[t] \in Nat /\ index[t] \in Nat
  <2>1. start[t] \in Nat /\ index[t] \in Nat /\ n \in Nat
    OBVIOUS
  <2>2. consumed' = (start[t] + index[t]) + n
    BY <1>3, <1>4
  <2> HIDE DEF TypeOK
  <2> QED BY <2>1, <2>2
<1>7. \A d \in Calls : /\ Answered(d)' <=> Answered(d)
                       /\ Pending(d)' <=> Pending(d)
  BY <1>4 DEF Answered, Pending
<1>8. LineInv'
  BY <1>3, <1>4 DEF LinkInv, LineInv
<1>9. CASE index[t] + n < RESPONSE_LEN
  <2>1. UNCHANGED <<pc, mutex, packet>> /\ ~download[c]
    BY <1>3, <1>4, <1>9
  <2>2. ASSUME NEW u \in Threads PROVE ExchangeInv(u)'
    <3>1. CASE u = t
      <4>1. /\ pc'[t] = "reading" /\ call'[t] = c /\ c = sent' /\ sent' > 0
            /\ start'[t] + index'[t] = consumed' /\ index'[t] < RESPONSE_LEN
        <5>1. pc'[t] = "reading" /\ call'[t] = c /\ c = sent' /\ sent' > 0
          BY <1>1, <1>4, <1>6, <1>6a, <2>1
        <5>2. start'[t] = start[t] /\ index'[t] = index[t] + n
          BY <1>4
        <5> QED BY <1>6b, <1>9, <5>1, <5>2
      <4>2. /\ Answered(c)' /\ answerAt'[c] = start'[t] /\ ~download'[c]
            /\ produced' = start'[t] + AnswerLen(c, acked[c])'
        BY <1>3, <1>4, <1>7, <2>1 DEF AnswerLen
      <4> QED BY <3>1, <4>1, <4>2 DEF ExchangeInv
    <3>2. CASE u # t
      BY <1>5, <2>1, <3>2 DEF ExchangeInv, Busy
    <3> QED BY <3>1, <3>2
  <2>3. OwnResponse' /\ QuietBetweenCalls'
    BY <1>4, <1>6, <2>1 DEF LinkInv, OwnResponse, QuietBetweenCalls
  <2>4. OneCall'
    BY <2>1 DEF LinkInv, OneCall, Busy
  <2>5. AnswersInv'
    BY <1>4, <2>1 DEF LinkInv, AnswersInv, Answered, Pending
  <2> QED BY <1>8, <2>2, <2>3, <2>4, <2>5 DEF LinkInv
<1>10. CASE index[t] + n = RESPONSE_LEN
  <2>1. /\ mutex' = NoThread
        /\ packet' = [packet EXCEPT ![t] = [call |-> c, start |-> start[t],
                                           len |-> RESPONSE_LEN]]
    BY <1>1, <1>3, <1>4, <1>10 DEF Return
  <2>2. AckSeen(start[t], RESPONSE_LEN) = {acked[c]}
    <3>1. \A d \in Calls : answerAt[d] = start[t] => d = c
      <4>1. ASSUME NEW d \in Calls, answerAt[d] = start[t] PROVE d = c
        <5>1. Answered(d)
          BY <4>1 DEF LinkInv, AnswersInv, Answered, Pending, Unanswered, Calls
        <5> QED BY <1>3, <4>1, <5>1 DEF LinkInv, AnswersInv, Calls
      <4> QED BY <4>1
    <3> QED BY <1>3, <3>1 DEF AckSeen
  <2>3. pc' = [pc EXCEPT ![t] = IF acked[c] /\ download[c] THEN "acked"
                                                           ELSE "idle"]
    BY <1>1, <1>4, <1>10, <2>2 DEF Return
  <2>4. consumed' = start[t] + RESPONSE_LEN
    BY <1>6b, <1>10
  <2>5. produced' = consumed' + (IF acked[c] /\ download[c] THEN DATA_LEN ELSE 0)
    <3>1. AnswerLen(c, acked[c]) =
             RESPONSE_LEN + (IF acked[c] /\ download[c] THEN DATA_LEN ELSE 0)
      BY DEF AnswerLen
    <3>2. produced' = produced
      BY <1>4
    <3> QED BY <1>3, <2>4, <3>1, <3>2
  <2>6. ASSUME NEW u \in Threads PROVE ExchangeInv(u)'
    <3>1. CASE u = t
      <4>1. /\ call'[t] = c /\ c = sent' /\ sent' > 0 /\ Answered(c)'
            /\ pc'[t] \in {"acked", "idle"}
            /\ pc'[t] = "acked" => produced' = consumed' + DATA_LEN
        BY <1>1, <1>3, <1>4, <1>6a, <1>7, <2>3, <2>5
      <4> QED BY <3>1, <4>1 DEF ExchangeInv
    <3>2. CASE u # t
      BY <1>5, <2>3, <3>2 DEF ExchangeInv, Busy
    <3> QED BY <3>1, <3>2
  <2>7. OwnResponse'
    BY <1>3, <1>4, <2>1 DEF LinkInv, OwnResponse
  <2>8. QuietBetweenCalls'
    <3>1. pc'[t] = "idle" => taken' = sent' /\ produced' = consumed'
      <4>1. taken = sent
        BY <1>3, <1>6a DEF Answered, LinkInv, LineInv
      <4> QED BY <1>4, <2>3, <2>5, <4>1
    <3> QED BY <3>1 DEF QuietBetweenCalls
  <2>9. OneCall'
    BY <1>5, <2>1, <2>3 DEF OneCall, Busy
  <2>10. AnswersInv'
    <3>1. ASSUME NEW u \in Threads
          PROVE  (IF packet[u].call = 0 THEN packet[u].len = 0
                  ELSE Answered(packet[u].call))'
      <4>1. CASE u = t
        <5>1. packet'[u].call = c /\ c # 0
          BY <2>1, <4>1 DEF Calls
        <5>2. Answered(c)'
          BY <1>3, <1>7
        <5> QED BY <5>1, <5>2 DEF Answered
      <4>2. CASE u # t
        <5>1. packet'[u] = packet[u]
          BY <2>1, <4>2
        <5>2. IF packet[u].call = 0 THEN packet[u].len = 0
              ELSE Answered(packet[u].call)
          BY DEF LinkInv, AnswersInv
        <5>3. Answered(packet[u].call)' <=> Answered(packet[u].call)
          BY <1>4, <5>1 DEF Answered
        <5> QED BY <5>1, <5>2, <5>3
      <4> QED BY <4>1, <4>2
    <3>2. /\ \A d \in Calls : Pending(d)' => answerAt'[d] = Unanswered
          /\ \A d, e \in Calls :
               d < e /\ Answered(d)' /\ Answered(e)' => answerAt'[d] < answerAt'[e]
          /\ \A d \in Calls : Answered(d)' => answerAt'[d] < produced'
      BY <1>4, <1>7 DEF LinkInv, AnswersInv
    <3> QED BY <3>1, <3>2 DEF AnswersInv
  <2> QED BY <1>8, <2>6, <2>7, <2>8, <2>9, <2>10 DEF LinkInv
<1> QED BY <1>4, <1>9, <1>10

\* A turn of GetResponse(n)'s loop stays inside the caller's own data packet.
LEMMA InvPollData ==
  ASSUME TypeOK, LinkInv, NEW t \in Threads, PollData(t)
  PROVE  LinkInv'
<1> USE FpsLinkAssumption DEF TypeOK, deviceVars
<1>1. /\ ExchangeInv(t) /\ pc[t] = "data" /\ index[t] < DATA_LEN
      /\ produced = consumed + DATA_LEN - index[t]
      /\ consumed <= arrived /\ arrived <= produced
      /\ Answered(call[t]) /\ call[t] = sent /\ sent > 0
  BY DEF LinkInv, LineInv, PollData, ExchangeInv, Busy
<1>2. PICK n \in Nat \ {0} : n = Available(DATA_LEN)
  <2>1. Available(DATA_LEN) > 0
    BY DEF PollData
  <2>2. Available(DATA_LEN) \in Nat
    BY <2>1, AvailableType
  <2> QED BY <2>1, <2>2
<1>3. /\ consumed + n <= arrived
      /\ index[t] + n <= DATA_LEN
      /\ n = DATA_LEN => index[t] = 0
  BY <1>1, <1>2 DEF Available
<1>4. /\ consumed' = consumed + n
      /\ index' = [index EXCEPT ![t] = index[t] + n]
      /\ UNCHANGED <<call, start, packet, timeouts, deviceVars, sent, download,
                     arrived>>
      /\ \/ index[t] + n < DATA_LEN /\ UNCHANGED <<pc, mutex>>
         \/ /\ index[t] + n = DATA_LEN
            /\ pc' = [pc EXCEPT ![t] = "idle"] /\ mutex' = NoThread
  <2>1. n = DATA_LEN => index[t] + n = DATA_LEN
    BY <1>1, <1>3
  <2>2. CASE index[t] + n = DATA_LEN
    BY <1>2, <2>2 DEF PollData
  <2>3. CASE index[t] + n # DATA_LEN
    <3>1. index[t] + n < DATA_LEN
      <4>1. PICK i \in Nat : i = index[t] + n
        OBVIOUS
      <4>2. i # DATA_LEN /\ i <= DATA_LEN
        BY <1>3, <2>3, <4>1
      <4>3. i < DATA_LEN
        BY <4>2
      <4> QED BY <4>1, <4>3
    <3> QED BY <1>2, <2>1, <2>3, <3>1 DEF PollData
  <2> QED BY <2>2, <2>3
<1>5. \A u \in Threads : u # t => pc[u] = "idle" /\ mutex # u
  BY <1>1 DEF LinkInv, OneCall, Busy
<1>6. ASSUME NEW u \in Threads PROVE ExchangeInv(u)'
  <2>1. CASE u = t
    BY <1>1, <1>4, <2>1 DEF ExchangeInv, Busy, Answered
  <2>2. CASE u # t
    BY <1>4, <1>5, <2>2 DEF ExchangeInv, Busy
  <2> QED BY <2>1, <2>2
<1>7. QuietBetweenCalls'
  <2>1. taken = sent
    BY <1>1 DEF LinkInv, LineInv, Answered
  <2> QED BY <1>1, <1>4, <2>1 DEF QuietBetweenCalls
<1>8. OwnResponse'
  BY <1>4 DEF LinkInv, OwnResponse
<1>9. /\ \A u, v \in Threads : Busy(u)' /\ Busy(v)' => u = v
      /\ \A u \in Threads : mutex' = u <=> pc'[u] \in {"reading", "data"}
  BY <1>1, <1>4, <1>5 DEF LinkInv, OneCall, Busy
<1> QED BY <1>1, <1>3, <1>4, <1>6, <1>7, <1>8, <1>9
        DEF LinkInv, OneCall, LineInv, AnswersInv, Pending, Answered

\* A step that changes no variable keeps the invariant.
LEMMA InvStutter ==
  ASSUME LinkInv, UNCHANGED vars
  PROVE  LinkInv'
BY
     DEF vars, threadVars, deviceVars, LinkInv, OneCall, LineInv, AnswersInv,
         Busy,
       Pending, Answered, Lost, OwnResponse, QuietBetweenCalls, ExchangeInv, AnswerLen

\* When callers keep out of each other's way, no answer is ever given up on
\* and the sleeps of the download commands cover an answer, the line is in
\* step with the calls at every moment.
THEOREM LinkInvariant ==
  ASSUME Serialised, SleepCovers, MaxTimeouts = 0
  PROVE  Spec => []LinkInv
<1>1. ASSUME TypeOK, LinkInv, [Next]_vars PROVE LinkInv'
  <2>1. ASSUME NEW t \in Threads, Timeout(t) PROVE FALSE
    BY <2>1, <1>1 DEF Timeout, TypeOK
  <2> QED
    BY <1>1, <2>1, InvAnswer, InvLose, InvArrive, InvSendCommand,
       InvLockResponse, InvPoll, InvLockData, InvPollData, InvStutter
    DEF Next, Device, Reader
<1> QED BY <1>1, InvInit, TypeCorrect, PTL DEF Spec

\* Then every caller gets the answer to its own command (OwnResponse, the
\* comment on GetResponse), for any number of threads and calls.
THEOREM ResponsesMatch ==
  ASSUME Serialised, SleepCovers, MaxTimeouts = 0
  PROVE  Spec => []OwnResponse
<1>1. LinkInv => OwnResponse
  BY DEF LinkInv
<1> QED BY <1>1, LinkInvariant, PTL

\* No read loop takes more bytes than its packet has.
THEOREM FramesAreExact ==
  ASSUME Serialised, SleepCovers, MaxTimeouts = 0
  PROVE  Spec => []FramesExact
<1>1. LinkInv => FramesExact
  BY DEF LinkInv, FramesExact, ExchangeInv
<1> QED BY <1>1, LinkInvariant, PTL

\* No call leaves anything on the line for the next one to read.
THEOREM LineIsQuiet ==
  ASSUME Serialised, SleepCovers, MaxTimeouts = 0
  PROVE  Spec => []QuietBetweenCalls
<1>1. LinkInv => QuietBetweenCalls
  BY DEF LinkInv
<1> QED BY <1>1, LinkInvariant, PTL

-----------------------------------------------------------------------------
(* The link implements the driver's promise FpsRpc.                        *)

\* Two packets that show the same call and the same interval hand over the
\* same answers, and an unanswered command that gets its answer now is not
\* the one an old packet holds.
LEMMA HandedKept ==
  ASSUME TypeOK, LinkInv, NEW t \in Threads, packet'[t] = packet[t],
         \/ UNCHANGED answerAt
         \/ \E ack \in BOOLEAN : Answer(ack)
  PROVE  Handed(t)' = Handed(t)
<1>1. CASE UNCHANGED answerAt
  BY <1>1 DEF Handed
<1>2. ASSUME NEW ack \in BOOLEAN, Answer(ack) PROVE Handed(t)' = Handed(t)
  <2>1. PICK c \in Calls : c = taken + 1
    BY <1>2, FpsLinkAssumption DEF Answer, TypeOK, Calls
  <2>1a. answerAt' = [answerAt EXCEPT ![c] = produced] /\ Pending(c)
    BY <1>2, <2>1 DEF Answer, Pending, TypeOK
  <2>1b. answerAt[c] = Unanswered
    BY <2>1a DEF LinkInv, AnswersInv
  <2>2. packet[t].len = RESPONSE_LEN => packet[t].start # produced
    <3>1. CASE packet[t].call = 0
      BY <3>1, FpsLinkAssumption DEF LinkInv, AnswersInv
    <3>2. CASE packet[t].call # 0
      <4>1. PICK d \in Calls : d = packet[t].call
        BY <3>2 DEF TypeOK, Calls
      <4>2. Answered(d) /\ packet[t].start = answerAt[d]
        BY <3>2, <4>1 DEF LinkInv, AnswersInv, OwnResponse
      <4>3. answerAt[d] < produced
        BY <4>2 DEF LinkInv, AnswersInv
      <4> QED BY <4>2, <4>3 DEF TypeOK, Unanswered
    <3> QED BY <3>1, <3>2
  <2>3. \A d \in Calls : d # c => answerAt'[d] = answerAt[d]
    BY <2>1a DEF TypeOK
  <2>4. answerAt'[c] = produced
    BY <2>1a DEF TypeOK
  <2> QED BY <2>1b, <2>2, <2>3, <2>4 DEF Handed
<1> QED BY <1>1, <1>2

\* A step of the link is a call, a reply or the end of a download as the
\* promise allows it, or changes nothing the promise speaks of.
LEMMA StepRefines ==
  ASSUME TypeOK, LinkInv, LinkInv', Serialised, MaxTimeouts = 0, [Next]_vars
  PROVE  [Rpc!Next]_(Rpc!vars)
<1> DEFINE phase == [t \in Threads |-> Phase(t)]
           reply == [t \in Threads |-> Handed(t)]
<1>1. ASSUME \/ \E ack \in BOOLEAN : Answer(ack)
             \/ Lose \/ Arrive
             \/ \E t \in Threads : LockResponse(t) \/ LockData(t)
             \/ UNCHANGED vars
      PROVE  UNCHANGED Rpc!vars
  <2>1. UNCHANGED <<call, sent, packet>>
    BY <1>1 DEF Answer, Lose, Arrive, LockResponse, LockData, vars, threadVars
  <2>2. \A t \in Threads : Phase(t)' = Phase(t)
    BY <1>1
    DEF Answer, Lose, Arrive, LockResponse, LockData, vars, threadVars, Phase,
        TypeOK
  <2>3. UNCHANGED answerAt \/ \E ack \in BOOLEAN : Answer(ack)
    BY <1>1 DEF Lose, Arrive, LockResponse, LockData, vars, deviceVars
  <2>4. \A t \in Threads : Handed(t)' = Handed(t)
    BY <2>1, <2>3, HandedKept
  <2> QED BY <2>1, <2>2, <2>4 DEF Rpc!vars
<1>2. ASSUME NEW t \in Threads, NEW d \in Downloads, SendCommand(t, d)
      PROVE  Rpc!Call(t)
  <2>1. \A u \in Threads : Phase(u) = "idle"
    BY <1>2 DEF SendCommand, Phase
  <2>2. phase' = [phase EXCEPT ![t] = "waiting"]
    BY <1>2 DEF SendCommand, Phase, TypeOK
  <2>3. UNCHANGED reply
    BY <1>2 DEF SendCommand, Handed, deviceVars
  <2> QED BY <1>2, <2>1, <2>2, <2>3 DEF SendCommand, Rpc!Call
<1>3. ASSUME NEW t \in Threads, Poll(t)
      PROVE  Rpc!Reply(t) \/ UNCHANGED Rpc!vars
  <2>1. /\ pc[t] = "reading" /\ UNCHANGED <<call, sent, answerAt>>
        /\ \A u \in Threads : u # t => /\ pc'[u] = pc[u]
                                     /\ packet'[u] = packet[u]
    BY <1>3 DEF Poll, Return, deviceVars, TypeOK
  <2>2. \A u \in Threads : u # t => /\ Phase(u)' = Phase(u)
                                 /\ Handed(u)' = Handed(u)
    BY <2>1 DEF Phase, Handed
  <2>3. CASE UNCHANGED <<pc, packet>>
    BY <2>1, <2>3 DEF Rpc!vars, Phase, Handed
  <2>4. CASE Return(t, RESPONSE_LEN)
    <3>1. /\ packet'[t].call = call[t] /\ packet'[t].len = RESPONSE_LEN
          /\ pc'[t] \in {"acked", "idle"}
      BY <2>4 DEF Return, TypeOK
    <3>2. call[t] \in Calls /\ packet'[t].start = answerAt[call[t]]
      <4>1. call[t] \in Calls
        BY <1>3, PollReads
      <4> QED BY <2>1, <3>1, <4>1 DEF LinkInv, OwnResponse, Calls
    <3>3. Handed(t)' = {call[t]}
      <4>1. Answered(call[t])
        BY <1>3, PollReads
      <4>2. ASSUME NEW e \in Calls, answerAt[e] = answerAt[call[t]]
            PROVE  e = call[t]
        <5>1. Answered(e)
          BY <4>1, <4>2
               DEF LinkInv, AnswersInv, Answered, Pending, TypeOK, Calls
        <5>2. PICK c \in Calls : c = call[t]
          BY <3>2
        <5>3. /\ c < e => answerAt[c] < answerAt[e]
              /\ e < c => answerAt[e] < answerAt[c]
          BY <4>1, <5>1, <5>2 DEF LinkInv, AnswersInv
        <5>4. answerAt[c] \in Int
          BY DEF TypeOK, Unanswered
        <5>5. ~(c < e) /\ ~(e < c)
          BY <4>2, <5>2, <5>3, <5>4
        <5> QED BY <5>2, <5>5 DEF Calls
      <4> QED BY <2>1, <3>1, <3>2, <4>1, <4>2 DEF Handed, Answered
    <3>4. Phase(t) = "waiting" /\ Phase(t)' \in {"idle", "downloading"}
      BY <2>1, <3>1 DEF Phase
    <3>5. reply' = [reply EXCEPT ![t] = {call[t]}]
      BY <2>2, <3>3
    <3>6. \E p \in {"idle", "downloading"} : phase' = [phase EXCEPT ![t] = p]
      BY <2>2, <3>4
    <3> QED BY <2>1, <3>4, <3>5, <3>6 DEF Rpc!Reply
  <2> QED
    <3>1. UNCHANGED <<pc, packet>> \/ Return(t, RESPONSE_LEN)
      <4>1. PICK i \in Nat : i = index[t] + Available(RESPONSE_LEN)
        BY <1>3, PollReads DEF TypeOK
      <4>2. i <= RESPONSE_LEN /\ RESPONSE_LEN \in Nat
        BY <1>3, <4>1, FpsLinkAssumption, PollReads
      <4>3. ~(i > RESPONSE_LEN)
        BY <4>2
      <4> QED BY <1>3, <4>1, <4>3 DEF Poll
    <3> QED BY <2>3, <2>4, <3>1
<1>4. ASSUME NEW t \in Threads, PollData(t)
      PROVE  Rpc!Downloaded(t) \/ UNCHANGED Rpc!vars
  <2>1. /\ pc[t] = "data" /\ UNCHANGED <<call, sent, packet, answerAt>>
        /\ pc' = pc \/ pc' = [pc EXCEPT ![t] = "idle"]
    BY <1>4 DEF PollData, deviceVars
  <2>2. reply' = reply
    BY <2>1 DEF Handed
  <2>3. CASE pc' = pc
    BY <2>1, <2>2, <2>3 DEF Rpc!vars, Phase
  <2>4. CASE pc' = [pc EXCEPT ![t] = "idle"]
    <3>1. Phase(t) = "downloading" /\ phase' = [phase EXCEPT ![t] = "idle"]
      BY <2>1, <2>4 DEF Phase, TypeOK
    <3> QED BY <2>1, <2>2, <3>1 DEF Rpc!Downloaded
  <2> QED BY <2>1, <2>3, <2>4
<1>5. ASSUME NEW t \in Threads, Timeout(t) PROVE FALSE
  BY <1>5 DEF Timeout, TypeOK
<1> QED BY <1>1, <1>2, <1>3, <1>4, <1>5 DEF Next, Device, Reader, Rpc!Next

\* The link implements FpsRpc: under serialised callers and a line that never
\* times out, every behaviour of the byte stream is a behaviour of calls that
\* return the answer to their own command.
THEOREM LinkImplementsRpc ==
  ASSUME Serialised, SleepCovers, MaxTimeouts = 0
  PROVE  Spec => ImplementsRpc
<1>1. Init => Rpc!Init
  BY FpsLinkAssumption DEF Init, Rpc!Init, Phase, Handed, NoPacket
<1>2. TypeOK /\ LinkInv /\ LinkInv' /\ [Next]_vars => [Rpc!Next]_(Rpc!vars)
  BY StepRefines
<1> QED BY <1>1, <1>2, TypeCorrect, LinkInvariant, PTL
     DEF Spec, ImplementsRpc, Rpc!Spec
=============================================================================
