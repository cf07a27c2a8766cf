---------------------------- MODULE WorkerProofs ----------------------------
(***************************************************************************)
(* Proofs about the worker: the type invariant, that only a request ends   *)
(* it, and the order of its answers, for every set of objects and calls    *)
(* and for any number of outages and interrupts.                           *)
(***************************************************************************)
EXTENDS Worker, TLAPS

\* A worker without a stream has nothing left of the last one.
StreamInv ==
  link = "none" => inbox = <<>> /\ received = <<>> /\ answers = <<>>

\* The broker sends a call once, so a call has one place in received.
SentOnce ==
  /\ \A k \in DOMAIN received : received[k] \in sent
  /\ \A k, l \in DOMAIN received : received[k] = received[l] => k = l

\* How many calls of this stream run_worker has read.
Taken == IF pc = "call" THEN Len(answers) + 1 ELSE Len(answers)

IsCall(i) == inbox[i].type = "Call"

\* Every call that run_worker has not read is in the inbox, ...
Unread ==
  \A k \in DOMAIN received :
    k > Taken => \E i \in DOMAIN inbox : IsCall(i) /\ inbox[i].call = received[k]

\* ... no other call is there, ...
OnlyUnread ==
  \A i \in DOMAIN inbox :
    IsCall(i) => \E k \in DOMAIN received : k > Taken /\ inbox[i].call = received[k]

\* ... and they are in the order in which they were sent.
InboxOrder ==
  \A i, j \in DOMAIN inbox : \A k, l \in DOMAIN received :
    i < j /\ IsCall(i) /\ IsCall(j) /\ inbox[i].call = received[k] /\ inbox[j].call = received[l]
      => k < l

\* A stream that is still open is exact about the calls it carries; once it is
\* closed no answer is added to it.
OpenInv ==
  link = "open" =>
    /\ Taken <= Len(received)
    /\ pc = "call" => current = received[Taken]
    /\ Unread /\ OnlyUnread /\ InboxOrder

\* What stops a worker: nothing but a change of the watch channel, or a signal,
\* which a ctrl_c() future that is ready has seen.
StopInv == EndsOnRequest /\ (ctrlC => interrupts > 0)

\* The calls of the stream.
OrderInv == StreamInv /\ SentOnce /\ OpenInv /\ AnswersInOrder

\* The inductive invariant.
WorkerInv == TypeOK /\ StopInv /\ OrderInv

-----------------------------------------------------------------------------
(* Two facts about sequences.                                              *)

\* Tail moves every element one place to the front.
LEMMA TailFacts ==
  ASSUME NEW S, NEW s \in Seq(S), s # <<>>
  PROVE  /\ Tail(s) \in Seq(S)
         /\ Head(s) = s[1] /\ 1 \in DOMAIN s
         /\ \A i \in DOMAIN Tail(s) : i + 1 \in DOMAIN s /\ Tail(s)[i] = s[i + 1]
         /\ \A i \in DOMAIN s : i # 1 => i - 1 \in DOMAIN Tail(s) /\ Tail(s)[i - 1] = s[i]
  OBVIOUS

\* Append adds an element behind those there are.
LEMMA AppendFacts ==
  ASSUME NEW S, NEW s \in Seq(S), NEW e \in S
  PROVE  /\ Append(s, e) \in Seq(S)
         /\ Len(Append(s, e)) = Len(s) + 1
         /\ DOMAIN Append(s, e) = 1 .. Len(s) + 1
         /\ DOMAIN s = 1 .. Len(s)
         /\ \A i \in DOMAIN s : Append(s, e)[i] = s[i]
         /\ Append(s, e)[Len(s) + 1] = e
  OBVIOUS

-----------------------------------------------------------------------------
(* The type invariant.                                                     *)

\* Its Boolean variables ...
FlagsOK ==
  /\ ctrlC \in BOOLEAN /\ (ctrlC => Selecting)
  /\ handler \in BOOLEAN /\ (Selecting => handler)
  /\ stop \in BOOLEAN /\ listening \in BOOLEAN

\* ... and the others.
DataOK ==
  /\ pc \in {"connect", "register", "select", "call", "retry", "ended", "killed"}
  /\ toRegister \subseteq Object
  /\ current \in CallId \cup {Nil} /\ (current # Nil <=> pc = "call")
  /\ link \in {"none", "open", "closed"}
  /\ link # "none" <=> pc \in {"register", "select", "call"}
  /\ inbox \in Seq(Packet)
  /\ registered \subseteq Object
  /\ received \in Seq(CallId) /\ answers \in Seq(CallId)
  /\ sent \subseteq CallId
  /\ outages \in 0..MaxOutages /\ interrupts \in 0..MaxInterrupts

\* TypeOK is the two together, before and after a step.
LEMMA TypeParts == (TypeOK <=> FlagsOK /\ DataOK) /\ (TypeOK' <=> FlagsOK' /\ DataOK')
  BY DEF TypeOK, FlagsOK, DataOK

\* The initial states have the types.
LEMMA TypeInit == Init => TypeOK
<1>1. Init => FlagsOK
  BY DEF Init, FlagsOK, Selecting
<1>2. Init => DataOK
  BY WorkerAssumption DEF Init, NoStream, DataOK
<1> QED BY <1>1, <1>2, TypeParts

\* A ctrl_c() future is ready only inside a select!, and there the handler is
\* installed: every step keeps both.
LEMMA FlagsNext ==
  ASSUME TypeOK, [Next]_workerVars
  PROVE  FlagsOK'
<1>a. FlagsOK
  BY TypeParts
<1> USE DEF Selecting, code, signal, stream, broker
<1>1. CASE Connect
  BY <1>a, <1>1 DEF FlagsOK, Connect, Fail, EnterSelect, DropStream
<1>2. CASE RegisterFails
  BY <1>a, <1>2 DEF FlagsOK, RegisterFails, Fail, EnterSelect, DropStream
<1>3. CASE Serve
  BY <1>a, <1>3 DEF FlagsOK, Serve, EnterSelect
<1>4. CASE ReadOther
  BY <1>a, <1>4 DEF FlagsOK, ReadOther, EnterSelect
<1>5. CASE ReadFails
  BY <1>a, <1>5 DEF FlagsOK, ReadFails, Fail, EnterSelect, DropStream
<1>6. CASE Answer
  BY <1>a, <1>6 DEF FlagsOK, Answer, EnterSelect
<1>7. CASE AnswerFails
  BY <1>a, <1>7 DEF FlagsOK, AnswerFails, Fail, EnterSelect, DropStream
<1>8. CASE Retry
  BY <1>a, <1>8 DEF FlagsOK, Retry
<1>9. CASE ShutdownBranch
  BY <1>a, <1>9 DEF FlagsOK, ShutdownBranch, End, DropStream
<1>10. CASE CtrlCBranch
  BY <1>a, <1>10 DEF FlagsOK, CtrlCBranch, End, DropStream
<1>11. CASE RequestShutdown
  BY <1>a, <1>11 DEF FlagsOK, RequestShutdown
<1>12. CASE Interrupt
  BY <1>a, <1>12 DEF FlagsOK, Interrupt, Over, DropStream
<1>13. CASE BrokerStops
  BY <1>a, <1>13 DEF FlagsOK, BrokerStops
<1>14. CASE BrokerStarts
  BY <1>a, <1>14 DEF FlagsOK, BrokerStarts
<1>15. ASSUME NEW o \in Object, Register(o) PROVE FlagsOK'
  BY <1>a, <1>15 DEF FlagsOK, Register
<1>16. CASE ReadCall
  BY <1>a, <1>16 DEF FlagsOK, ReadCall
<1>17. ASSUME NEW id \in CallId, SendCall(id) PROVE FlagsOK'
  BY <1>a, <1>17 DEF FlagsOK, SendCall
<1>18. CASE UNCHANGED workerVars
  BY <1>a, <1>18 DEF FlagsOK, workerVars
<1> QED
  BY <1>1, <1>2, <1>3, <1>4, <1>5, <1>6, <1>7, <1>8, <1>9, <1>10, <1>11, <1>12,
     <1>13, <1>14, <1>15, <1>16, <1>17, <1>18 DEF Next, Step, Environment

\* Every step keeps the other types, and with them the relation between the
\* program counter, the call being executed and the stream.
LEMMA DataNext ==
  ASSUME TypeOK, [Next]_workerVars
  PROVE  DataOK'
<1>a. DataOK /\ FlagsOK
  BY TypeParts
<1> USE WorkerAssumption DEF Selecting, code, signal, stream, broker
<1>1. CASE Connect
  <2>1. CASE listening
    BY <1>a, <1>1, <2>1 DEF DataOK, Connect, Fail, EnterSelect, DropStream
  <2>2. CASE ~listening
    BY <1>a, <1>1, <2>2 DEF DataOK, Connect, Fail, EnterSelect, DropStream
  <2> QED BY <2>1, <2>2
<1>2. CASE RegisterFails
  BY <1>a, <1>2 DEF DataOK, RegisterFails, Fail, EnterSelect, DropStream
<1>3. CASE Serve
  BY <1>a, <1>3 DEF DataOK, Serve, EnterSelect
<1>4. CASE ReadOther
  BY <1>a, <1>4 DEF DataOK, ReadOther, EnterSelect
<1>5. CASE ReadFails
  BY <1>a, <1>5 DEF DataOK, ReadFails, Fail, EnterSelect, DropStream
<1>6. CASE Answer
  BY <1>a, <1>6 DEF DataOK, Answer, EnterSelect
<1>7. CASE AnswerFails
  BY <1>a, <1>7 DEF DataOK, AnswerFails, Fail, EnterSelect, DropStream
<1>8. CASE Retry
  BY <1>a, <1>8 DEF DataOK, Retry
<1>9. CASE ShutdownBranch
  BY <1>a, <1>9 DEF DataOK, ShutdownBranch, End, DropStream
<1>10. CASE CtrlCBranch
  BY <1>a, <1>10 DEF DataOK, CtrlCBranch, End, DropStream
<1>11. CASE RequestShutdown
  BY <1>a, <1>11 DEF DataOK, RequestShutdown
<1>12. CASE Interrupt
  <2>1. CASE handler
    BY <1>a, <1>12, <2>1 DEF DataOK, Interrupt, Over, DropStream
  <2>2. CASE ~handler
    BY <1>a, <1>12, <2>2 DEF DataOK, Interrupt, Over, DropStream
  <2> QED BY <2>1, <2>2
<1>13. CASE BrokerStops
  BY <1>a, <1>13 DEF DataOK, BrokerStops
<1>14. CASE BrokerStarts
  BY <1>a, <1>14 DEF DataOK, BrokerStarts
<1>15. ASSUME NEW o \in Object, Register(o) PROVE DataOK'
  <2>1. [type |-> "Registered", object |-> o] \in Packet
    BY DEF Packet
  <2>2. inbox \in Seq(Packet) /\ registered \subseteq Object
    BY <1>a DEF DataOK
  <2>3. inbox' \in Seq(Packet) /\ registered' \subseteq Object
    BY <1>15, <2>1, <2>2 DEF Register
  <2> QED BY <1>a, <1>15, <2>3 DEF Register, DataOK
<1>16. CASE ReadCall
  <2>1. inbox \in Seq(Packet) /\ inbox # <<>>
    BY <1>a, <1>16 DEF ReadCall, DataOK
  <2>2. Head(inbox) \in Packet /\ Tail(inbox) \in Seq(Packet)
    BY <2>1
  <2>3. Head(inbox).call \in CallId
    BY <2>2, <1>16 DEF ReadCall, Packet
  <2> QED BY <1>a, <1>16, <2>2, <2>3 DEF ReadCall, DataOK
<1>17. ASSUME NEW id \in CallId, SendCall(id) PROVE DataOK'
  <2>1. [type |-> "Call", call |-> id] \in Packet
    BY DEF Packet
  <2>2. inbox' \in Seq(Packet)
    BY <1>a, <1>17, <2>1 DEF SendCall, DataOK
  <2> QED BY <1>a, <1>17, <2>2 DEF SendCall, DataOK
<1>18. CASE UNCHANGED workerVars
  BY <1>a, <1>18 DEF DataOK, workerVars
<1> QED
  BY <1>1, <1>2, <1>3, <1>4, <1>5, <1>6, <1>7, <1>8, <1>9, <1>10, <1>11, <1>12,
     <1>13, <1>14, <1>15, <1>16, <1>17, <1>18 DEF Next, Step, Environment

-----------------------------------------------------------------------------
(* What ends a worker.                                                     *)

\* Only the branches of a select! and the default action of the signal end it,
\* and every step keeps what they rest on.
LEMMA StopNext ==
  ASSUME TypeOK, StopInv, [Next]_workerVars
  PROVE  StopInv'
<1>a. FlagsOK /\ DataOK
  BY TypeParts
<1> USE DEF StopInv, EndsOnRequest, Over, code, signal, stream, broker
<1>1. CASE Step
  <2>1. UNCHANGED <<stop, interrupts>>
    BY <1>1 DEF Step, Connect, Register, RegisterFails, Serve, ReadCall, ReadOther,
       ReadFails, Answer, AnswerFails, Retry, Fail, EnterSelect
  <2>2. ~Over'
    BY <1>1 DEF Step, Connect, Register, RegisterFails, Serve, ReadCall, ReadOther,
       ReadFails, Answer, AnswerFails, Retry, Fail, EnterSelect
  <2>3. ctrlC' = FALSE \/ ctrlC' = ctrlC
    BY <1>1 DEF Step, Connect, Register, RegisterFails, Serve, ReadCall, ReadOther,
       ReadFails, Answer, AnswerFails, Retry, Fail, EnterSelect
  <2> QED BY <2>1, <2>2, <2>3
<1>2. CASE ShutdownBranch
  BY <1>2 DEF ShutdownBranch, End
<1>3. CASE CtrlCBranch
  BY <1>3 DEF CtrlCBranch, End
<1>4. CASE RequestShutdown
  BY <1>4 DEF RequestShutdown
<1>5. CASE Interrupt
  <2>1. interrupts' > 0
    BY <1>a, <1>5, WorkerAssumption DEF Interrupt, DataOK
  <2> QED BY <2>1
<1>6. ASSUME NEW id \in CallId, SendCall(id) PROVE StopInv'
  BY <1>6 DEF SendCall
<1>7. CASE BrokerStops \/ BrokerStarts
  BY <1>7 DEF BrokerStops, BrokerStarts
<1>8. CASE UNCHANGED workerVars
  BY <1>8 DEF workerVars
<1> QED
  BY <1>1, <1>2, <1>3, <1>4, <1>5, <1>6, <1>7, <1>8 DEF Next, Environment

-----------------------------------------------------------------------------
(* The order of the answers.                                               *)

\* A stream that is dropped takes its calls and answers with it.
LEMMA Dropped ==
  ASSUME DropStream
  PROVE  OrderInv'
  BY DEF DropStream, OrderInv, StreamInv, SentOnce, OpenInv, AnswersInOrder

\* Nothing changes for the calls while the stream is only closed or left alone
\* and no call is begun or finished.
LEMMA Untouched ==
  ASSUME OrderInv, UNCHANGED <<current, inbox, received, answers, sent>>,
         link' = link \/ (link = "open" /\ link' = "closed"),
         pc' = "call" <=> pc = "call"
  PROVE  OrderInv'
<1>1. Taken' = Taken
  BY DEF Taken
<1>2. StreamInv' /\ SentOnce' /\ AnswersInOrder'
  BY DEF OrderInv, StreamInv, SentOnce, AnswersInOrder
<1>3. OpenInv'
  BY <1>1 DEF OrderInv, OpenInv, Unread, OnlyUnread, InboxOrder, IsCall
<1> QED BY <1>2, <1>3 DEF OrderInv

\* A connection begins with an empty stream.
LEMMA ConnectOrder ==
  ASSUME TypeOK, OrderInv, Connect
  PROVE  OrderInv'
<1>1. CASE listening
  <2>1. inbox' = <<>> /\ received' = <<>> /\ answers' = <<>> /\ link' = "open" /\ pc' = "register"
    BY <1>1 DEF Connect, TypeOK, OrderInv, StreamInv
  <2>2. Taken' = 0
    BY <2>1 DEF Taken
  <2> QED
    BY <2>1, <2>2 DEF OrderInv, StreamInv, SentOnce, OpenInv, AnswersInOrder, Unread,
       OnlyUnread, InboxOrder
<1>2. CASE ~listening
  BY <1>2, Dropped DEF Connect, Fail
<1> QED BY <1>1, <1>2

\* A Registered response is not a call.
LEMMA RegisterOrder ==
  ASSUME TypeOK, OrderInv, NEW o \in Object, Register(o)
  PROVE  OrderInv'
<1>1. CASE link = "open"
  <2>1. inbox \in Seq(Packet) /\ [type |-> "Registered", object |-> o] \in Packet
    BY DEF TypeOK, Packet
  <2>2. inbox' = Append(inbox, [type |-> "Registered", object |-> o])
    BY <1>1 DEF Register
  <2>3. UNCHANGED <<pc, current, link, received, answers, sent>>
    BY DEF Register, broker
  <2>4. /\ DOMAIN inbox' = 1 .. Len(inbox) + 1
        /\ DOMAIN inbox = 1 .. Len(inbox) /\ Len(inbox) \in Nat
        /\ \A i \in DOMAIN inbox : inbox'[i] = inbox[i]
        /\ inbox'[Len(inbox) + 1].type = "Registered"
    BY <2>1, <2>2, AppendFacts
  <2>5. Taken' = Taken
    BY <2>3 DEF Taken
  <2>6. StreamInv' /\ SentOnce' /\ AnswersInOrder'
    BY <1>1, <2>3 DEF OrderInv, StreamInv, SentOnce, AnswersInOrder
  <2>7. Unread'
    <3>1. Unread
      BY <1>1 DEF OrderInv, OpenInv
    <3>2. DOMAIN inbox \subseteq DOMAIN inbox'
      BY <2>4
    <3> QED BY <2>3, <2>4, <2>5, <3>1, <3>2 DEF Unread, IsCall
  <2>8. \A i \in DOMAIN inbox' : IsCall(i)' => i \in DOMAIN inbox /\ IsCall(i) /\ inbox'[i] = inbox[i]
    BY <2>4 DEF IsCall
  <2>9. OnlyUnread' /\ InboxOrder'
    <3>1. OnlyUnread /\ InboxOrder
      BY <1>1 DEF OrderInv, OpenInv
    <3>2. OnlyUnread'
      BY <2>3, <2>5, <2>8, <3>1 DEF OnlyUnread
    <3>3. InboxOrder'
      BY <2>3, <2>8, <3>1 DEF InboxOrder
    <3> QED BY <3>2, <3>3
  <2> QED BY <1>1, <2>3, <2>5, <2>6, <2>7, <2>9 DEF OrderInv, OpenInv
<1>2. CASE link # "open"
  BY <1>2, Untouched DEF Register, broker
<1> QED BY <1>1, <1>2

\* The call at the head of an open inbox is the one after those already read:
\* were it a later one, that one would stand before it.
LEMMA HeadIsNext ==
  ASSUME TypeOK, OrderInv, link = "open", pc = "select", inbox # <<>>, Head(inbox).type = "Call"
  PROVE  /\ Len(answers) + 1 \in DOMAIN received
         /\ Head(inbox).call = received[Len(answers) + 1]
<1>1. /\ inbox \in Seq(Packet) /\ received \in Seq(CallId) /\ answers \in Seq(CallId)
      /\ Taken = Len(answers) /\ Len(answers) \in Nat
      /\ DOMAIN received = 1 .. Len(received)
  BY DEF TypeOK, Taken
<1>2. /\ Head(inbox) = inbox[1] /\ 1 \in DOMAIN inbox /\ IsCall(1)
      /\ DOMAIN inbox = 1 .. Len(inbox)
  BY <1>1 DEF IsCall
<1>3. PICK k \in DOMAIN received : k > Taken /\ inbox[1].call = received[k]
  BY <1>2 DEF OrderInv, OpenInv, OnlyUnread
<1>4. ASSUME k > Taken + 1 PROVE FALSE
  <2>1. Taken + 1 \in DOMAIN received
    BY <1>1, <1>3, <1>4
  <2>2. PICK i \in DOMAIN inbox : IsCall(i) /\ inbox[i].call = received[Taken + 1]
    BY <2>1, <1>1 DEF OrderInv, OpenInv, Unread
  <2>3. i # 1
    BY <2>1, <2>2, <1>1, <1>3, <1>4 DEF OrderInv, SentOnce
  <2>4. k < Taken + 1
    BY <2>1, <2>2, <2>3, <1>2, <1>3 DEF OrderInv, OpenInv, InboxOrder
  <2> QED BY <2>4, <1>1, <1>4
<1>5. k = Taken + 1
  BY <1>1, <1>3, <1>4
<1> QED BY <1>1, <1>2, <1>3, <1>5

\* What reading a packet of an open stream leaves behind it.
LEMMA TailOrder ==
  ASSUME TypeOK, OrderInv, inbox # <<>>, inbox' = Tail(inbox),
         UNCHANGED <<received, answers, sent, link>>
  PROVE  /\ \A i \in DOMAIN inbox' : i + 1 \in DOMAIN inbox /\ inbox'[i] = inbox[i + 1]
         /\ \A i \in DOMAIN inbox : i # 1 => i - 1 \in DOMAIN inbox' /\ inbox'[i - 1] = inbox[i]
         /\ inbox \in Seq(Packet) /\ inbox' \in Seq(Packet)
         /\ StreamInv' /\ SentOnce' /\ AnswersInOrder'
         /\ link = "open" => InboxOrder'
<1>1. inbox \in Seq(Packet)
  BY DEF TypeOK
<1>2. /\ \A i \in DOMAIN inbox' : i + 1 \in DOMAIN inbox /\ inbox'[i] = inbox[i + 1]
      /\ \A i \in DOMAIN inbox : i # 1 => i - 1 \in DOMAIN inbox' /\ inbox'[i - 1] = inbox[i]
      /\ inbox' \in Seq(Packet) /\ DOMAIN inbox' \subseteq Nat
  BY <1>1, TailFacts
<1>3. StreamInv' /\ SentOnce' /\ AnswersInOrder'
  BY DEF OrderInv, StreamInv, SentOnce, AnswersInOrder
<1>4. link = "open" => InboxOrder'
  BY <1>2 DEF OrderInv, OpenInv, InboxOrder, IsCall
<1> QED BY <1>1, <1>2, <1>3, <1>4

\* The call that is read is the next one, and those behind it stay unread.
LEMMA ReadCallOrder ==
  ASSUME TypeOK, OrderInv, ReadCall
  PROVE  OrderInv'
<1>1. /\ pc = "select" /\ pc' = "call" /\ inbox # <<>> /\ inbox' = Tail(inbox)
      /\ Head(inbox).type = "Call" /\ current' = Head(inbox).call
      /\ UNCHANGED <<received, answers, sent, link>>
  BY DEF ReadCall, broker
<1>2. /\ \A i \in DOMAIN inbox' : i + 1 \in DOMAIN inbox /\ inbox'[i] = inbox[i + 1]
      /\ \A i \in DOMAIN inbox : i # 1 => i - 1 \in DOMAIN inbox' /\ inbox'[i - 1] = inbox[i]
      /\ inbox \in Seq(Packet) /\ inbox' \in Seq(Packet)
      /\ StreamInv' /\ SentOnce' /\ AnswersInOrder'
      /\ link = "open" => InboxOrder'
  BY <1>1, TailOrder
<1>3. ASSUME link = "open" PROVE OpenInv'
  <2>1. /\ Len(answers) + 1 \in DOMAIN received
        /\ Head(inbox).call = received[Len(answers) + 1]
    BY <1>1, <1>3, HeadIsNext
  <2>2. /\ Taken = Len(answers) /\ Taken' = Len(answers) + 1 /\ Len(answers) \in Nat
        /\ DOMAIN received = 1 .. Len(received) /\ Len(received) \in Nat
    BY <1>1 DEF Taken, TypeOK
  <2>3. Head(inbox) = inbox[1] /\ 1 \in DOMAIN inbox /\ DOMAIN inbox = 1 .. Len(inbox)
    BY <1>1, <1>2
  <2>4. Unread'
    <3> SUFFICES ASSUME NEW k \in DOMAIN received, k > Len(answers) + 1
                 PROVE  \E i \in DOMAIN inbox' : inbox'[i].type = "Call" /\ inbox'[i].call = received[k]
      BY <1>1, <2>2 DEF Unread, IsCall
    <3>1. PICK i \in DOMAIN inbox : IsCall(i) /\ inbox[i].call = received[k]
      BY <1>3, <2>2 DEF OrderInv, OpenInv, Unread
    <3>2. i # 1
      BY <2>1, <2>2, <2>3, <3>1 DEF OrderInv, SentOnce
    <3>3. i - 1 \in DOMAIN inbox' /\ inbox'[i - 1] = inbox[i]
      BY <1>2, <3>2
    <3> QED BY <3>1, <3>3 DEF IsCall
  <2>5. OnlyUnread'
    <3> SUFFICES ASSUME NEW i \in DOMAIN inbox', inbox'[i].type = "Call"
                 PROVE  \E k \in DOMAIN received : k > Len(answers) + 1 /\ inbox'[i].call = received[k]
      BY <1>1, <2>2 DEF OnlyUnread, IsCall
    <3>1. i + 1 \in DOMAIN inbox /\ inbox'[i] = inbox[i + 1] /\ 1 < i + 1
      BY <1>2
    <3>2. PICK k \in DOMAIN received : k > Taken /\ inbox[i + 1].call = received[k]
      BY <1>3, <3>1 DEF OrderInv, OpenInv, OnlyUnread, IsCall
    <3>3. Len(answers) + 1 < k
      BY <1>1, <1>3, <2>1, <2>3, <3>1, <3>2 DEF OrderInv, OpenInv, InboxOrder, IsCall
    <3> QED BY <2>2, <3>1, <3>2, <3>3
  <2> QED BY <1>1, <1>2, <1>3, <2>1, <2>2, <2>4, <2>5 DEF OpenInv
<1> QED BY <1>1, <1>2, <1>3 DEF OrderInv, OpenInv

\* A response that is read was no call.
LEMMA ReadOtherOrder ==
  ASSUME TypeOK, OrderInv, ReadOther
  PROVE  OrderInv'
<1>1. /\ pc = "select" /\ pc' = "select" /\ inbox # <<>> /\ inbox' = Tail(inbox)
      /\ Head(inbox).type # "Call"
      /\ UNCHANGED <<current, received, answers, sent, link>>
  BY DEF ReadOther, EnterSelect, broker
<1>2. /\ \A i \in DOMAIN inbox' : i + 1 \in DOMAIN inbox /\ inbox'[i] = inbox[i + 1]
      /\ \A i \in DOMAIN inbox : i # 1 => i - 1 \in DOMAIN inbox' /\ inbox'[i - 1] = inbox[i]
      /\ inbox \in Seq(Packet) /\ inbox' \in Seq(Packet)
      /\ StreamInv' /\ SentOnce' /\ AnswersInOrder'
      /\ link = "open" => InboxOrder'
  BY <1>1, TailOrder
<1>3. Taken' = Taken /\ ~IsCall(1)
  BY <1>1, <1>2 DEF Taken, IsCall
<1>4. ASSUME link = "open" PROVE Unread'
  <2> SUFFICES ASSUME NEW k \in DOMAIN received, k > Taken
               PROVE  \E i \in DOMAIN inbox' : inbox'[i].type = "Call" /\ inbox'[i].call = received[k]
    BY <1>1, <1>3 DEF Unread, IsCall
  <2>1. PICK i \in DOMAIN inbox : IsCall(i) /\ inbox[i].call = received[k]
    BY <1>4 DEF OrderInv, OpenInv, Unread
  <2>2. i - 1 \in DOMAIN inbox' /\ inbox'[i - 1] = inbox[i]
    BY <1>2, <1>3, <2>1
  <2> QED BY <2>1, <2>2 DEF IsCall
<1>5. ASSUME link = "open" PROVE OnlyUnread'
  <2>1. OnlyUnread
    BY <1>5 DEF OrderInv, OpenInv
  <2>2. \A i \in DOMAIN inbox' : IsCall(i)' => IsCall(i + 1)
    BY <1>2 DEF IsCall
  <2> QED BY <1>1, <1>2, <1>3, <2>1, <2>2 DEF OnlyUnread
<1> QED BY <1>1, <1>2, <1>3, <1>4, <1>5 DEF OrderInv, OpenInv

\* The answer is to the last call that was read.
LEMMA AnswerOrder ==
  ASSUME TypeOK, OrderInv, Answer
  PROVE  OrderInv'
<1>1. /\ pc = "call" /\ pc' = "select"
      /\ UNCHANGED <<inbox, received, sent, link>>
      /\ answers' = IF link = "open" THEN Append(answers, current) ELSE answers
  BY DEF Answer, EnterSelect, broker
<1>2. CASE link = "open"
  <2>1. answers \in Seq(CallId) /\ current \in CallId
    BY <1>1 DEF TypeOK
  <2>2. /\ Len(answers') = Len(answers) + 1
        /\ DOMAIN answers' = 1 .. Len(answers) + 1
        /\ DOMAIN answers = 1 .. Len(answers) /\ Len(answers) \in Nat
        /\ \A i \in DOMAIN answers : answers'[i] = answers[i]
        /\ answers'[Len(answers) + 1] = current
    BY <1>1, <1>2, <2>1, AppendFacts
  <2>3. Taken = Len(answers) + 1 /\ Taken' = Taken
    BY <1>1, <2>2 DEF Taken
  <2>4. AnswersInOrder'
    BY <1>1, <1>2, <2>2, <2>3 DEF OrderInv, OpenInv, AnswersInOrder
  <2>5. StreamInv' /\ SentOnce'
    BY <1>1, <1>2 DEF OrderInv, StreamInv, SentOnce
  <2>6. OpenInv'
    BY <1>1, <1>2, <2>3 DEF OrderInv, OpenInv, Unread, OnlyUnread, InboxOrder, IsCall
  <2> QED BY <2>4, <2>5, <2>6 DEF OrderInv
<1>3. CASE link # "open"
  BY <1>1, <1>3 DEF OrderInv, StreamInv, SentOnce, OpenInv, AnswersInOrder
<1> QED BY <1>2, <1>3

\* A new call is the last one sent and the last in the inbox.
LEMMA SendOrder ==
  ASSUME TypeOK, OrderInv, NEW id \in CallId, SendCall(id)
  PROVE  OrderInv'
<1> DEFINE m == [type |-> "Call", call |-> id]
<1>1. /\ link = "open" /\ id \notin sent /\ sent' = sent \cup {id}
      /\ inbox' = Append(inbox, m) /\ received' = Append(received, id)
      /\ UNCHANGED <<pc, current, link, answers>>
  BY DEF SendCall, code
<1>2. inbox \in Seq(Packet) /\ m \in Packet /\ received \in Seq(CallId)
      /\ answers \in Seq(CallId) /\ m.type = "Call" /\ m.call = id
  BY DEF TypeOK, Packet
<1> HIDE DEF m
<1>3. /\ DOMAIN inbox' = 1 .. Len(inbox) + 1
      /\ DOMAIN inbox = 1 .. Len(inbox) /\ Len(inbox) \in Nat
      /\ \A i \in DOMAIN inbox : inbox'[i] = inbox[i]
      /\ inbox'[Len(inbox) + 1] = m
  BY <1>1, <1>2, AppendFacts
<1>4. /\ DOMAIN received' = 1 .. Len(received) + 1 /\ Len(received') = Len(received) + 1
      /\ DOMAIN received = 1 .. Len(received) /\ Len(received) \in Nat
      /\ \A k \in DOMAIN received : received'[k] = received[k]
      /\ received'[Len(received) + 1] = id
  BY <1>1, <1>2, AppendFacts
<1>5. /\ Taken' = Taken /\ Taken \in Nat /\ Taken <= Len(received)
      /\ pc = "call" => Taken >= 1
  BY <1>1, <1>2 DEF Taken, OrderInv, OpenInv
<1>6. \A k \in DOMAIN received : received[k] # id
  BY <1>1 DEF OrderInv, SentOnce
<1>7. \A i \in DOMAIN inbox : IsCall(i) => inbox[i].call # id
  BY <1>1, <1>6 DEF OrderInv, OpenInv, OnlyUnread
<1>8. StreamInv' /\ SentOnce'
  BY <1>1, <1>4, <1>6 DEF OrderInv, StreamInv, SentOnce
<1>9. AnswersInOrder'
  <2>1. DOMAIN answers = 1 .. Len(answers) /\ Len(answers) <= Len(received)
    BY <1>2 DEF OrderInv, AnswersInOrder
  <2> QED BY <1>1, <1>4, <2>1 DEF OrderInv, AnswersInOrder
<1>10. Unread'
  <2> SUFFICES ASSUME NEW k \in DOMAIN received', k > Taken
               PROVE  \E i \in DOMAIN inbox' : inbox'[i].type = "Call" /\ inbox'[i].call = received'[k]
    BY <1>5 DEF Unread, IsCall
  <2>1. CASE k \in DOMAIN received
    <3>1. PICK i \in DOMAIN inbox : IsCall(i) /\ inbox[i].call = received[k]
      BY <1>1, <2>1 DEF OrderInv, OpenInv, Unread
    <3> QED BY <1>3, <1>4, <2>1, <3>1 DEF IsCall
  <2>2. CASE k \notin DOMAIN received
    <3>1. received'[k] = id
      BY <1>4, <2>2
    <3> QED BY <1>2, <1>3, <3>1
  <2> QED BY <2>1, <2>2
<1>11. OnlyUnread'
  <2> SUFFICES ASSUME NEW i \in DOMAIN inbox', inbox'[i].type = "Call"
               PROVE  \E k \in DOMAIN received' : k > Taken /\ inbox'[i].call = received'[k]
    BY <1>5 DEF OnlyUnread, IsCall
  <2>1. CASE i \in DOMAIN inbox
    <3>1. PICK k \in DOMAIN received : k > Taken /\ inbox[i].call = received[k]
      BY <1>1, <1>3, <2>1 DEF OrderInv, OpenInv, OnlyUnread, IsCall
    <3> QED BY <1>3, <1>4, <2>1, <3>1
  <2>2. CASE i \notin DOMAIN inbox
    <3>1. inbox'[i].call = id
      BY <1>2, <1>3, <2>2
    <3> QED BY <1>4, <1>5, <3>1
  <2> QED BY <2>1, <2>2
<1>12. InboxOrder'
  <2> SUFFICES ASSUME NEW i \in DOMAIN inbox', NEW j \in DOMAIN inbox',
                      NEW k \in DOMAIN received', NEW l \in DOMAIN received',
                      i < j, inbox'[i].type = "Call", inbox'[j].type = "Call",
                      inbox'[i].call = received'[k], inbox'[j].call = received'[l]
               PROVE  k < l
    BY DEF InboxOrder, IsCall
  <2>1. i \in DOMAIN inbox /\ inbox'[i] = inbox[i] /\ IsCall(i)
    BY <1>3 DEF IsCall
  <2>2. k # Len(received) + 1
    BY <1>4, <1>7, <2>1
  <2>3. k \in DOMAIN received /\ received'[k] = received[k]
    BY <1>4, <2>2
  <2>4. CASE j \in DOMAIN inbox
    <3>1. inbox'[j] = inbox[j] /\ IsCall(j)
      BY <1>3, <2>4 DEF IsCall
    <3>2. l # Len(received) + 1
      BY <1>4, <1>7, <2>4, <3>1
    <3>3. l \in DOMAIN received /\ received'[l] = received[l]
      BY <1>4, <3>2
    <3> QED BY <1>1, <2>1, <2>3, <2>4, <3>1, <3>3 DEF OrderInv, OpenInv, InboxOrder
  <2>5. CASE j \notin DOMAIN inbox
    <3>1. inbox'[j].call = id
      BY <1>2, <1>3, <2>5
    <3>2. l \notin DOMAIN received
      BY <1>4, <1>6, <3>1
    <3> QED BY <1>4, <2>3, <3>2
  <2> QED BY <2>4, <2>5
<1>13. Taken' <= Len(received') /\ (pc' = "call" => current' = received'[Taken'])
  BY <1>1, <1>4, <1>5 DEF OrderInv, OpenInv
<1> QED BY <1>8, <1>9, <1>10, <1>11, <1>12, <1>13 DEF OrderInv, OpenInv

\* Every step keeps the order.
LEMMA OrderNext ==
  ASSUME TypeOK, OrderInv, [Next]_workerVars
  PROVE  OrderInv'
<1> USE DEF code, signal, stream, broker
<1>1. CASE RegisterFails \/ ReadFails \/ AnswerFails
  BY <1>1, Dropped DEF RegisterFails, ReadFails, AnswerFails, Fail
<1>2. CASE ShutdownBranch \/ CtrlCBranch
  BY <1>2, Dropped DEF ShutdownBranch, CtrlCBranch, End
<1>3. CASE Serve \/ Retry
  BY <1>3, Untouched DEF Serve, Retry, EnterSelect
<1>4. CASE RequestShutdown \/ BrokerStarts \/ UNCHANGED workerVars
  BY <1>4, Untouched DEF RequestShutdown, BrokerStarts, workerVars
<1>5. CASE BrokerStops
  BY <1>5, Untouched DEF BrokerStops
<1>6. CASE Interrupt
  <2>1. CASE handler
    BY <1>6, <2>1, Untouched DEF Interrupt
  <2>2. CASE ~handler
    BY <1>6, <2>2, Dropped DEF Interrupt
  <2> QED BY <2>1, <2>2
<1> QED
  BY <1>1, <1>2, <1>3, <1>4, <1>5, <1>6, ConnectOrder, RegisterOrder, ReadCallOrder,
     ReadOtherOrder, AnswerOrder, SendOrder DEF Next, Step, Environment

-----------------------------------------------------------------------------
\* The invariant holds initially and is kept by every step.
THEOREM WorkerInvariant == Spec => []WorkerInv
<1>1. Init => WorkerInv
  <2>1. Init => StopInv
    BY DEF Init, StopInv, EndsOnRequest, Over
  <2>2. Init => OrderInv
    BY DEF Init, NoStream, OrderInv, StreamInv, SentOnce, OpenInv, AnswersInOrder
  <2> QED BY <2>1, <2>2, TypeInit DEF WorkerInv
<1>2. WorkerInv /\ [Next]_workerVars => WorkerInv'
  BY FlagsNext, DataNext, TypeParts, StopNext, OrderNext DEF WorkerInv
<1> QED
  BY <1>1, <1>2, PTL DEF Spec

\* The worker's variables have their types in every reachable state: a call is
\* in execution exactly in obj.call and the write of its result, and there is a
\* stream exactly while run_worker is connected.
THEOREM WorkerTypes == Spec => []TypeOK
<1>1. WorkerInv => TypeOK
  BY DEF WorkerInv
<1> QED
  BY <1>1, WorkerInvariant, PTL

\* worker_supervisor ends for a change of the watch channel or a Ctrl-C, and
\* for nothing that happens to the broker.
THEOREM OnlyRequestsEnd == Spec => []EndsOnRequest
<1>1. WorkerInv => EndsOnRequest
  BY DEF WorkerInv, StopInv
<1> QED
  BY <1>1, WorkerInvariant, PTL

\* Whatever fails and however often the worker reconnects, each stream carries
\* the answers to its own calls, in the order of the calls, with none left out.
THEOREM OrderOfAnswers == Spec => []AnswersInOrder
<1>1. WorkerInv => AnswersInOrder
  BY DEF WorkerInv, OrderInv
<1> QED
  BY <1>1, WorkerInvariant, PTL
=============================================================================
