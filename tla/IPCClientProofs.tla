-------------------------- MODULE IPCClientProofs --------------------------
(***************************************************************************)
(* Proofs about the client: the type invariant, the reply that a method is *)
(* handed on a handle that has not subscribed, and the order and the       *)
(* completeness of a subscription's events, for every set of operations    *)
(* and every capacity.                                                     *)
(***************************************************************************)
EXTENDS IPCClient, FiniteSetTheorems, TLAPS

Replying == actor \in {"reply", "reply_body"}

\* A length that was read has its packet behind it, and a reply is awaited only
\* for the requests that have one.
ActorInv ==
  /\ actor \in {"select_body", "reply_body"} => wire # <<>>
  /\ current # Nil => ExpectsReply(current) /\ api[current] # NotCalled

\* Whatever is on its way comes from a method that was called; calls are all
\* that workers execute, and subscriptions all that events go to.
IssuedInv ==
  /\ \A i \in DOMAIN queue : api[queue[i]] # NotCalled
  /\ \A i \in DOMAIN toBroker : api[toBroker[i]] # NotCalled
  /\ \A op \in subs : KindOf[op] = "subscribe" /\ api[op] # NotCalled
  /\ \A op \in working : KindOf[op] = "remote_call" /\ api[op] # NotCalled

\* Events are written in the order of their numbers, and those still to be read
\* are later than all that were forwarded.
EventOrder ==
  /\ \A i \in DOMAIN wire :
       wire[i].type = "Event" =>
         /\ wire[i].n <= events
         /\ \A op \in Op : last[op] < wire[i].n
         /\ \A j \in DOMAIN wire : j > i /\ wire[j].type = "Event" => wire[i].n < wire[j].n
  /\ \A op \in Op : last[op] <= events

\* No reply is due: nothing that the broker or a worker will still answer.
NothingDue ==
  /\ wire = <<>> /\ working = {}
  /\ \A i \in DOMAIN toBroker : ~ExpectsReply(toBroker[i])

\* One reply is due, to the current request: it is the last request written, it
\* is with a worker, or its answer is the only packet on the wire.
OneDue ==
  /\ \A i \in DOMAIN toBroker :
       ExpectsReply(toBroker[i]) => /\ toBroker[i] = current /\ i = Len(toBroker)
                                    /\ working = {} /\ wire = <<>>
  /\ working \subseteq {current}
  /\ working # {} => wire = <<>>

\* A handle that has not subscribed: the stream is in step, and each reply is
\* awaited before the next request is written.
StepInv ==
  Unsubscribed =>
    /\ ~torn /\ ~topicOn
    /\ wire = <<>> \/ (Replying /\ wire = <<Reply(current)>>)
    /\ ~closed => IF Replying THEN OneDue ELSE NothingDue /\ actor = "select"

\* The packets on the wire of a subscription that is alone on its connection:
\* the Subscribed response, if it was not read yet, and every event that was
\* not forwarded.
Feed(op) ==
  \/ /\ Len(wire) = events + 1 /\ wire[1] = Subscribed /\ last[op] = 0
     /\ \A i \in DOMAIN wire : i > 1 => wire[i] = Event(i - 1)
  \/ /\ Len(wire) <= events
     /\ \A i \in DOMAIN wire : wire[i] = Event((events - Len(wire)) + i)
     /\ op \in subs => last[op] = events - Len(wire)

\* Such a subscription is queued, then written, then known to the broker.
AloneInv ==
  \A op \in Op :
    KindOf[op] = "subscribe" /\ Alone(op) /\ ~closed =>
      /\ ~torn /\ actor \in {"select", "select_body"}
      /\ queue # <<>> => queue = <<op>> /\ toBroker = <<>> /\ ~topicOn
      /\ toBroker # <<>> => toBroker = <<op>> /\ ~topicOn
      /\ ~topicOn => wire = <<>> /\ events = 0
      /\ topicOn => Feed(op)

\* The inductive invariant.
ClientInv ==
  /\ TypeOK /\ ActorInv /\ IssuedInv
  /\ EventOrder /\ StepInv /\ RepliesMatch /\ AloneInv

-----------------------------------------------------------------------------
(* Facts about sequences and packets.                                      *)

\* Tail moves every element one place to the front.
LEMMA TailFacts ==
  ASSUME NEW S, NEW s \in Seq(S), s # <<>>
  PROVE  /\ Tail(s) \in Seq(S) /\ Len(Tail(s)) = Len(s) - 1 /\ Len(s) \in Nat /\ Len(s) > 0
         /\ Head(s) = s[1] /\ Head(s) \in S /\ 1 \in DOMAIN s /\ DOMAIN s = 1 .. Len(s)
         /\ DOMAIN Tail(s) = 1 .. (Len(s) - 1)
         /\ \A i \in DOMAIN Tail(s) : i + 1 \in DOMAIN s /\ Tail(s)[i] = s[i + 1]
         /\ \A i \in DOMAIN s : i # 1 => i - 1 \in DOMAIN Tail(s) /\ Tail(s)[i - 1] = s[i]
  OBVIOUS

\* Append adds an element behind those there are.
LEMMA AppendFacts ==
  ASSUME NEW S, NEW s \in Seq(S), NEW e \in S
  PROVE  /\ Append(s, e) \in Seq(S)
         /\ Len(Append(s, e)) = Len(s) + 1 /\ Len(s) \in Nat
         /\ DOMAIN Append(s, e) = 1 .. Len(s) + 1
         /\ DOMAIN s = 1 .. Len(s)
         /\ \A i \in DOMAIN s : Append(s, e)[i] = s[i]
         /\ Append(s, e)[Len(s) + 1] = e
  OBVIOUS

\* A packet is none of the other things that a method can come to, and an event
\* has a number.
LEMMA PacketFacts ==
  ASSUME NEW m \in Packet
  PROVE  /\ m \notin {NotCalled, Waiting, Returned, IoError}
         /\ m.type = "Event" => m.n \in 1 .. MaxEvents
  BY DEF Packet, Subscribed, NotCalled, Waiting, Returned, IoError

\* What the broker writes are packets.
LEMMA PacketsWritten ==
  /\ Subscribed \in Packet /\ Subscribed.type = "Subscribed"
  /\ \A op \in Op : Reply(op) \in Packet /\ Reply(op).type # "Event"
  /\ \A n \in 1 .. MaxEvents : Event(n) \in Packet /\ Event(n).type = "Event" /\ Event(n).n = n
  BY DEF Packet, Subscribed, Reply, Event

\* A method that was called and has not returned is not one that was not called.
LEMMA OutcomesDiffer ==
  /\ NotCalled # Waiting /\ NotCalled # Returned /\ NotCalled # IoError
  /\ Waiting # Returned /\ Waiting # IoError /\ Returned # IoError
  BY DEF NotCalled, Waiting, Returned, IoError

-----------------------------------------------------------------------------
(* The type invariant.                                                     *)

\* Its Boolean variables ...
FlagsOK == torn \in BOOLEAN /\ topicOn \in BOOLEAN /\ closed \in BOOLEAN

\* ... and the others.
DataOK ==
  /\ handles \in {"held", "dropped"}
  /\ api \in [Op -> {NotCalled, Waiting, Returned, IoError} \cup Packet]
  /\ queue \in Seq(Op) /\ Len(queue) <= QueueCap
  /\ actor \in {"select", "select_body", "deaf", "reply", "reply_body", "gone"}
  /\ current \in Op \cup {Nil}
  /\ (current # Nil) <=> (actor \in {"reply", "reply_body"})
  /\ subs \subseteq Op /\ listening \subseteq Op
  /\ updates \in [Op -> Seq(1..MaxEvents)]
  /\ \A op \in Op : Len(updates[op]) <= UpdatesCap
  /\ toBroker \in Seq(Op) /\ wire \in Seq(Packet)
  /\ working \subseteq Op
  /\ events \in 0..MaxEvents
  /\ last \in [Op -> 0..MaxEvents]

\* TypeOK is the two together, before and after a step.
LEMMA TypeParts == (TypeOK <=> FlagsOK /\ DataOK) /\ (TypeOK' <=> FlagsOK' /\ DataOK')
  BY DEF TypeOK, FlagsOK, DataOK

\* The initial states have the types.
LEMMA TypeInit == Init => TypeOK /\ ActorInv
<1>1. Init => FlagsOK
  BY DEF Init, FlagsOK
<1>2. Init => DataOK /\ ActorInv
  BY ClientAssumption DEF Init, DataOK, ActorInv
<1> QED BY <1>1, <1>2, TypeParts

\* Every step keeps the Booleans.
LEMMA FlagsNext ==
  ASSUME FlagsOK, [Next]_vars
  PROVE  FlagsOK'
<1> USE DEF FlagsOK, user, own, broker
<1>1. ASSUME NEW op \in Op, Issue(op) \/ Receive(op) \/ DropReceiver(op) \/ BrokerResult(op)
      PROVE  FlagsOK'
  BY <1>1 DEF Issue, Receive, DropReceiver, BrokerResult
<1>2. CASE DropHandles
  BY <1>2 DEF DropHandles
<1>3. CASE Take
  BY <1>3 DEF Take
<1>4. CASE ReadLength \/ ReadReply \/ ReadUpdate \/ ReadEof \/ ActorEnds
  BY <1>4 DEF ReadLength, ReadReply, ReadUpdate, ReadEof, ActorEnds
<1>5. CASE ReadTorn
  BY <1>5 DEF ReadTorn
<1>6. CASE BrokerHandles
  BY <1>6 DEF BrokerHandles
<1>7. CASE BrokerEvent \/ BrokerCloses
  BY <1>7 DEF BrokerEvent, BrokerCloses
<1>8. CASE UNCHANGED vars
  BY <1>8 DEF vars
<1> QED
  BY <1>1, <1>2, <1>3, <1>4, <1>5, <1>6, <1>7, <1>8 DEF Next, ActorNext

\* A request is written and awaits its reply, or the actor goes on; if it has a
\* reply it is told that the write failed then.
LEMMA TakeOutcome ==
  ASSUME Take, NEW op, op = Head(queue)
  PROVE  \/ ExpectsReply(op) /\ actor' = "reply" /\ current' = op /\ api' = api
         \/ /\ actor' = "select" /\ current' = current
            /\ ExpectsReply(op) => WriteFails(op)
            /\ api' = IF ExpectsReply(op) THEN [api EXCEPT ![op] = IoError] ELSE api
<1>1. PICK written \in Writes(op) :
        IF ExpectsReply(op) /\ written
        THEN actor' = "reply" /\ current' = op /\ api' = api
        ELSE /\ actor' = "select" /\ current' = current
             /\ api' = IF ExpectsReply(op) THEN [api EXCEPT ![op] = IoError] ELSE api
  BY DEF Take
<1>2. ~written => WriteFails(op)
  BY <1>1 DEF Writes
<1> QED BY <1>1, <1>2

\* Every step keeps the other types; a packet whose length was read stays at the
\* head of the wire until its body is read.
LEMMA DataNext ==
  ASSUME TypeOK, ActorInv, [Next]_vars
  PROVE  DataOK'
<1>a. DataOK
  BY TypeParts
<1> USE ClientAssumption DEF DataOK, user, own, broker
<1>1. ASSUME NEW op \in Op, Issue(op) PROVE DataOK'
  <2>1. queue' \in Seq(Op) /\ Len(queue') <= QueueCap
    BY <1>a, <1>1 DEF Issue
  <2>2. api' \in [Op -> {NotCalled, Waiting, Returned, IoError} \cup Packet]
    BY <1>a, <1>1 DEF Issue
  <2> QED BY <1>a, <1>1, <2>1, <2>2 DEF Issue
<1>2. ASSUME NEW op \in Op, Receive(op) PROVE DataOK'
  <2>1. updates[op] \in Seq(1..MaxEvents) /\ updates[op] # <<>>
    BY <1>a, <1>2 DEF Receive
  <2>2. Tail(updates[op]) \in Seq(1..MaxEvents) /\ Len(Tail(updates[op])) <= UpdatesCap
    BY <1>a, <2>1
  <2> QED BY <1>a, <1>2, <2>2 DEF Receive
<1>3. ASSUME NEW op \in Op, DropReceiver(op) PROVE DataOK'
  BY <1>a, <1>3 DEF DropReceiver
<1>4. ASSUME NEW op \in Op, BrokerResult(op) PROVE DataOK'
  <2>1. wire' \in Seq(Packet)
    BY <1>a, <1>4, PacketsWritten DEF BrokerResult
  <2> QED BY <1>a, <1>4, <2>1 DEF BrokerResult
<1>5. CASE DropHandles
  BY <1>a, <1>5 DEF DropHandles
<1>6. CASE Take
  <2>1. queue \in Seq(Op) /\ queue # <<>>
    BY <1>a, <1>6 DEF Take
  <2>2. PICK op \in Op : op = Head(queue)
    BY <2>1
  <2>3. queue' \in Seq(Op) /\ Len(queue') <= QueueCap
    BY <1>a, <1>6, <2>1 DEF Take
  <2>4. toBroker' \in Seq(Op)
    BY <1>a, <1>6, <2>2 DEF Take
  <2>5. subs' \subseteq Op
    BY <1>a, <1>6, <2>2 DEF Take
  <2>a. \/ actor' = "reply" /\ current' = op /\ api' = api
        \/ /\ actor' = "select" /\ current' = current
           /\ api' = IF ExpectsReply(op) THEN [api EXCEPT ![op] = IoError] ELSE api
    BY <1>6, <2>2, TakeOutcome
  <2>6. CASE actor' = "reply" /\ current' = op /\ api' = api
    <3>1. actor' = "reply" /\ current' = op /\ api' = api
      BY <2>6
    <3> QED BY <1>a, <1>6, <2>3, <2>4, <2>5, <3>1 DEF Take
  <2>7. CASE /\ actor' = "select" /\ current' = current
             /\ api' = IF ExpectsReply(op) THEN [api EXCEPT ![op] = IoError] ELSE api
    <3>1. /\ actor' = "select" /\ current' = current
          /\ api' = IF ExpectsReply(op) THEN [api EXCEPT ![op] = IoError] ELSE api
      BY <2>7
    <3>2. api' \in [Op -> {NotCalled, Waiting, Returned, IoError} \cup Packet]
      BY <1>a, <3>1
    <3> QED BY <1>a, <1>6, <2>3, <2>4, <2>5, <3>1, <3>2 DEF Take
  <2> QED BY <2>a, <2>6, <2>7
<1>7. CASE ReadLength
  BY <1>a, <1>7 DEF ReadLength
<1>8. CASE ReadReply
  <2>1. wire \in Seq(Packet) /\ wire # <<>> /\ current \in Op
    BY <1>a, <1>8 DEF ReadReply, ActorInv
  <2>2. Head(wire) \in Packet /\ Tail(wire) \in Seq(Packet)
    BY <2>1
  <2>3. api' \in [Op -> {NotCalled, Waiting, Returned, IoError} \cup Packet]
    BY <1>a, <1>8, <2>1, <2>2 DEF ReadReply
  <2> QED BY <1>a, <1>8, <2>2, <2>3 DEF ReadReply
<1>9. CASE ReadUpdate
  <2> DEFINE room == {op \in subs \cap listening : Len(updates[op]) < UpdatesCap}
  <2>1. wire \in Seq(Packet) /\ wire # <<>>
    BY <1>a, <1>9 DEF ReadUpdate, ActorInv
  <2>2. Head(wire) \in Packet /\ Tail(wire) \in Seq(Packet)
    BY <2>1
  <2>3. CASE Head(wire).type = "Event"
    <3>1. PICK n \in 1 .. MaxEvents : n = Head(wire).n
      BY <2>2, <2>3, PacketFacts
    <3>2. /\ subs' = room
          /\ updates' = [op \in Op |-> IF op \in room THEN Append(updates[op], n) ELSE updates[op]]
          /\ last' = [op \in Op |-> IF op \in room THEN n ELSE last[op]]
      BY <1>9, <2>3, <3>1 DEF ReadUpdate
    <3>3. ASSUME NEW op \in Op
          PROVE  updates'[op] \in Seq(1..MaxEvents) /\ Len(updates'[op]) <= UpdatesCap
      <4>1. CASE op \in room
        <5>1. updates[op] \in Seq(1..MaxEvents) /\ Len(updates[op]) < UpdatesCap
          BY <1>a, <4>1
        <5>2. updates'[op] = Append(updates[op], n)
          BY <3>2, <4>1
        <5> QED BY <5>1, <5>2, AppendFacts
      <4>2. CASE op \notin room
        BY <1>a, <3>2, <4>2
      <4> QED BY <4>1, <4>2
    <3>4. updates' \in [Op -> Seq(1..MaxEvents)] /\ last' \in [Op -> 0..MaxEvents]
      BY <1>a, <3>2, <3>3
    <3>5. subs' \subseteq Op
      BY <1>a, <3>2
    <3> HIDE DEF room
    <3> QED BY <1>a, <1>9, <2>2, <3>3, <3>4, <3>5 DEF ReadUpdate
  <2>4. CASE Head(wire).type # "Event"
    BY <1>a, <1>9, <2>2, <2>4 DEF ReadUpdate
  <2> QED BY <2>3, <2>4
<1>10. CASE ReadEof
  <2>1. current' = Nil /\ actor' \in {"select", "deaf"}
    BY <1>10 DEF ReadEof, ReadFails
  <2>2. api' \in [Op -> {NotCalled, Waiting, Returned, IoError} \cup Packet]
    BY <1>a, <1>10 DEF ReadEof, ReadFails
  <2> QED BY <1>a, <1>10, <2>1, <2>2 DEF ReadEof
<1>11. CASE ReadTorn
  <2>0. wire \in Seq(Packet) /\ wire # <<>> /\ wire' \in {wire, Tail(wire), <<>>}
    BY <1>a, <1>11 DEF ReadTorn
  <2>1. wire' \in Seq(Packet)
    <3>1. Tail(wire) \in Seq(Packet) /\ <<>> \in Seq(Packet)
      BY <2>0
    <3> QED BY <2>0, <3>1
  <2>2. CASE ReadFails
    <3>1. current' = Nil /\ actor' \in {"select", "deaf"}
      BY <2>2 DEF ReadFails
    <3>2. api' \in [Op -> {NotCalled, Waiting, Returned, IoError} \cup Packet]
      BY <1>a, <2>2 DEF ReadFails
    <3> QED BY <1>a, <1>11, <2>1, <3>1, <3>2 DEF ReadTorn
  <2>3. CASE UNCHANGED <<actor, current, api>>
    BY <1>a, <1>11, <2>1, <2>3 DEF ReadTorn
  <2> QED BY <1>11, <2>2, <2>3 DEF ReadTorn
<1>12. CASE ActorEnds
  BY <1>a, <1>12 DEF ActorEnds
<1>13. CASE BrokerHandles
  <2>1. toBroker \in Seq(Op) /\ toBroker # <<>>
    BY <1>a, <1>13 DEF BrokerHandles
  <2>2. PICK op \in Op : op = Head(toBroker)
    BY <2>1
  <2>3. toBroker' \in Seq(Op)
    BY <1>13, <2>1 DEF BrokerHandles
  <2>4. wire' \in {wire, Append(wire, Subscribed), Append(wire, Reply(op))}
    BY <1>13, <2>2 DEF BrokerHandles
  <2>5. wire' \in Seq(Packet)
    <3>1. Subscribed \in Packet /\ Reply(op) \in Packet /\ wire \in Seq(Packet)
      BY <1>a, PacketsWritten
    <3>2. Append(wire, Subscribed) \in Seq(Packet) /\ Append(wire, Reply(op)) \in Seq(Packet)
      BY <3>1
    <3> QED BY <2>4, <3>1, <3>2
  <2>6. working' \subseteq Op
    BY <1>a, <1>13, <2>2 DEF BrokerHandles
  <2> QED BY <1>a, <1>13, <2>3, <2>5, <2>6 DEF BrokerHandles
<1>14. CASE BrokerEvent
  <2>1. events + 1 \in 1 .. MaxEvents /\ events' = events + 1
    BY <1>a, <1>14 DEF BrokerEvent
  <2>2. wire' \in Seq(Packet)
    BY <1>a, <1>14, <2>1, PacketsWritten DEF BrokerEvent
  <2> QED BY <1>a, <1>14, <2>1, <2>2 DEF BrokerEvent
<1>15. CASE BrokerCloses
  BY <1>a, <1>15 DEF BrokerCloses
<1>16. CASE UNCHANGED vars
  BY <1>a, <1>16 DEF vars
<1> QED
  BY <1>1, <1>2, <1>3, <1>4, <1>5, <1>6, <1>7, <1>8, <1>9, <1>10, <1>11, <1>12, <1>13,
     <1>14, <1>15, <1>16 DEF Next, ActorNext

-----------------------------------------------------------------------------
(* What happens to a method.                                               *)

\* The steps that change what a method has come to: the call itself, a write
\* that fails, a packet that is read for it, and a read that fails.
LEMMA ApiNext ==
  ASSUME TypeOK, ActorInv, [Next]_vars, NEW op \in Op, api'[op] # api[op]
  PROVE  \/ Issue(op) /\ api[op] = NotCalled /\ api'[op] \in {Waiting, Returned}
         \/ /\ Take /\ op = Head(queue) /\ ExpectsReply(op) /\ WriteFails(op)
            /\ api'[op] = IoError
         \/ ReadReply /\ op = current /\ api'[op] = Head(wire)
         \/ (ReadEof \/ ReadTorn) /\ ReadFails /\ op = current /\ api'[op] = IoError
<1>a. api \in [Op -> {NotCalled, Waiting, Returned, IoError} \cup Packet]
  BY DEF TypeOK
<1> USE DEF user, own, broker
<1>1. ASSUME NEW o \in Op, Issue(o) PROVE Issue(op) /\ api[op] = NotCalled /\ api'[op] \in {Waiting, Returned}
  <2>1. o = op
    BY <1>a, <1>1 DEF Issue
  <2> QED BY <1>a, <1>1, <2>1 DEF Issue
<1>2. ASSUME NEW o \in Op, Receive(o) \/ DropReceiver(o) \/ BrokerResult(o) PROVE FALSE
  BY <1>2 DEF Receive, DropReceiver, BrokerResult
<1>3. ASSUME DropHandles \/ ReadLength \/ ReadUpdate \/ ActorEnds PROVE FALSE
  BY <1>3 DEF DropHandles, ReadLength, ReadUpdate, ActorEnds
<1>4. ASSUME BrokerHandles \/ BrokerEvent \/ BrokerCloses \/ UNCHANGED vars PROVE FALSE
  BY <1>4 DEF BrokerHandles, BrokerEvent, BrokerCloses, vars
<1>5. ASSUME Take
      PROVE  op = Head(queue) /\ ExpectsReply(op) /\ WriteFails(op) /\ api'[op] = IoError
  <2>1. PICK h : h = Head(queue)
    OBVIOUS
  <2>2. /\ ExpectsReply(h) /\ WriteFails(h)
        /\ api' = [api EXCEPT ![h] = IoError]
    BY <1>5, <2>1, TakeOutcome
  <2> QED BY <1>a, <2>1, <2>2
<1>6. ASSUME ReadReply PROVE op = current /\ api'[op] = Head(wire)
  BY <1>a, <1>6 DEF ReadReply
<1>7. ASSUME ReadEof \/ ReadTorn PROVE ReadFails /\ op = current /\ api'[op] = IoError
  <2>1. ReadFails
    BY <1>7 DEF ReadEof, ReadTorn
  <2> QED BY <1>a, <2>1 DEF ReadFails
<1> QED
  BY <1>1, <1>2, <1>3, <1>4, <1>5, <1>6, <1>7 DEF Next, ActorNext

\* A method that was called stays called.
LEMMA CalledStays ==
  ASSUME TypeOK, ActorInv, [Next]_vars, NEW op \in Op, api[op] # NotCalled
  PROVE  api'[op] # NotCalled
<1>1. CASE ReadReply /\ api'[op] = Head(wire)
  <2>1. wire \in Seq(Packet) /\ wire # <<>>
    BY <1>1 DEF TypeOK, ActorInv, ReadReply
  <2>2. Head(wire) \in Packet
    BY <2>1
  <2> QED BY <1>1, <2>2, PacketFacts
<1> QED BY <1>1, ApiNext, OutcomesDiffer

\* Whatever is under way comes from a call of user code.
LEMMA IssuedNext ==
  ASSUME TypeOK, ActorInv, IssuedInv, [Next]_vars
  PROVE  IssuedInv'
<1>a. /\ queue \in Seq(Op) /\ toBroker \in Seq(Op) /\ subs \subseteq Op /\ working \subseteq Op
      /\ api \in [Op -> {NotCalled, Waiting, Returned, IoError} \cup Packet]
  BY DEF TypeOK
<1>b. \A op \in Op : api[op] # NotCalled => api'[op] # NotCalled
  BY CalledStays
<1>c. IssuedInv
  OBVIOUS
<1> USE DEF user, own, broker
<1>1. ASSUME NEW op \in Op, Issue(op) PROVE IssuedInv'
  <2>1. api'[op] # NotCalled
    BY <1>a, <1>1, OutcomesDiffer DEF Issue
  <2>2. \A i \in DOMAIN queue' : api'[queue'[i]] # NotCalled
    BY <1>a, <1>b, <1>c, <1>1, <2>1, AppendFacts DEF Issue, IssuedInv
  <2>3. UNCHANGED <<toBroker, subs, working>>
    BY <1>1 DEF Issue
  <2> QED BY <1>a, <1>b, <1>c, <2>2, <2>3 DEF IssuedInv
<1>2. ASSUME UNCHANGED <<queue, toBroker>>, subs' \subseteq subs, working' \subseteq working
      PROVE  IssuedInv'
  BY <1>a, <1>b, <1>c, <1>2 DEF IssuedInv
<1>3. ASSUME NEW op \in Op, Receive(op) \/ DropReceiver(op) \/ BrokerResult(op)
      PROVE  IssuedInv'
  <2>1. UNCHANGED <<queue, toBroker>> /\ subs' \subseteq subs /\ working' \subseteq working
    BY <1>3 DEF Receive, DropReceiver, BrokerResult
  <2> QED BY <1>2, <2>1
<1>4. CASE DropHandles \/ ReadLength \/ ReadReply \/ ReadEof \/ ReadTorn \/ ActorEnds
  <2>1. UNCHANGED <<queue, toBroker>> /\ subs' \subseteq subs /\ working' \subseteq working
    BY <1>4 DEF DropHandles, ReadLength, ReadReply, ReadEof, ReadTorn, ActorEnds
  <2> QED BY <1>2, <2>1
<1>5. CASE BrokerEvent \/ BrokerCloses \/ UNCHANGED vars
  <2>1. UNCHANGED <<queue, toBroker>> /\ subs' \subseteq subs /\ working' \subseteq working
    BY <1>5 DEF BrokerEvent, BrokerCloses, vars
  <2> QED BY <1>2, <2>1
<1>6. CASE ReadUpdate
  <2>1. UNCHANGED <<queue, toBroker>> /\ subs' \subseteq subs /\ working' \subseteq working
    BY <1>6 DEF ReadUpdate
  <2> QED BY <1>2, <2>1
<1>7. CASE Take
  <2>1. queue # <<>>
    BY <1>7 DEF Take
  <2>2. PICK op \in Op : op = Head(queue) /\ op = queue[1] /\ 1 \in DOMAIN queue
    BY <1>a, <2>1, TailFacts
  <2>3. api'[op] # NotCalled
    BY <1>b, <1>c, <2>2 DEF IssuedInv
  <2>4. queue' = Tail(queue) /\ working' = working
        /\ subs' \in {subs, subs \cup {op}} /\ (subs' # subs => KindOf[op] = "subscribe")
        /\ toBroker' \in {toBroker, Append(toBroker, op)}
    BY <1>7, <2>2 DEF Take
  <2>5. \A i \in DOMAIN queue' : api'[queue'[i]] # NotCalled
    <3>1. \A i \in DOMAIN queue' : i + 1 \in DOMAIN queue /\ queue'[i] = queue[i + 1]
      BY <1>a, <2>1, <2>4, TailFacts
    <3> QED BY <1>a, <1>b, <1>c, <3>1 DEF IssuedInv
  <2>6. \A i \in DOMAIN toBroker' : api'[toBroker'[i]] # NotCalled
    BY <1>a, <1>b, <1>c, <2>3, <2>4, AppendFacts DEF IssuedInv
  <2> QED BY <1>a, <1>b, <1>c, <2>3, <2>4, <2>5, <2>6 DEF IssuedInv
<1>8. CASE BrokerHandles
  <2>1. toBroker # <<>>
    BY <1>8 DEF BrokerHandles
  <2>2. PICK op \in Op : op = Head(toBroker) /\ op = toBroker[1] /\ 1 \in DOMAIN toBroker
    BY <1>a, <2>1, TailFacts
  <2>3. api'[op] # NotCalled
    BY <1>b, <1>c, <2>2 DEF IssuedInv
  <2>4. toBroker' = Tail(toBroker) /\ UNCHANGED <<queue, subs>>
        /\ working' \in {working, working \cup {op}}
        /\ (working' # working => KindOf[op] = "remote_call")
    BY <1>8, <2>2 DEF BrokerHandles
  <2>5. \A i \in DOMAIN toBroker' : api'[toBroker'[i]] # NotCalled
    <3>1. \A i \in DOMAIN toBroker' : i + 1 \in DOMAIN toBroker /\ toBroker'[i] = toBroker[i + 1]
      BY <1>a, <2>1, <2>4, TailFacts
    <3> QED BY <1>a, <1>b, <1>c, <3>1 DEF IssuedInv
  <2> QED BY <1>a, <1>b, <1>c, <2>3, <2>4, <2>5 DEF IssuedInv
<1> QED
  BY <1>1, <1>3, <1>4, <1>5, <1>6, <1>7, <1>8 DEF Next, ActorNext

\* A packet whose length was read is there until its body is read, and a reply
\* is awaited for a request that was written.
LEMMA ActorNextInv ==
  ASSUME TypeOK, ActorInv, IssuedInv, [Next]_vars
  PROVE  ActorInv'
<1>a. /\ queue \in Seq(Op) /\ wire \in Seq(Packet) /\ current \in Op \cup {Nil}
      /\ actor \in {"select", "select_body", "deaf", "reply", "reply_body", "gone"}
      /\ (current # Nil) <=> (actor \in {"reply", "reply_body"})
  BY DEF TypeOK
<1>b. \A op \in Op : api[op] # NotCalled => api'[op] # NotCalled
  BY CalledStays
<1>c. ActorInv
  OBVIOUS
<1> USE DEF user, own, broker
<1>1. ASSUME UNCHANGED current \/ current' = Nil,
             actor' \in {"select_body", "reply_body"} => wire' # <<>>
      PROVE  ActorInv'
  BY <1>a, <1>b, <1>c, <1>1, ClientAssumption DEF ActorInv, ExpectsReply
<1>2. ASSUME NEW op \in Op, Issue(op) \/ Receive(op) \/ DropReceiver(op) PROVE ActorInv'
  <2>1. UNCHANGED <<current, actor, wire>>
    BY <1>2 DEF Issue, Receive, DropReceiver
  <2> QED BY <1>1, <1>c, <2>1 DEF ActorInv
<1>3. ASSUME NEW op \in Op, BrokerResult(op) PROVE ActorInv'
  <2>1. UNCHANGED <<current, actor>> /\ wire' = Append(wire, Reply(op))
    BY <1>3 DEF BrokerResult
  <2>2. wire' # <<>>
    BY <1>a, <2>1, PacketsWritten
  <2> QED BY <1>1, <2>1, <2>2
<1>4. CASE DropHandles \/ BrokerCloses \/ UNCHANGED vars
  <2>1. UNCHANGED <<current, actor, wire>>
    BY <1>4 DEF DropHandles, BrokerCloses, vars
  <2> QED BY <1>1, <1>c, <2>1 DEF ActorInv
<1>5. CASE ReadReply \/ ReadUpdate \/ ActorEnds
  <2>1. (UNCHANGED current \/ current' = Nil) /\ actor' \in {"select", "gone"}
    BY <1>5 DEF ReadReply, ReadUpdate, ActorEnds
  <2> QED BY <1>1, <2>1
<1>6. CASE ReadEof
  <2>1. current' = Nil /\ actor' \in {"select", "deaf"}
    BY <1>6 DEF ReadEof, ReadFails
  <2> QED BY <1>1, <2>1
<1>7. CASE ReadTorn
  <2>1. (UNCHANGED current \/ current' = Nil) /\ actor' \in {"select", "reply", "deaf"}
    BY <1>7 DEF ReadTorn, ReadFails
  <2> QED BY <1>1, <2>1
<1>8. CASE ReadLength
  <2>1. UNCHANGED <<current, wire>> /\ wire # <<>>
    BY <1>8 DEF ReadLength
  <2> QED BY <1>1, <2>1
<1>9. CASE BrokerHandles
  <2>1. UNCHANGED <<current, actor>>
        /\ \/ wire' = wire \/ wire' = Append(wire, Subscribed)
           \/ wire' = Append(wire, Reply(Head(toBroker)))
    BY <1>9 DEF BrokerHandles
  <2>2. wire # <<>> => wire' # <<>>
    BY <1>a, <2>1
  <2> QED BY <1>1, <1>c, <2>1, <2>2 DEF ActorInv
<1>10. CASE BrokerEvent
  <2>1. UNCHANGED <<current, actor>> /\ wire' = Append(wire, Event(events + 1))
    BY <1>10 DEF BrokerEvent
  <2>2. wire' # <<>>
    BY <1>a, <2>1
  <2> QED BY <1>1, <2>1, <2>2
<1>11. CASE Take
  <2>1. queue # <<>>
    BY <1>11 DEF Take
  <2>2. PICK op \in Op : op = Head(queue) /\ op = queue[1] /\ 1 \in DOMAIN queue
    BY <1>a, <2>1, TailFacts
  <2>3. api'[op] # NotCalled
    BY <1>b, <2>2 DEF IssuedInv
  <2>4. \/ actor' = "reply" /\ current' = op /\ ExpectsReply(op)
        \/ actor' = "select" /\ UNCHANGED current
    BY <1>11, <2>2 DEF Take
  <2>5. CASE actor' = "reply" /\ current' = op /\ ExpectsReply(op)
    BY <2>3, <2>5 DEF ActorInv, ExpectsReply
  <2>6. CASE actor' = "select" /\ UNCHANGED current
    BY <1>1, <2>6
  <2> QED BY <2>4, <2>5, <2>6
<1> QED
  BY <1>2, <1>3, <1>4, <1>5, <1>6, <1>7, <1>8, <1>9, <1>10, <1>11 DEF Next, ActorNext

-----------------------------------------------------------------------------
(* The order of the events.                                                *)

\* Packets taken off the wire leave the others in order.
LEMMA ShorterWire ==
  ASSUME TypeOK, EventOrder, wire' \in {wire, <<>>} \/ (wire # <<>> /\ wire' = Tail(wire)),
         UNCHANGED <<events, last>>
  PROVE  EventOrder'
<1>1. wire \in Seq(Packet)
  BY DEF TypeOK
<1>2. CASE wire' = wire
  BY <1>2 DEF EventOrder
<1>3. CASE wire' = <<>>
  BY <1>3 DEF EventOrder
<1>4. CASE wire # <<>> /\ wire' = Tail(wire)
  <2>1. /\ DOMAIN wire' \subseteq Nat
        /\ \A i \in DOMAIN wire' : i + 1 \in DOMAIN wire /\ wire'[i] = wire[i + 1]
    BY <1>1, <1>4, TailFacts
  <2> QED BY <2>1 DEF EventOrder
<1> QED BY <1>2, <1>3, <1>4

\* A packet that is no event can be added to the wire.
LEMMA OtherPacket ==
  ASSUME TypeOK, EventOrder, NEW m \in Packet, m.type # "Event", wire' = Append(wire, m),
         UNCHANGED <<events, last>>
  PROVE  EventOrder'
<1>1. wire \in Seq(Packet)
  BY DEF TypeOK
<1>2. \A i \in DOMAIN wire' : wire'[i].type = "Event" => i \in DOMAIN wire /\ wire'[i] = wire[i]
  BY <1>1, AppendFacts
<1> QED BY <1>2 DEF EventOrder

\* The event at the head of the wire is later than all that were forwarded and
\* earlier than all behind it.
LEMMA UpdateOrder ==
  ASSUME TypeOK, ActorInv, EventOrder, ReadUpdate
  PROVE  EventOrder'
<1>1. wire \in Seq(Packet) /\ wire # <<>> /\ wire' = Tail(wire) /\ UNCHANGED events
  BY DEF TypeOK, ActorInv, ReadUpdate
<1>2. CASE Head(wire).type # "Event"
  BY <1>1, <1>2, ShorterWire DEF ReadUpdate
<1>3. CASE Head(wire).type = "Event"
  <2>1. PICK n \in 1 .. MaxEvents : n = Head(wire).n
    BY <1>1, <1>3, TailFacts, PacketFacts
  <2>2. /\ last' \in [Op -> 0 .. MaxEvents] /\ last \in [Op -> 0 .. MaxEvents]
        /\ \A op \in Op : last'[op] \in {last[op], n}
    <3> DEFINE room == {op \in subs \cap listening : Len(updates[op]) < UpdatesCap}
    <3>1. last' = [op \in Op |-> IF op \in room THEN n ELSE last[op]]
      BY <1>3, <2>1 DEF ReadUpdate
    <3>2. last \in [Op -> 0 .. MaxEvents]
      BY DEF TypeOK
    <3> HIDE DEF room
    <3> QED BY <3>1, <3>2
  <2>3. /\ DOMAIN wire' \subseteq Nat /\ DOMAIN wire \subseteq Nat
        /\ \A i \in DOMAIN wire' : i + 1 \in DOMAIN wire /\ wire'[i] = wire[i + 1] /\ i + 1 > 1
        /\ 1 \in DOMAIN wire /\ Head(wire) = wire[1]
    BY <1>1, TailFacts
  <2>4. n <= events /\ \A j \in DOMAIN wire : j > 1 /\ wire[j].type = "Event" => n < wire[j].n
    BY <1>3, <2>1, <2>3 DEF EventOrder
  <2>5. \A op \in Op : last'[op] <= events'
    BY <1>1, <2>2, <2>4 DEF EventOrder
  <2>6. ASSUME NEW i \in DOMAIN wire', wire'[i].type = "Event"
        PROVE  /\ wire'[i].n <= events'
               /\ \A op \in Op : last'[op] < wire'[i].n
               /\ \A j \in DOMAIN wire' : j > i /\ wire'[j].type = "Event" => wire'[i].n < wire'[j].n
    <3>1. i + 1 \in DOMAIN wire /\ wire'[i] = wire[i + 1] /\ i + 1 > 1
      BY <2>3
    <3>2. \A op \in Op : last'[op] < wire'[i].n
      BY <2>2, <2>4, <2>6, <3>1 DEF EventOrder
    <3>3. wire'[i].n <= events'
      BY <1>1, <2>6, <3>1 DEF EventOrder
    <3>4. \A j \in DOMAIN wire' : j > i /\ wire'[j].type = "Event" => wire'[i].n < wire'[j].n
      BY <2>3, <2>6 DEF EventOrder
    <3> QED BY <3>2, <3>3, <3>4
  <2> QED BY <2>5, <2>6 DEF EventOrder
<1> QED BY <1>2, <1>3

\* A new event is later than all that were written.
LEMMA EventWritten ==
  ASSUME TypeOK, EventOrder, BrokerEvent
  PROVE  EventOrder'
<1>1. /\ wire \in Seq(Packet) /\ events \in Nat /\ events + 1 \in 1 .. MaxEvents
      /\ last \in [Op -> 0 .. MaxEvents] /\ last' = last
      /\ wire' = Append(wire, Event(events + 1)) /\ events' = events + 1
  BY ClientAssumption DEF TypeOK, BrokerEvent, own
<1>2. Event(events + 1) \in Packet /\ Event(events + 1).n = events + 1
  BY <1>1, PacketsWritten
<1>3. /\ DOMAIN wire' = 1 .. Len(wire) + 1 /\ DOMAIN wire = 1 .. Len(wire) /\ Len(wire) \in Nat
      /\ \A i \in DOMAIN wire : wire'[i] = wire[i] /\ wire[i] \in Packet
      /\ wire'[Len(wire) + 1].n = events + 1
  BY <1>1, <1>2, AppendFacts
<1>4. \A i \in DOMAIN wire : wire[i].type = "Event" => wire[i].n \in 1 .. MaxEvents
  BY <1>3, PacketFacts
<1>5. \A op \in Op : last'[op] <= events' /\ last'[op] < events + 1
  BY <1>1 DEF EventOrder
<1>6. ASSUME NEW i \in DOMAIN wire', wire'[i].type = "Event"
      PROVE  /\ wire'[i].n <= events'
             /\ \A op \in Op : last'[op] < wire'[i].n
             /\ \A j \in DOMAIN wire' : j > i /\ wire'[j].type = "Event" => wire'[i].n < wire'[j].n
  <2>1. CASE i = Len(wire) + 1
    BY <1>1, <1>3, <1>5, <2>1
  <2>2. CASE i \in DOMAIN wire
    <3>1. wire'[i] = wire[i] /\ wire[i].n \in 1 .. MaxEvents /\ wire[i].n <= events
      BY <1>3, <1>4, <1>6, <2>2 DEF EventOrder
    <3>2. ASSUME NEW j \in DOMAIN wire', j > i, wire'[j].type = "Event" PROVE wire'[i].n < wire'[j].n
      <4>1. CASE j = Len(wire) + 1
        BY <1>1, <1>3, <3>1, <4>1
      <4>2. CASE j \in DOMAIN wire
        BY <1>3, <1>6, <2>2, <3>1, <3>2, <4>2 DEF EventOrder
      <4> QED BY <1>3, <4>1, <4>2
    <3> QED BY <1>1, <1>6, <2>2, <3>1, <3>2 DEF EventOrder
  <2> QED BY <1>3, <2>1, <2>2
<1> QED BY <1>5, <1>6 DEF EventOrder

\* Every step keeps the order.
LEMMA EventNext ==
  ASSUME TypeOK, ActorInv, EventOrder, [Next]_vars
  PROVE  EventOrder'
<1> USE DEF user, own, broker
<1>1. ASSUME NEW op \in Op, Issue(op) \/ Receive(op) \/ DropReceiver(op) PROVE EventOrder'
  BY <1>1, ShorterWire DEF Issue, Receive, DropReceiver
<1>2. ASSUME NEW op \in Op, BrokerResult(op) PROVE EventOrder'
  BY <1>2, OtherPacket, PacketsWritten DEF BrokerResult
<1>3. CASE DropHandles \/ BrokerCloses \/ UNCHANGED vars
  BY <1>3, ShorterWire DEF DropHandles, BrokerCloses, vars
<1>4. CASE Take \/ ReadLength \/ ReadEof \/ ActorEnds
  BY <1>4, ShorterWire DEF Take, ReadLength, ReadEof, ActorEnds
<1>5. CASE ReadReply
  BY <1>5, ShorterWire DEF ReadReply, ActorInv
<1>6. CASE ReadTorn
  BY <1>6, ShorterWire DEF ReadTorn
<1>7. CASE BrokerHandles
  <2>1. toBroker \in Seq(Op) /\ toBroker # <<>>
    BY <1>7 DEF BrokerHandles, TypeOK
  <2>2. PICK op \in Op : op = Head(toBroker)
    BY <2>1
  <2>3. /\ UNCHANGED <<events, last>>
        /\ wire' = wire \/ wire' = Append(wire, Subscribed) \/ wire' = Append(wire, Reply(op))
    BY <1>7, <2>2 DEF BrokerHandles
  <2> QED BY <2>3, ShorterWire, OtherPacket, PacketsWritten
<1> QED
  BY <1>1, <1>2, <1>3, <1>4, <1>5, <1>6, <1>7, UpdateOrder, EventWritten DEF Next, ActorNext

\* Only ReadUpdate makes a subscription's channel longer, and what it adds is a
\* later event.
LEMMA GrowsWithLater ==
  ASSUME TypeOK, ActorInv, EventOrder, [Next]_vars,
         NEW op \in Op, Len(updates'[op]) > Len(updates[op])
  PROVE  last'[op] > last[op]
<1>a. /\ updates \in [Op -> Seq(1..MaxEvents)] /\ updates[op] \in Seq(1..MaxEvents)
      /\ last \in [Op -> 0..MaxEvents]
  BY DEF TypeOK
<1> USE DEF user, own, broker
<1>1. ASSUME UNCHANGED updates PROVE FALSE
  BY <1>1, <1>a
<1>2. ASSUME NEW o \in Op, Receive(o) PROVE FALSE
  <2>1. CASE o = op
    <3>1. updates'[op] = Tail(updates[op]) /\ updates[op] # <<>>
      BY <1>a, <1>2, <2>1 DEF Receive
    <3> QED BY <1>a, <3>1
  <2>2. CASE o # op
    BY <1>a, <1>2, <2>2 DEF Receive
  <2> QED BY <2>1, <2>2
<1>3. ASSUME NEW o \in Op, DropReceiver(o) PROVE FALSE
  <2>1. updates'[op] = <<>> \/ updates'[op] = updates[op]
    BY <1>a, <1>3 DEF DropReceiver
  <2> QED BY <1>a, <2>1
<1>4. ASSUME NEW o \in Op, Issue(o) \/ BrokerResult(o) PROVE FALSE
  BY <1>1, <1>4 DEF Issue, BrokerResult
<1>5. CASE DropHandles \/ Take \/ ReadLength \/ ReadReply \/ ReadEof \/ ReadTorn \/ ActorEnds
  BY <1>1, <1>5 DEF DropHandles, Take, ReadLength, ReadReply, ReadEof, ReadTorn, ActorEnds
<1>6. CASE BrokerHandles \/ BrokerEvent \/ BrokerCloses \/ UNCHANGED vars
  BY <1>1, <1>6 DEF BrokerHandles, BrokerEvent, BrokerCloses, vars
<1>7. CASE ReadUpdate
  <2> DEFINE room == {o \in subs \cap listening : Len(updates[o]) < UpdatesCap}
  <2>1. Head(wire).type = "Event"
    BY <1>1, <1>7 DEF ReadUpdate
  <2>2. /\ updates' = [o \in Op |-> IF o \in room THEN Append(updates[o], Head(wire).n) ELSE updates[o]]
        /\ last' = [o \in Op |-> IF o \in room THEN Head(wire).n ELSE last[o]]
    BY <1>7, <2>1 DEF ReadUpdate
  <2> HIDE DEF room
  <2>3. op \in room
    BY <1>a, <2>2
  <2>4. wire \in Seq(Packet) /\ wire # <<>>
    BY <1>7 DEF TypeOK, ActorInv, ReadUpdate
  <2>5. 1 \in DOMAIN wire /\ Head(wire) = wire[1] /\ Head(wire) \in Packet
    BY <2>4, TailFacts
  <2>6. Head(wire).n \in 1 .. MaxEvents
    BY <2>1, <2>5, PacketFacts
  <2> QED BY <1>a, <2>1, <2>2, <2>3, <2>5, <2>6 DEF EventOrder
<1> QED
  BY <1>2, <1>3, <1>4, <1>5, <1>6, <1>7 DEF Next, ActorNext

-----------------------------------------------------------------------------
(* The replies on a handle that has not subscribed.                        *)

\* The kinds that a request of such a handle can have.
LEMMA RequestKinds ==
  ASSUME NEW op \in Op
  PROVE  /\ KindOf[op] \in Methods
         /\ ExpectsReply(op) <=> KindOf[op] \in {"remote_call", "has_object"}
  BY ClientAssumption DEF ExpectsReply

\* A handle that has not subscribed had not subscribed before.
LEMMA UnsubscribedBefore ==
  ASSUME TypeOK, ActorInv, [Next]_vars, Unsubscribed'
  PROVE  Unsubscribed
  BY CalledStays DEF Unsubscribed

\* StepInv for a handle that has not subscribed.
InStep ==
  /\ ~torn /\ ~topicOn
  /\ wire = <<>> \/ (Replying /\ wire = <<Reply(current)>>)
  /\ ~closed => IF Replying THEN OneDue ELSE NothingDue /\ actor = "select"

\* The write of a request: nothing was due, and if the request has a reply it is
\* the only one that is due now.
LEMMA TakeInStep ==
  ASSUME TypeOK, ActorInv, IssuedInv, Unsubscribed, InStep, Take
  PROVE  InStep'
<1>a. /\ queue \in Seq(Op) /\ queue # <<>> /\ toBroker \in Seq(Op) /\ wire \in Seq(Packet)
      /\ ~Replying
  BY DEF TypeOK, Take, Replying
<1>1. PICK op \in Op : op = Head(queue) /\ op = queue[1] /\ 1 \in DOMAIN queue
  BY <1>a, TailFacts
<1>2. KindOf[op] # "subscribe"
  BY <1>1 DEF IssuedInv, Unsubscribed
<1>3. wire = <<>> /\ actor # "select_body"
  BY <1>a DEF InStep, ActorInv
<1>4. UNCHANGED <<wire, working, topicOn, closed>>
  BY DEF Take
<1>5. ~torn' /\ ~topicOn'
  <2>1. torn' = (torn \/ actor = "select_body")
    BY DEF Take
  <2>2. ~torn /\ ~topicOn
    BY DEF InStep
  <2> QED BY <1>3, <1>4, <2>1, <2>2
<1>6. PICK written \in Writes(op) :
        /\ toBroker' = IF written THEN Append(toBroker, op) ELSE toBroker
        /\ IF ExpectsReply(op) /\ written
           THEN actor' = "reply" /\ current' = op
           ELSE actor' = "select"
  BY <1>1 DEF Take
<1>7. CASE ExpectsReply(op) /\ written /\ ~closed
  <2>1. actor' = "reply" /\ current' = op
    BY <1>6, <1>7
  <2>2. NothingDue
    BY <1>7, <1>a DEF InStep
  <2>3. /\ DOMAIN toBroker' = 1 .. Len(toBroker) + 1 /\ DOMAIN toBroker = 1 .. Len(toBroker)
        /\ \A i \in DOMAIN toBroker : toBroker'[i] = toBroker[i]
        /\ toBroker'[Len(toBroker) + 1] = op /\ Len(toBroker') = Len(toBroker) + 1
        /\ Len(toBroker) \in Nat
    BY <1>a, <1>6, <1>7, AppendFacts
  <2>4. \A i \in DOMAIN toBroker' : ExpectsReply(toBroker'[i]) => i = Len(toBroker) + 1
    BY <2>2, <2>3 DEF NothingDue
  <2>5. OneDue'
    BY <1>4, <2>1, <2>2, <2>3, <2>4 DEF OneDue, NothingDue, ExpectsReply
  <2> QED BY <1>3, <1>4, <1>5, <2>1, <2>5 DEF InStep, Replying
<1>9. CASE ExpectsReply(op) /\ written /\ closed
  BY <1>3, <1>4, <1>5, <1>6, <1>9 DEF InStep
<1>8. CASE ~(ExpectsReply(op) /\ written)
  <2>1. actor' = "select"
    BY <1>6, <1>8
  <2>2. ASSUME ~closed PROVE NothingDue'
    <3>1. NothingDue
      BY <2>2, <1>a DEF InStep
    <3>2. \A i \in DOMAIN toBroker' : ~ExpectsReply(toBroker'[i])
      <4>1. CASE ~written
        BY <1>6, <3>1, <4>1 DEF NothingDue
      <4>2. CASE written
        BY <1>6, <1>8, <1>a, <3>1, <4>2, AppendFacts DEF NothingDue
      <4> QED BY <4>1, <4>2
    <3> QED BY <1>4, <3>1, <3>2 DEF NothingDue, ExpectsReply
  <2> QED BY <1>3, <1>4, <1>5, <2>1, <2>2 DEF InStep, Replying
<1> QED BY <1>7, <1>8, <1>9

\* The broker answers the current request or passes it on; publish has no answer.
LEMMA HandlesInStep ==
  ASSUME TypeOK, IssuedInv, Unsubscribed, InStep, BrokerHandles
  PROVE  InStep'
<1>a. /\ toBroker \in Seq(Op) /\ toBroker # <<>> /\ wire \in Seq(Packet) /\ working \subseteq Op
  BY DEF TypeOK, BrokerHandles
<1>1. PICK op \in Op : op = Head(toBroker) /\ op = toBroker[1] /\ 1 \in DOMAIN toBroker
  BY <1>a, TailFacts
<1>2. KindOf[op] \in {"remote_call", "has_object", "publish"}
  BY <1>1, RequestKinds DEF IssuedInv, Unsubscribed, Methods
<1>3. UNCHANGED <<actor, current, torn, closed>> /\ ~closed /\ toBroker' = Tail(toBroker)
  BY DEF BrokerHandles, own
<1>4. /\ \A i \in DOMAIN toBroker' : i + 1 \in DOMAIN toBroker /\ toBroker'[i] = toBroker[i + 1]
      /\ Len(toBroker') = Len(toBroker) - 1 /\ Len(toBroker) \in Nat
      /\ DOMAIN toBroker' = 1 .. Len(toBroker) - 1
  BY <1>a, <1>3, TailFacts
<1>5. ~torn' /\ ~topicOn'
  BY <1>1, <1>2, <1>3 DEF InStep, BrokerHandles
<1>6. CASE KindOf[op] = "publish"
  <2>1. UNCHANGED <<wire, working>>
    BY <1>1, <1>6 DEF BrokerHandles
  <2>2. NothingDue => NothingDue'
    BY <1>4, <2>1 DEF NothingDue, ExpectsReply
  <2>3. OneDue => OneDue'
    BY <1>3, <1>4, <2>1 DEF OneDue, ExpectsReply
  <2> QED BY <1>3, <1>5, <2>1, <2>2, <2>3 DEF InStep, Replying, Reply
<1>7. CASE KindOf[op] \in {"remote_call", "has_object"}
  <2>1. ExpectsReply(op)
    BY <1>7, RequestKinds
  <2>2. Replying /\ OneDue
    BY <1>1, <1>3, <2>1 DEF InStep, NothingDue
  <2>3. op = current /\ Len(toBroker) = 1 /\ working = {} /\ wire = <<>>
    BY <1>1, <2>1, <2>2 DEF OneDue
  <2>4. DOMAIN toBroker' = {}
    BY <1>4, <2>3
  <2>5. CASE KindOf[op] = "remote_call"
    <3>1. wire' = <<>> /\ working' = {current'}
      BY <1>1, <1>3, <2>3, <2>5 DEF BrokerHandles
    <3> QED BY <1>3, <1>5, <2>2, <2>4, <3>1 DEF InStep, Replying, OneDue
  <2>6. CASE KindOf[op] = "has_object"
    <3>1. wire' = Append(<<>>, Reply(op)) /\ working' = {}
      BY <1>1, <2>3, <2>6 DEF BrokerHandles
    <3>2. wire' = <<Reply(current)>> /\ Reply(current)' = Reply(current)
      BY <1>3, <2>3, <3>1 DEF Reply
    <3> QED BY <1>3, <1>5, <2>2, <2>4, <3>1, <3>2 DEF InStep, Replying, OneDue
  <2> QED BY <1>7, <2>5, <2>6
<1> QED BY <1>2, <1>6, <1>7

\* A worker's answer is to the current request.
LEMMA ResultInStep ==
  ASSUME TypeOK, IssuedInv, InStep, NEW op \in Op, BrokerResult(op)
  PROVE  InStep'
<1>1. /\ op \in working /\ ~closed /\ working' = working \ {op}
      /\ wire' = Append(wire, Reply(op))
      /\ UNCHANGED <<actor, current, torn, topicOn, toBroker, closed>>
  BY DEF BrokerResult, own
<1>2. Replying /\ OneDue
  BY <1>1 DEF InStep, NothingDue
<1>3. op = current /\ wire = <<>> /\ working' = {}
  BY <1>1, <1>2 DEF OneDue
<1>4. wire' = <<Reply(current)>> /\ Reply(current)' = Reply(current)
  BY <1>1, <1>3 DEF Reply
<1>5. \A i \in DOMAIN toBroker : ~ExpectsReply(toBroker[i])
  BY <1>1, <1>2 DEF OneDue
<1>6. OneDue'
  BY <1>1, <1>3, <1>5 DEF OneDue, ExpectsReply
<1> QED BY <1>1, <1>2, <1>4, <1>6 DEF InStep, Replying

\* Every step of such a handle's connection keeps it in step.
LEMMA StepNext ==
  ASSUME TypeOK, ActorInv, IssuedInv, StepInv, [Next]_vars
  PROVE  StepInv'
<1> SUFFICES ASSUME Unsubscribed'
             PROVE  InStep'
  BY DEF StepInv, InStep
<1>a. Unsubscribed
  BY UnsubscribedBefore
<1>b. InStep
  BY <1>a DEF StepInv, InStep
<1> USE DEF user, own, broker
<1>1. ASSUME UNCHANGED <<actor, current, torn, wire, toBroker, working, topicOn>>,
             closed' \in {closed, TRUE}
      PROVE  InStep'
  BY <1>1, <1>b DEF InStep, Replying, OneDue, NothingDue, Reply, ExpectsReply
<1>2. ASSUME NEW op \in Op, Issue(op) \/ Receive(op) \/ DropReceiver(op) PROVE InStep'
  BY <1>1, <1>2 DEF Issue, Receive, DropReceiver
<1>3. CASE DropHandles \/ BrokerCloses \/ UNCHANGED vars
  BY <1>1, <1>3 DEF DropHandles, BrokerCloses, vars
<1>4. CASE ReadLength
  <2>1. /\ wire # <<>> /\ UNCHANGED <<current, torn, wire, toBroker, working, topicOn, closed>>
    BY <1>4 DEF ReadLength
  <2>2. Replying
    BY <2>1, <1>b DEF InStep
  <2>3. Replying'
    BY <1>4, <2>2 DEF ReadLength, Replying
  <2> QED BY <1>b, <2>1, <2>2, <2>3 DEF InStep, OneDue, Reply, ExpectsReply
<1>5. CASE ReadReply
  <2>1. Replying /\ wire = <<Reply(current)>>
    BY <1>5, <1>b DEF ReadReply, ActorInv, InStep
  <2>2. /\ wire' = Tail(wire) /\ actor' = "select"
        /\ UNCHANGED <<torn, toBroker, working, topicOn, closed>>
    BY <1>5 DEF ReadReply
  <2>3. wire # <<>> /\ wire' = <<>>
    BY <2>1, <2>2
  <2>4. ~closed => NothingDue'
    BY <1>b, <2>1, <2>2, <2>3 DEF InStep, OneDue, NothingDue, ExpectsReply
  <2> QED BY <1>b, <2>2, <2>3, <2>4 DEF InStep, Replying
<1>6. ASSUME ReadUpdate PROVE FALSE
  BY <1>6, <1>b DEF ReadUpdate, ActorInv, InStep, Replying
<1>7. CASE ReadEof
  <2>1. closed' /\ wire' = <<>> /\ UNCHANGED <<torn, topicOn>>
    BY <1>7 DEF ReadEof
  <2> QED BY <1>b, <2>1 DEF InStep
<1>8. ASSUME ReadTorn PROVE FALSE
  BY <1>8, <1>b DEF ReadTorn, InStep
<1>9. CASE ActorEnds
  <2>1. ~Replying /\ actor # "select" /\ UNCHANGED <<torn, wire, topicOn, closed>>
    BY <1>9 DEF ActorEnds, Replying
  <2> QED BY <1>b, <2>1 DEF InStep
<1>10. ASSUME BrokerEvent PROVE FALSE
  BY <1>10, <1>b DEF BrokerEvent, InStep
<1> QED
  BY <1>a, <1>b, <1>2, <1>3, <1>4, <1>5, <1>6, <1>7, <1>8, <1>9, <1>10, TakeInStep,
     HandlesInStep, ResultInStep DEF Next, ActorNext

\* A broken connection stays broken.
LEMMA ClosedStays ==
  ASSUME [Next]_vars, closed
  PROVE  closed'
<1> USE DEF user, own, broker
<1>1. ASSUME NEW op \in Op, Issue(op) \/ Receive(op) \/ DropReceiver(op) \/ BrokerResult(op)
      PROVE  closed'
  BY <1>1 DEF Issue, Receive, DropReceiver, BrokerResult
<1>2. CASE DropHandles \/ BrokerHandles \/ BrokerEvent \/ BrokerCloses \/ UNCHANGED vars
  BY <1>2 DEF DropHandles, BrokerHandles, BrokerEvent, BrokerCloses, vars
<1>3. CASE ActorNext
  BY <1>3 DEF ActorNext, Take, ReadLength, ReadReply, ReadUpdate, ReadEof, ReadTorn, ActorEnds
<1> QED BY <1>1, <1>2, <1>3 DEF Next

\* On a handle in step the packet that is read for a method is its reply.
LEMMA RepliesNext ==
  ASSUME TypeOK, ActorInv, IssuedInv, StepInv, RepliesMatch, [Next]_vars
  PROVE  RepliesMatch'
<1> SUFFICES ASSUME Unsubscribed', NEW op \in Op
             PROVE  \/ api'[op] \in {NotCalled, Waiting, Returned, Reply(op)}
                    \/ api'[op] = IoError /\ WriteFails(op)'
  BY DEF RepliesMatch, ReplyMatches, Reply
<1>a. Unsubscribed
  BY UnsubscribedBefore
<1>b. InStep
  BY <1>a DEF StepInv, InStep
<1>c. WriteFails(op) => WriteFails(op)'
  BY ClosedStays DEF WriteFails
<1>1. CASE api'[op] = api[op]
  BY <1>a, <1>c, <1>1 DEF RepliesMatch, ReplyMatches
<1>2. CASE ReadReply /\ op = current /\ api'[op] = Head(wire)
  <2>1. wire = <<Reply(current)>>
    BY <1>2, <1>b DEF ReadReply, ActorInv, InStep
  <2>2. Head(wire) = Reply(current)
    BY <2>1
  <2> QED BY <1>2, <2>2
<1>3. ASSUME ReadTorn PROVE FALSE
  BY <1>3, <1>b DEF ReadTorn, InStep
<1>4. CASE ReadEof /\ api'[op] = IoError
  BY <1>4, <1>c DEF ReadEof, WriteFails
<1>5. CASE WriteFails(op) /\ api'[op] = IoError
  BY <1>5, <1>c
<1> QED BY <1>1, <1>2, <1>3, <1>4, <1>5, ApiNext

-----------------------------------------------------------------------------
(* A subscription that is alone on its connection.                         *)

\* AloneInv for one subscription.
OnlyThis(op) ==
  /\ ~torn /\ actor \in {"select", "select_body"}
  /\ queue # <<>> => queue = <<op>> /\ toBroker = <<>> /\ ~topicOn
  /\ toBroker # <<>> => toBroker = <<op>> /\ ~topicOn
  /\ ~topicOn => wire = <<>> /\ events = 0
  /\ topicOn => Feed(op)

\* The next packet that select! reads is the Subscribed response, which it
\* ignores, or the event after the last one, which goes to the subscription
\* unless that is dropped.
LEMMA UpdateFeeds ==
  ASSUME TypeOK, ActorInv, NEW op \in Op, Feed(op), ReadUpdate
  PROVE  Feed(op)'
<1> DEFINE room == {o \in subs \cap listening : Len(updates[o]) < UpdatesCap}
<1>1. /\ wire \in Seq(Packet) /\ wire # <<>> /\ wire' = Tail(wire) /\ events' = events
      /\ events \in Nat /\ last \in [Op -> 0 .. MaxEvents] /\ events <= MaxEvents
  BY ClientAssumption DEF TypeOK, ActorInv, ReadUpdate
<1>2. /\ \A i \in DOMAIN wire' : i + 1 \in DOMAIN wire /\ wire'[i] = wire[i + 1]
      /\ DOMAIN wire' = 1 .. Len(wire) - 1 /\ Len(wire') = Len(wire) - 1
      /\ DOMAIN wire = 1 .. Len(wire) /\ Len(wire) \in Nat /\ Len(wire) > 0
      /\ Head(wire) = wire[1]
  BY <1>1, TailFacts
<1>3. CASE /\ Len(wire) = events + 1 /\ wire[1] = Subscribed /\ last[op] = 0
           /\ \A i \in DOMAIN wire : i > 1 => wire[i] = Event(i - 1)
  <2>1. Head(wire).type # "Event"
    BY <1>2, <1>3, PacketsWritten
  <2>2. UNCHANGED <<subs, last>>
    BY <2>1 DEF ReadUpdate
  <2>3. Len(wire') = events'
    BY <1>1, <1>2, <1>3
  <2>4. ASSUME NEW i \in DOMAIN wire' PROVE wire'[i] = Event((events - Len(wire')) + i)
    <3>1. wire'[i] = Event((i + 1) - 1)
      BY <1>2, <1>3
    <3>2. (i + 1) - 1 = (events - Len(wire')) + i
      BY <1>1, <1>2, <2>3
    <3> QED BY <3>1, <3>2
  <2> QED BY <1>1, <1>3, <2>2, <2>3, <2>4 DEF Feed, Event
<1>4. CASE /\ Len(wire) <= events
           /\ \A i \in DOMAIN wire : wire[i] = Event((events - Len(wire)) + i)
           /\ op \in subs => last[op] = events - Len(wire)
  <2>1. (events - Len(wire)) + 1 \in 1 .. MaxEvents
    BY <1>1, <1>2, <1>4, ClientAssumption
  <2>2. Head(wire).type = "Event" /\ Head(wire).n = (events - Len(wire)) + 1
    <3>1. wire[1] = Event((events - Len(wire)) + 1)
      BY <1>2, <1>4
    <3> QED BY <1>2, <2>1, <3>1, PacketsWritten
  <2>3. subs' = room /\ last' = [o \in Op |-> IF o \in room THEN Head(wire).n ELSE last[o]]
    BY <2>2 DEF ReadUpdate
  <2> HIDE DEF room
  <2>4. op \in subs' => last'[op] = events' - Len(wire')
    BY <1>1, <1>2, <2>2, <2>3
  <2>5. ASSUME NEW i \in DOMAIN wire' PROVE wire'[i] = Event((events - Len(wire')) + i)
    <3>1. wire'[i] = Event((events - Len(wire)) + (i + 1))
      BY <1>2, <1>4
    <3>2. (events - Len(wire)) + (i + 1) = (events - Len(wire')) + i
      BY <1>1, <1>2
    <3> QED BY <3>1, <3>2
  <2>6. Len(wire') <= events'
    BY <1>1, <1>2, <1>4
  <2> QED BY <1>1, <2>4, <2>5, <2>6 DEF Feed, Event
<1> QED BY <1>3, <1>4 DEF Feed

\* A new event goes to the end of the feed.
LEMMA EventFeeds ==
  ASSUME TypeOK, NEW op \in Op, Feed(op), BrokerEvent
  PROVE  Feed(op)'
<1>1. /\ wire \in Seq(Packet) /\ wire' = Append(wire, Event(events + 1))
      /\ events' = events + 1 /\ UNCHANGED <<last, subs>>
      /\ events \in Nat /\ events + 1 \in 1 .. MaxEvents /\ last \in [Op -> 0 .. MaxEvents]
  BY ClientAssumption DEF TypeOK, BrokerEvent, own
<1>2. /\ DOMAIN wire' = 1 .. Len(wire) + 1 /\ DOMAIN wire = 1 .. Len(wire) /\ Len(wire) \in Nat
      /\ \A i \in DOMAIN wire : wire'[i] = wire[i]
      /\ wire'[Len(wire) + 1] = Event(events + 1) /\ Len(wire') = Len(wire) + 1
  BY <1>1, AppendFacts, PacketsWritten
<1>3. CASE /\ Len(wire) = events + 1 /\ wire[1] = Subscribed /\ last[op] = 0
           /\ \A i \in DOMAIN wire : i > 1 => wire[i] = Event(i - 1)
  <2>1. ASSUME NEW i \in DOMAIN wire', i > 1 PROVE wire'[i] = Event(i - 1)
    <3>1. CASE i \in DOMAIN wire
      BY <1>2, <1>3, <2>1, <3>1
    <3>2. CASE i = Len(wire) + 1
      <4>1. i - 1 = events + 1
        BY <1>1, <1>2, <1>3, <3>2
      <4> QED BY <1>2, <3>2, <4>1
    <3> QED BY <1>2, <3>1, <3>2
  <2>2. Len(wire') = events' + 1 /\ wire'[1] = Subscribed /\ last'[op] = 0
    BY <1>1, <1>2, <1>3
  <2> QED BY <2>1, <2>2 DEF Feed, Event, Subscribed
<1>4. CASE /\ Len(wire) <= events
           /\ \A i \in DOMAIN wire : wire[i] = Event((events - Len(wire)) + i)
           /\ op \in subs => last[op] = events - Len(wire)
  <2>1. ASSUME NEW i \in DOMAIN wire' PROVE wire'[i] = Event((events' - Len(wire')) + i)
    <3>0. events' - Len(wire') = events - Len(wire)
      BY <1>1, <1>2
    <3>1. CASE i \in DOMAIN wire
      BY <1>2, <1>4, <3>0, <3>1
    <3>2. CASE i = Len(wire) + 1
      <4>1. (events - Len(wire)) + i = events + 1
        BY <1>1, <1>2, <3>2
      <4> QED BY <1>2, <3>0, <3>2, <4>1
    <3> QED BY <1>2, <3>1, <3>2
  <2>2. Len(wire') <= events' /\ (op \in subs' => last'[op] = events' - Len(wire'))
    BY <1>1, <1>2, <1>4
  <2> QED BY <2>1, <2>2 DEF Feed, Event
<1> QED BY <1>3, <1>4 DEF Feed

\* Every step keeps it so, as long as no other operation is called.
LEMMA AloneNext ==
  ASSUME TypeOK, ActorInv, IssuedInv, EventOrder, StepInv, AloneInv, [Next]_vars
  PROVE  AloneInv'
<1> SUFFICES ASSUME NEW op \in Op, KindOf[op] = "subscribe", Alone(op)', ~closed'
             PROVE  OnlyThis(op)'
  BY DEF AloneInv, OnlyThis
<1>a. Alone(op) /\ ~closed
  BY CalledStays, ClosedStays DEF Alone
<1>b. OnlyThis(op)
  BY <1>a DEF AloneInv, OnlyThis
<1>c. /\ queue \in Seq(Op) /\ toBroker \in Seq(Op) /\ wire \in Seq(Packet)
      /\ subs \subseteq Op /\ working \subseteq Op /\ current \in Op \cup {Nil}
      /\ events \in 0 .. MaxEvents /\ last \in [Op -> 0 .. MaxEvents]
  BY DEF TypeOK
<1>d. working = {} /\ current = Nil
  BY <1>a, <1>c, RequestKinds DEF Alone, IssuedInv, ActorInv
<1> USE DEF user, own, broker
<1>1. ASSUME UNCHANGED <<actor, torn, wire, queue, toBroker, topicOn, events, last, subs>>
      PROVE  OnlyThis(op)'
  BY <1>1, <1>b DEF OnlyThis, Feed, Event, Subscribed
<1>2. ASSUME NEW o \in Op, Receive(o) \/ DropReceiver(o) PROVE OnlyThis(op)'
  BY <1>1, <1>2 DEF Receive, DropReceiver
<1>3. CASE DropHandles \/ UNCHANGED vars
  BY <1>1, <1>3 DEF DropHandles, vars
<1>4. ASSUME NEW o \in Op, Issue(o) PROVE OnlyThis(op)'
  <2>1. api'[o] # NotCalled
    BY <1>4, OutcomesDiffer DEF Issue, TypeOK
  <2>2. o = op /\ api[op] = NotCalled
    BY <1>4, <2>1 DEF Alone, Issue
  <2>3. \A x \in Op : api[x] = NotCalled
    BY <1>a, <2>2 DEF Alone
  <2>4. queue = <<>> /\ toBroker = <<>>
    <3>1. ASSUME queue # <<>> PROVE FALSE
      <4>1. 1 \in DOMAIN queue /\ queue[1] \in Op
        BY <1>c, <3>1, TailFacts
      <4> QED BY <2>3, <4>1 DEF IssuedInv
    <3>2. ASSUME toBroker # <<>> PROVE FALSE
      <4>1. 1 \in DOMAIN toBroker /\ toBroker[1] \in Op
        BY <1>c, <3>2, TailFacts
      <4> QED BY <2>3, <4>1 DEF IssuedInv
    <3> QED BY <3>1, <3>2
  <2>5. ~topicOn
    BY <2>3 DEF StepInv, Unsubscribed
  <2>6. queue' = <<op>>
    BY <1>4, <2>2, <2>4 DEF Issue
  <2>7. UNCHANGED <<actor, torn, wire, toBroker, topicOn, events>>
    BY <1>4 DEF Issue
  <2> QED BY <1>b, <2>4, <2>5, <2>6, <2>7 DEF OnlyThis
<1>5. ASSUME NEW o \in Op, BrokerResult(o) PROVE FALSE
  BY <1>5, <1>d DEF BrokerResult
<1>6. ASSUME BrokerCloses PROVE FALSE
  BY <1>6 DEF BrokerCloses
<1>7. CASE Take
  <2>1. queue = <<op>> /\ toBroker = <<>> /\ ~topicOn /\ wire = <<>> /\ events = 0 /\ ~torn
    BY <1>7, <1>b DEF Take, OnlyThis
  <2>2. actor # "select_body"
    BY <2>1 DEF ActorInv
  <2>3. Head(queue) = op /\ Tail(queue) = <<>>
    BY <2>1
  <2>4. ~ExpectsReply(op)
    BY RequestKinds
  <2>5. /\ actor' = "select" /\ queue' = <<>> /\ UNCHANGED <<wire, topicOn, events>>
        /\ toBroker' \in {toBroker, Append(toBroker, op)}
    BY <1>7, <2>3, <2>4 DEF Take
  <2>6. toBroker' \in {<<>>, <<op>>}
    BY <2>1, <2>5
  <2>7. torn' = (torn \/ actor = "select_body")
    BY <1>7 DEF Take
  <2>8. ~torn'
    BY <2>1, <2>2, <2>7
  <2> QED BY <2>1, <2>5, <2>6, <2>8 DEF OnlyThis
<1>8. CASE ReadLength
  <2>1. /\ UNCHANGED <<torn, wire, queue, toBroker, topicOn, events, last, subs>>
        /\ actor' \in {"select_body", "reply_body"} /\ (actor = "select" => actor' = "select_body")
    BY <1>8 DEF ReadLength
  <2>2. actor' = "select_body"
    BY <1>8, <1>b, <2>1 DEF ReadLength, OnlyThis
  <2> QED BY <1>b, <2>1, <2>2 DEF OnlyThis, Feed, Event, Subscribed
<1>9. ASSUME ReadReply \/ ReadEof \/ ReadTorn \/ ActorEnds PROVE FALSE
  BY <1>9, <1>a, <1>b DEF ReadReply, ReadEof, ReadTorn, ActorEnds, OnlyThis
<1>10. CASE ReadUpdate
  <2>1. wire # <<>> /\ actor' = "select" /\ UNCHANGED <<torn, queue, toBroker, topicOn>>
    BY <1>10 DEF ReadUpdate, ActorInv
  <2>2. topicOn /\ Feed(op)
    BY <1>b, <2>1 DEF OnlyThis
  <2>3. Feed(op)'
    BY <1>10, <2>2, UpdateFeeds
  <2> QED BY <1>b, <2>1, <2>2, <2>3 DEF OnlyThis
<1>11. CASE BrokerHandles
  <2>1. toBroker = <<op>> /\ ~topicOn /\ queue = <<>> /\ wire = <<>> /\ events = 0
    BY <1>11, <1>b DEF BrokerHandles, OnlyThis
  <2>2. Head(toBroker) = op /\ Tail(toBroker) = <<>>
    BY <2>1
  <2>3. /\ wire' = Append(wire, Subscribed) /\ toBroker' = <<>>
        /\ UNCHANGED <<actor, torn, queue, events, last, subs>>
    BY <1>11, <2>2 DEF BrokerHandles
  <2>4. topicOn'
    BY <1>11, <2>2 DEF BrokerHandles
  <2>5. wire' = <<Subscribed>>
    BY <2>1, <2>3
  <2>6. last[op] = 0
    BY <1>c, <2>1 DEF EventOrder
  <2>7. Len(wire') = 1 /\ wire'[1] = Subscribed /\ DOMAIN wire' = {1}
    BY <2>5
  <2>8. Feed(op)'
    BY <2>1, <2>3, <2>6, <2>7 DEF Feed, Subscribed
  <2> QED BY <1>b, <2>1, <2>3, <2>4, <2>8 DEF OnlyThis
<1>12. CASE BrokerEvent
  <2>1. topicOn /\ UNCHANGED <<actor, torn, queue, toBroker, topicOn>>
    BY <1>12 DEF BrokerEvent
  <2>2. Feed(op)'
    BY <1>b, <1>12, <2>1, EventFeeds DEF OnlyThis
  <2> QED BY <1>b, <2>1, <2>2 DEF OnlyThis
<1> QED
  BY <1>2, <1>3, <1>4, <1>5, <1>6, <1>7, <1>8, <1>9, <1>10, <1>11, <1>12 DEF Next, ActorNext

\* The feed accounts for every event.
LEMMA FeedIsComplete ==
  ASSUME TypeOK, IssuedInv, EventOrder, AloneInv
  PROVE  NoGap
<1> SUFFICES ASSUME NEW op \in subs, Alone(op), ~closed
             PROVE  last[op] + Cardinality({i \in DOMAIN wire : wire[i].type = "Event"}) = events
  BY DEF NoGap
<1> DEFINE E == {i \in DOMAIN wire : wire[i].type = "Event"}
<1>a. /\ op \in Op /\ wire \in Seq(Packet) /\ DOMAIN wire = 1 .. Len(wire) /\ Len(wire) \in Nat
      /\ last[op] \in Nat /\ events \in Nat /\ events <= MaxEvents /\ last[op] <= events
  BY ClientAssumption DEF TypeOK, EventOrder
<1>b. OnlyThis(op)
  BY <1>a DEF AloneInv, OnlyThis, IssuedInv
<1>1. CASE ~topicOn
  <2>1. E = {} /\ events = 0
    BY <1>1, <1>b DEF OnlyThis
  <2>2. Cardinality(E) = 0
    BY <2>1, FS_EmptySet
  <2> QED BY <1>a, <2>1, <2>2
<1>2. CASE /\ Len(wire) = events + 1 /\ wire[1] = Subscribed /\ last[op] = 0
           /\ \A i \in DOMAIN wire : i > 1 => wire[i] = Event(i - 1)
  <2>1. ASSUME NEW i \in DOMAIN wire, i > 1 PROVE wire[i].type = "Event"
    <3>1. i - 1 \in 1 .. MaxEvents
      BY <1>a, <1>2, <2>1, ClientAssumption
    <3> QED BY <1>2, <2>1, <3>1, PacketsWritten
  <2>2. wire[1].type # "Event"
    BY <1>2, PacketsWritten
  <2>3. E = 2 .. Len(wire)
    BY <1>a, <2>1, <2>2
  <2>4. Cardinality(E) = IF 2 > Len(wire) THEN 0 ELSE (Len(wire) - 2) + 1
    <3>1. Cardinality(2 .. Len(wire)) = IF 2 > Len(wire) THEN 0 ELSE (Len(wire) - 2) + 1
      <4>1. 2 \in Int /\ Len(wire) \in Int
        BY <1>a
      <4> QED BY <4>1, FS_Interval, Zenon
    <3> HIDE DEF E
    <3> QED BY <2>3, <3>1
  <2> QED BY <1>a, <1>2, <2>4
<1>3. CASE /\ Len(wire) <= events
           /\ \A i \in DOMAIN wire : wire[i] = Event((events - Len(wire)) + i)
           /\ op \in subs => last[op] = events - Len(wire)
  <2>1. ASSUME NEW i \in DOMAIN wire PROVE wire[i].type = "Event"
    <3>1. (events - Len(wire)) + i \in 1 .. MaxEvents
      BY <1>a, <1>3, ClientAssumption
    <3> QED BY <1>3, <3>1, PacketsWritten
  <2>2. E = 1 .. Len(wire)
    BY <1>a, <2>1
  <2>3. Cardinality(E) = IF 1 > Len(wire) THEN 0 ELSE (Len(wire) - 1) + 1
    <3>1. Cardinality(1 .. Len(wire)) = IF 1 > Len(wire) THEN 0 ELSE (Len(wire) - 1) + 1
      <4>1. 1 \in Int /\ Len(wire) \in Int
        BY <1>a
      <4> QED BY <4>1, FS_Interval, Zenon
    <3> HIDE DEF E
    <3> QED BY <2>2, <3>1
  <2> QED BY <1>a, <1>3, <2>3
<1> QED BY <1>b, <1>1, <1>2, <1>3 DEF OnlyThis, Feed

-----------------------------------------------------------------------------
\* The invariant holds initially and is kept by every step.
THEOREM ClientInvariant == Spec => []ClientInv
<1>1. Init => ClientInv
  <2> SUFFICES ASSUME Init PROVE ClientInv
    OBVIOUS
  <2>1. TypeOK /\ ActorInv
    BY TypeInit
  <2>2. IssuedInv /\ EventOrder
    BY ClientAssumption DEF Init, IssuedInv, EventOrder
  <2>3. StepInv
    BY DEF Init, StepInv, Replying, NothingDue
  <2>4. RepliesMatch
    BY DEF Init, RepliesMatch, ReplyMatches
  <2>5. AloneInv
    BY DEF Init, AloneInv
  <2> QED BY <2>1, <2>2, <2>3, <2>4, <2>5 DEF ClientInv
<1>2. ClientInv /\ [Next]_vars => ClientInv'
  <2> SUFFICES ASSUME ClientInv, [Next]_vars PROVE ClientInv'
    OBVIOUS
  <2>1. /\ TypeOK /\ ActorInv /\ IssuedInv
        /\ EventOrder /\ StepInv /\ RepliesMatch /\ AloneInv
    BY DEF ClientInv
  <2>2. TypeOK'
    BY <2>1, FlagsNext, DataNext, TypeParts
  <2>3. ActorInv' /\ IssuedInv'
    BY <2>1, ActorNextInv, IssuedNext
  <2>4. EventOrder' /\ AloneInv'
    BY <2>1, EventNext, AloneNext
  <2>5. StepInv' /\ RepliesMatch'
    BY <2>1, StepNext, RepliesNext
  <2> QED BY <2>2, <2>3, <2>4, <2>5 DEF ClientInv
<1> QED
  BY <1>1, <1>2, PTL DEF Spec

\* The client's variables have their types: the queue from the handles and the
\* channel of each subscription stay within their capacities, and a reply is
\* awaited exactly when there is a current request.
THEOREM ClientTypes == Spec => []TypeOK
<1>1. ClientInv => TypeOK
  BY DEF ClientInv
<1> QED
  BY <1>1, ClientInvariant, PTL

\* On a handle that has not subscribed every method is handed the reply to its
\* own request, or an error for a request that could not be sent or answered.
THEOREM OwnReply == Spec => []RepliesMatch
<1>1. ClientInv => RepliesMatch
  BY DEF ClientInv
<1> QED
  BY <1>1, ClientInvariant, PTL

\* A subscription that is alone on its connection misses no event.
THEOREM NoEventMissed == Spec => []NoGap
<1>1. ClientInv => NoGap
  BY FeedIsComplete DEF ClientInv
<1> QED
  BY <1>1, ClientInvariant, PTL

\* No subscription is forwarded an event twice or after a later one, whatever
\* is lost when the stream is read out of step.
THEOREM NoEventRepeated == Spec => NoRepeat
<1>1. ClientInv /\ [Next]_vars =>
        [\A op \in Op : Len(updates'[op]) > Len(updates[op]) => last'[op] > last[op]]_vars
  BY GrowsWithLater DEF ClientInv
<1> QED
  BY <1>1, ClientInvariant, PTL DEF Spec, NoRepeat
=============================================================================
