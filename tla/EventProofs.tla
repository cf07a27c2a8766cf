---------------------------- MODULE EventProofs ----------------------------
(***************************************************************************)
(* Proof that the events of a publisher reach each subscriber in order and *)
(* once, for any number of connections and topics, any capacity of the     *)
(* channels and any number of publications.                                *)
(*                                                                         *)
(* The number of an event is how many packets its publisher had sent.  So  *)
(* a publisher's event is above all its earlier ones wherever they are, as *)
(* long as it handles one packet at a time, and of the sends of one event  *)
(* no two go to the same channel.                                          *)
(***************************************************************************)
EXTENDS CallProofs

IsEvent(m, p) == m.type = "Event" /\ m.from = p

\* In the channel q the events of p are in order, and above n.
InOrder(q, p, n) ==
  \A i \in DOMAIN q :
    IsEvent(q[i], p) =>
      /\ q[i].seq > n
      /\ \A j \in DOMAIN q : i < j /\ IsEvent(q[j], p) => q[i].seq < q[j].seq

\* The events of p in the channel q are below n.
AllBelow(q, p, n) == \A i \in DOMAIN q : IsEvent(q[i], p) => q[i].seq < n

\* All events of p that were sent or written to c are below n.
Below(c, p, n) == seen[c][p] < n /\ AllBelow(chan[c], p, n)

\* What is true of the events of a publisher in the channels, ...
ChannelInv(p) ==
  \A c \in Conn :
    /\ InOrder(chan[c], p, seen[c][p])
    /\ Below(c, p, reads[p] + 1)
    /\ pc[p] = "publish" => Below(c, p, reads[p])

\* ... and of those that its reader is about to send.
SendsInv(p) ==
  \A i \in DOMAIN out[p] :
    out[p][i].msg.type = "Event" =>
      /\ out[p][i].msg.from = p /\ out[p][i].msg.seq = reads[p]
      /\ Below(out[p][i].to, p, reads[p])
      /\ \A j \in DOMAIN out[p] : j # i => out[p][j].to # out[p][i].to

\* The inductive invariant.
EventInv == \A p \in Conn : ChannelInv(p) /\ SendsInv(p)

-----------------------------------------------------------------------------
(* Facts about channels.                                                   *)

\* Taking the head keeps the order, ...
LEMMA TailInOrder ==
  ASSUME NEW q \in Seq(Message), q # <<>>, NEW p, NEW n
  PROVE  /\ InOrder(q, p, n) => InOrder(Tail(q), p, n)
         /\ AllBelow(q, p, n) => AllBelow(Tail(q), p, n)
<1>1. \A i \in DOMAIN Tail(q) : i \in Nat /\ i + 1 \in DOMAIN q /\ Tail(q)[i] = q[i + 1]
  BY TailElements
<1>2. InOrder(q, p, n) => InOrder(Tail(q), p, n)
  BY <1>1 DEF InOrder
<1>3. AllBelow(q, p, n) => AllBelow(Tail(q), p, n)
  BY <1>1 DEF AllBelow
<1> QED BY <1>2, <1>3

\* ... and what is left is above an event that was the head.
LEMMA TailAboveHead ==
  ASSUME NEW q \in Seq(Message), q # <<>>, NEW p, NEW n, InOrder(q, p, n), IsEvent(Head(q), p)
  PROVE  InOrder(Tail(q), p, Head(q).seq)
<1>1. /\ \A i \in DOMAIN Tail(q) : i \in Nat /\ i # 0 /\ i + 1 \in DOMAIN q /\ Tail(q)[i] = q[i + 1]
      /\ Head(q) = q[1] /\ 1 \in DOMAIN q /\ Head(q) \in Message
  BY TailElements
<1>2. Head(q).seq \in Nat
  BY <1>1, MessageFields DEF IsEvent
<1>3. \A i \in DOMAIN q : q[i] \in Message
  OBVIOUS
<1>4. \A i \in DOMAIN q : IsEvent(q[i], p) => q[i].seq \in Nat
  BY <1>3, MessageFields DEF IsEvent
<1> QED BY <1>1, <1>2, <1>4 DEF InOrder

\* A message that is no event of p changes nothing for p.
LEMMA AppendOther ==
  ASSUME NEW q \in Seq(Message), NEW m \in Message, NEW p, ~IsEvent(m, p)
  PROVE  /\ \A n : InOrder(q, p, n) => InOrder(Append(q, m), p, n)
         /\ \A n : AllBelow(q, p, n) => AllBelow(Append(q, m), p, n)
<1>1. \A i \in DOMAIN Append(q, m) :
        IsEvent(Append(q, m)[i], p) => i \in DOMAIN q /\ Append(q, m)[i] = q[i]
  BY AppendElements
<1>2. \A n : InOrder(q, p, n) => InOrder(Append(q, m), p, n)
  BY <1>1 DEF InOrder
<1>3. \A n : AllBelow(q, p, n) => AllBelow(Append(q, m), p, n)
  BY <1>1 DEF AllBelow
<1> QED BY <1>2, <1>3

\* An event above all others can be added.
LEMMA AppendEvent ==
  ASSUME NEW q \in Seq(Message), NEW m \in Message, NEW p, IsEvent(m, p), NEW n \in Nat,
         InOrder(q, p, n), AllBelow(q, p, m.seq), n < m.seq
  PROVE  InOrder(Append(q, m), p, n) /\ AllBelow(Append(q, m), p, m.seq + 1)
<1> DEFINE r == Append(q, m)
<1>1. /\ Len(q) \in Nat /\ r[Len(q) + 1] = m /\ DOMAIN q = 1 .. Len(q)
      /\ \A i \in DOMAIN r : (i \in DOMAIN q /\ r[i] = q[i]) \/ i = Len(q) + 1
  BY AppendElements
<1>2. m.seq \in Nat
  BY MessageFields DEF IsEvent
<1>3. \A i \in DOMAIN q : IsEvent(q[i], p) => q[i].seq \in Nat /\ q[i].seq < m.seq /\ q[i].seq > n
  <2>1. \A i \in DOMAIN q : q[i] \in Message
    OBVIOUS
  <2> QED BY <2>1, MessageFields DEF IsEvent, AllBelow, InOrder
<1> HIDE DEF r
<1>4. AllBelow(r, p, m.seq + 1)
  BY <1>1, <1>2, <1>3 DEF AllBelow
<1>5. InOrder(r, p, n)
  <2> SUFFICES ASSUME NEW i \in DOMAIN r, IsEvent(r[i], p)
               PROVE  /\ r[i].seq > n
                      /\ \A j \in DOMAIN r : i < j /\ IsEvent(r[j], p) => r[i].seq < r[j].seq
    BY DEF InOrder
  <2>1. CASE i = Len(q) + 1
    <3>1. r[i].seq > n
      BY <1>1, <1>2, <2>1
    <3>2. \A j \in DOMAIN r : ~(i < j)
      BY <1>1, <2>1
    <3> QED BY <3>1, <3>2
  <2>2. CASE i \in DOMAIN q /\ r[i] = q[i]
    BY <1>1, <1>3, <2>2 DEF InOrder
  <2> QED BY <1>1, <2>1, <2>2
<1> QED BY <1>4, <1>5 DEF r

\* What is below a number is below a larger one.
LEMMA BelowMore ==
  ASSUME NEW q \in Seq(Message), NEW p, NEW a \in Nat, NEW b \in Nat, a <= b, AllBelow(q, p, a)
  PROVE  AllBelow(q, p, b)
<1>1. \A i \in DOMAIN q : q[i] \in Message
  OBVIOUS
<1> QED BY <1>1, MessageFields DEF AllBelow, IsEvent

-----------------------------------------------------------------------------
(* Steps that send no event.                                               *)

\* The types on which the events depend.
LEMMA EventTypes ==
  TypeInv => /\ pc \in [Conn -> ReaderPc] /\ out \in [Conn -> Seq(Send)]
             /\ chan \in [Conn -> Seq(Message)] /\ reads \in [Conn -> Nat]
             /\ seen \in [Conn -> [Conn -> Nat]]
  BY DEF TypeInv, TypeOK

NoEvents(sends) == \A i \in DOMAIN sends : sends[i].msg.type # "Event"

\* A step that leaves the channels alone: a reader has no new events to send,
\* and comes to a publication only by reading a packet.
NothingNew ==
  /\ UNCHANGED <<chan, seen>>
  /\ \A p \in Conn :
       /\ reads'[p] >= reads[p]
       /\ NoEvents(out'[p]) \/ (out'[p] = out[p] /\ reads'[p] = reads[p])
       /\ pc'[p] = "publish" => pc[p] = "publish" \/ reads'[p] > reads[p]

\* A step that sends no new event keeps every event in its order.
LEMMA NothingNewNext ==
  ASSUME TypeInv, TypeInv', EventInv, NothingNew
  PROVE  EventInv'
<1> SUFFICES ASSUME NEW p \in Conn PROVE ChannelInv(p)' /\ SendsInv(p)'
  BY DEF EventInv
<1>0. ChannelInv(p) /\ SendsInv(p)
  BY DEF EventInv
<1>1. /\ chan' = chan /\ seen' = seen /\ reads[p] \in Nat /\ reads'[p] \in Nat
      /\ reads'[p] >= reads[p]
      /\ \A c \in Conn : chan[c] \in Seq(Message) /\ seen[c][p] \in Nat
  BY EventTypes DEF NothingNew, TypeInv, TypeOK
<1>2. ASSUME NEW c \in Conn, NEW a \in Nat, NEW b \in Nat, a <= b, Below(c, p, a)
      PROVE  seen'[c][p] < b /\ AllBelow(chan'[c], p, b)
  BY <1>1, <1>2, BelowMore DEF Below
<1>3. ChannelInv(p)'
  <2> SUFFICES ASSUME NEW c \in Conn
               PROVE  /\ InOrder(chan'[c], p, seen'[c][p])
                      /\ seen'[c][p] < reads'[p] + 1 /\ AllBelow(chan'[c], p, reads'[p] + 1)
                      /\ pc'[p] = "publish" => seen'[c][p] < reads'[p] /\ AllBelow(chan'[c], p, reads'[p])
    BY DEF ChannelInv, Below
  <2>1. InOrder(chan'[c], p, seen'[c][p])
    BY <1>0, <1>1 DEF ChannelInv
  <2>2. Below(c, p, reads[p] + 1) /\ (pc[p] = "publish" => Below(c, p, reads[p]))
    BY <1>0 DEF ChannelInv
  <2>3. seen'[c][p] < reads'[p] + 1 /\ AllBelow(chan'[c], p, reads'[p] + 1)
    BY <1>1, <1>2, <2>2
  <2>4. ASSUME pc'[p] = "publish" PROVE seen'[c][p] < reads'[p] /\ AllBelow(chan'[c], p, reads'[p])
    <3>1. CASE pc[p] = "publish"
      BY <1>1, <1>2, <2>2, <3>1
    <3>2. CASE reads'[p] > reads[p]
      <4>1. reads[p] + 1 \in Nat /\ reads[p] + 1 <= reads'[p]
        BY <1>1, <3>2
      <4> QED BY <1>1, <1>2, <2>2, <4>1
    <3> QED BY <2>4, <3>1, <3>2 DEF NothingNew
  <2> QED BY <2>1, <2>3, <2>4
<1>4. SendsInv(p)'
  <2>1. CASE NoEvents(out'[p])
    BY <2>1 DEF SendsInv, NoEvents
  <2>2. CASE out'[p] = out[p] /\ reads'[p] = reads[p]
    BY <1>0, <1>1, <2>2 DEF SendsInv, Below
  <2> QED BY <2>1, <2>2 DEF NothingNew
<1> QED BY <1>3, <1>4

\* Only events are of type Event.
LEMMA OtherMessages ==
  ASSUME NEW x, NEW y
  PROVE  /\ CallMsg(x).type # "Event" /\ ResultMsg(x).type # "Event" /\ ErrorMsg(x, y).type # "Event"
         /\ RegisteredMsg(x).type # "Event" /\ SubscribedMsg(x).type # "Event"
         /\ HasObjectMsg(x, y).type # "Event"
  BY DEF CallMsg, ResultMsg, ErrorMsg, RegisteredMsg, SubscribedMsg, HasObjectMsg

\* A single send of such a message.
LEMMA OneSend ==
  ASSUME NEW d, NEW m, m.type # "Event"
  PROVE  NoEvents(<<To(d, m)>>)
  BY DEF NoEvents, To

\* The calls that RegisterObject releases, and the Registered behind them.
LEMMA RegisterSends ==
  ASSUME TypeInv, NEW c \in Conn, RegisterObjectServices(c)
  PROVE  \E sends : SendAll(c, sends) /\ NoEvents(sends)
<1> DEFINE o == local[c].object
           sends(q) == [i \in DOMAIN q |-> To(c, CallMsg(q[i]))] \o <<To(c, RegisteredMsg(o))>>
<1>1. o \in Object /\ services[o].pending \in SUBSET CallId
  BY DEF RegisterObjectServices, TypeInv, TypeOK, ReaderInv, ServiceEntry
<1>2. PICK q \in Orderings(services[o].pending) : SendAll(c, sends(q))
  BY DEF RegisterObjectServices
<1>3. IsFiniteSet(services[o].pending)
  BY <1>1, FS_Subset, ConstantAssumption DEF ConstantAssumption
<1>4. DOMAIN q = 1 .. Cardinality(services[o].pending) /\ Cardinality(services[o].pending) \in Nat
  BY <1>2, <1>3, OrderingsType
<1>5. PICK n \in Nat : DOMAIN q = 1 .. n
  BY <1>4
<1> DEFINE f == [i \in DOMAIN q |-> To(c, CallMsg(q[i]))]
           r == To(c, RegisteredMsg(o))
<1>6. f \in Seq({To(c, CallMsg(q[i])) : i \in DOMAIN q}) /\ Len(f) = n
  BY <1>5
<1>7. \A i \in 1 .. n : f[i].msg.type # "Event"
  BY <1>5, OtherMessages DEF To
<1>8. r.msg.type # "Event"
  BY OtherMessages DEF To
<1>9. sends(q) = f \o <<r>>
  OBVIOUS
<1> HIDE DEF f, r, sends
<1>10. NoEvents(f \o <<r>>)
  <2>1. DOMAIN (f \o <<r>>) = 1 .. n + 1
    BY <1>6
  <2>2. \A i \in 1 .. n : (f \o <<r>>)[i] = f[i]
    BY <1>6
  <2>3. (f \o <<r>>)[n + 1] = r
    BY <1>6
  <2> QED BY <1>7, <1>8, <2>1, <2>2, <2>3 DEF NoEvents
<1> QED BY <1>2, <1>9, <1>10

\* Every step but a publication's sends, a send, a write and the end of a
\* connection leaves the channels alone.
LEMMA QuietSteps ==
  ASSUME TypeInv, HandlerInv, [Next]_vars
  PROVE  \/ NothingNew
         \/ \E c \in Conn : PublishSenders(c) \/ SendNext(c) \/ WriterWrite(c) \/ WriterFail(c)
                            \/ CleanupServices(c)
<1> USE DEF maps, task, conn, world, hist
<1>0. /\ pc \in [Conn -> ReaderPc] /\ out \in [Conn -> Seq(Send)] /\ reads \in [Conn -> Nat]
  BY EventTypes
<1>1. ASSUME UNCHANGED <<chan, seen, reads, out>>, \A p \in Conn : pc'[p] \in {pc[p], "idle"}
      PROVE  NothingNew
  BY <1>0, <1>1 DEF NothingNew
<1>2. ASSUME NEW c \in Conn, NEW label, NEW l, Continue(c, label, l), UNCHANGED <<chan, seen>>,
             pc[c] # "send",
             \/ reads' = reads /\ label # "publish"
             \/ reads' = [reads EXCEPT ![c] = @ + 1]
      PROVE  NothingNew
  <2>1. out' = out /\ pc' = [pc EXCEPT ![c] = label] /\ out[c] = <<>>
    BY <1>2 DEF Continue, HandlerInv
  <2>2. NoEvents(out[c])
    BY <2>1 DEF NoEvents
  <2>3. ASSUME NEW p \in Conn
        PROVE  /\ reads'[p] >= reads[p]
               /\ NoEvents(out'[p]) \/ (out'[p] = out[p] /\ reads'[p] = reads[p])
               /\ pc'[p] = "publish" => pc[p] = "publish" \/ reads'[p] > reads[p]
    <3>1. CASE p = c
      BY <1>0, <1>2, <2>1, <2>2, <3>1
    <3>2. CASE p # c
      BY <1>0, <1>2, <2>1, <3>2
    <3> QED BY <3>1, <3>2
  <2> QED BY <1>2, <2>3 DEF NothingNew
<1>3. ASSUME NEW c \in Conn, Return(c), UNCHANGED <<chan, seen>>, pc[c] # "send",
             reads' = reads \/ reads' = [reads EXCEPT ![c] = @ + 1]
      PROVE  NothingNew
  BY <1>2, <1>3 DEF Return
<1>4. ASSUME NEW c \in Conn, NEW sends, SendAll(c, sends), NoEvents(sends), UNCHANGED <<chan, seen>>,
             reads' = reads \/ reads' = [reads EXCEPT ![c] = @ + 1]
      PROVE  NothingNew
  <2>1. out' = [out EXCEPT ![c] = sends] /\ pc' = [pc EXCEPT ![c] = "send"]
    BY <1>4 DEF SendAll
  <2>2. ASSUME NEW p \in Conn
        PROVE  /\ reads'[p] >= reads[p]
               /\ NoEvents(out'[p]) \/ (out'[p] = out[p] /\ reads'[p] = reads[p])
               /\ pc'[p] = "publish" => pc[p] = "publish" \/ reads'[p] > reads[p]
    <3>1. CASE p = c
      BY <1>0, <1>4, <2>1, <3>1
    <3>2. CASE p # c
      BY <1>0, <1>4, <2>1, <3>2
    <3> QED BY <3>1, <3>2
  <2> QED BY <1>4, <2>2 DEF NothingNew
<1>5. ASSUME NEW c \in Conn, SpawnClient(c) PROVE NothingNew
  BY <1>0, <1>1, <1>5 DEF SpawnClient
<1>6. ASSUME NEW c \in Conn, \/ PeerClose(c) \/ WriterShutdown(c) \/ CleanupClients(c)
                             \/ CleanupObjects(c) \/ CleanupSubscriptions(c)
                             \/ CleanupCalls(c) \/ CleanupActiveCalls(c)
      PROVE  NothingNew
  BY <1>1, <1>6 DEF PeerClose, WriterShutdown, CleanupClients, CleanupObjects,
     CleanupSubscriptions, CleanupCalls, CleanupActiveCalls
<1>7. UNCHANGED vars \/ (\E o \in Object : SpawnService(o)) => NothingNew
  BY <1>1 DEF vars, SpawnService
<1>8. ASSUME NEW c \in Conn, NEW o \in Object, RegisterObject(c, o) \/ RegisterService(c, o)
      PROVE  NothingNew
  BY <1>2, <1>8 DEF RegisterObject, RegisterService, Read
<1>9. ASSUME NEW c \in Conn, NEW o \in Object, HasObject(c, o) PROVE NothingNew
  BY <1>4, <1>9, OneSend, OtherMessages DEF HasObject, Read
<1>10. ASSUME NEW c \in Conn, NEW o \in Object, NEW id \in CallId, Call(c, id, o) PROVE NothingNew
  BY <1>2, <1>3, <1>10 DEF Call, Read
<1>11. ASSUME NEW c \in Conn, NEW t \in Topic, Subscribe(c, t) PROVE NothingNew
  BY <1>4, <1>11, OneSend, OtherMessages DEF Subscribe, Read
<1>12. ASSUME NEW c \in Conn, NEW t \in Topic, Publish(c, t) PROVE NothingNew
  BY <1>2, <1>3, <1>12 DEF Publish, Read
<1>13. ASSUME NEW c \in Conn, \/ RegisterServiceEntry(c) \/ CallAutoStart(c)
                              \/ CallQueue(c) \/ CallRunning(c)
       PROVE  NothingNew
  BY <1>3, <1>13 DEF RegisterServiceEntry, CallAutoStart, CallQueue, CallRunning
<1>14. ASSUME NEW c \in Conn, CallInsert(c) PROVE NothingNew
  BY <1>2, <1>4, <1>14, OneSend, OtherMessages DEF CallInsert
<1>15. ASSUME NEW c \in Conn, CallUnknown(c) PROVE NothingNew
  BY <1>4, <1>15, OneSend, OtherMessages DEF CallUnknown
<1>16. ASSUME NEW c \in Conn, RegisterObjectServices(c) PROVE NothingNew
  <2>1. UNCHANGED <<chan, seen, reads>>
    BY <1>16 DEF RegisterObjectServices
  <2> QED BY <1>4, <1>16, <2>1, RegisterSends
<1>17. ASSUME NEW c \in Conn, NEW id \in CallId, Response(c, id) PROVE NothingNew
  BY <1>3, <1>4, <1>17, OneSend, OtherMessages DEF Response
<1>18. ASSUME NEW c \in Conn, ReadError(c) PROVE NothingNew
  BY <1>2, <1>18 DEF ReadError, Read
<1> QED
  BY <1>5, <1>6, <1>7, <1>8, <1>9, <1>10, <1>11, <1>12, <1>13, <1>14, <1>15, <1>16, <1>17, <1>18
     DEF Next, Request, Handler, Writer, Cleanup

-----------------------------------------------------------------------------
(* The steps of an event.                                                  *)

\* handle_publish addresses one event to each subscriber that is still there,
\* above all that this publisher has sent.
LEMMA PublishNext ==
  ASSUME TypeInv, TypeInv', HandlerInv, EventInv, NEW c \in Conn, PublishSenders(c)
  PROVE  EventInv'
<1> USE DEF maps, task, conn, world, hist
<1> DEFINE present == local[c].subs \cap clients
<1>0. /\ pc[c] = "publish" /\ UNCHANGED <<chan, seen, reads>>
      /\ pc \in [Conn -> ReaderPc] /\ out \in [Conn -> Seq(Send)] /\ reads \in [Conn -> Nat]
  BY EventTypes DEF PublishSenders
<1>1. CASE Return(c)
  <2>1. out' = out /\ pc' = [pc EXCEPT ![c] = "idle"]
    BY <1>1 DEF Return, Continue
  <2>2. NothingNew
    BY <1>0, <2>1 DEF NothingNew
  <2> QED BY <2>2, NothingNewNext
<1>2. CASE ~Return(c)
  <2>1. PICK t : t = local[c].topic
    OBVIOUS
  <2>2. PICK n : n = reads[c]
    OBVIOUS
  <2>3. PICK q \in Orderings(present) :
          SendAll(c, [i \in DOMAIN q |-> To(q[i], EventMsg(t, c, n))])
    BY <1>2, <2>1, <2>2 DEF PublishSenders
  <2>4. present \subseteq Conn /\ IsFiniteSet(present)
    <3>1. clients \subseteq Conn
      BY DEF TypeInv, TypeOK
    <3>2. IsFiniteSet(Conn)
      BY ConstantAssumption DEF ConstantAssumption
    <3>3. present \subseteq Conn
      BY <3>1
    <3> HIDE DEF present
    <3> QED BY <3>2, <3>3, FS_Subset
  <2> HIDE DEF present
  <2>5. /\ \A i \in DOMAIN q : q[i] \in Conn
        /\ \A i, j \in DOMAIN q : q[i] = q[j] => i = j
    BY <2>3, <2>4, OrderingsType, OrderingsOnce
  <2>6. /\ out'[c] = [i \in DOMAIN q |-> To(q[i], EventMsg(t, c, n))]
        /\ pc'[c] = "send"
        /\ \A p \in Conn : p # c => out'[p] = out[p] /\ pc'[p] = pc[p]
    BY <1>0, <2>3 DEF SendAll
  <2>7. \A i \in DOMAIN q : /\ out'[c][i].to = q[i] /\ out'[c][i].msg.from = c
                            /\ out'[c][i].msg.seq = n
    BY <2>6 DEF To, EventMsg
  <2>8. ASSUME NEW d \in Conn PROVE Below(d, c, n)
    BY <1>0, <2>2, <2>8 DEF EventInv, ChannelInv
  <2>9. SendsInv(c)'
    <3>1. DOMAIN out'[c] = DOMAIN q
      BY <2>6
    <3>2. \A d \in Conn : seen'[d][c] < reads'[c] /\ AllBelow(chan'[d], c, reads'[c])
      BY <1>0, <2>2, <2>8 DEF Below
    <3> QED BY <1>0, <2>2, <2>5, <2>7, <3>1, <3>2 DEF SendsInv, Below
  <2>10. ASSUME NEW p \in Conn, p # c PROVE SendsInv(p)'
    BY <1>0, <2>6, <2>10 DEF EventInv, SendsInv, Below
  <2>11. ASSUME NEW p \in Conn PROVE ChannelInv(p)'
    <3>1. pc'[p] = "publish" => pc[p] = "publish"
      BY <2>6
    <3> QED BY <1>0, <3>1 DEF EventInv, ChannelInv, Below
  <2> QED BY <2>9, <2>10, <2>11 DEF EventInv
<1> QED BY <1>1, <1>2

\* A send: an event goes behind the earlier ones of its publisher, and no other
\* send of this event goes to the same channel.
LEMMA SendEventNext ==
  ASSUME TypeInv, TypeInv', HandlerInv, EventInv, NEW c \in Conn, SendNext(c)
  PROVE  EventInv'
<1> USE DEF maps, task, conn, world, hist
<1>0. /\ pc \in [Conn -> ReaderPc] /\ out \in [Conn -> Seq(Send)] /\ reads \in [Conn -> Nat]
      /\ chan \in [Conn -> Seq(Message)] /\ seen \in [Conn -> [Conn -> Nat]]
  BY EventTypes
<1>1. /\ pc[c] = "send" /\ out[c] # <<>> /\ out[c] \in Seq(Send)
      /\ UNCHANGED <<seen, reads>>
      /\ \A p \in Conn : p # c => out'[p] = out[p] /\ pc'[p] = pc[p]
      /\ out'[c] = Tail(out[c]) /\ pc'[c] # "publish"
  BY <1>0 DEF SendNext, TypeInv, ReaderInv
<1>2. PICK d \in Conn, m \in Message : d = Head(out[c]).to /\ m = Head(out[c]).msg
  <2>1. Head(out[c]) \in Send
    BY <1>1
  <2> QED BY <2>1, SendTypes
<1>3. chan' = chan \/ chan' = [chan EXCEPT ![d] = Append(@, m)]
  BY <1>2 DEF SendNext
<1>4. /\ Head(out[c]) = out[c][1] /\ 1 \in DOMAIN out[c]
      /\ \A i \in DOMAIN out'[c] : /\ i \in Nat /\ i # 0 /\ i + 1 \in DOMAIN out[c]
                                   /\ out'[c][i] = out[c][i + 1]
  BY <1>1, TailElements
<1>5. m.type = "Event" => /\ m.from = c /\ m.seq = reads[c] /\ Below(d, c, reads[c])
                          /\ \A j \in DOMAIN out[c] : j # 1 => out[c][j].to # d
  BY <1>2, <1>4 DEF EventInv, SendsInv
\* What the step leaves alone for a publisher p and a connection e.
<1>6. ASSUME NEW e \in Conn, NEW p \in Conn, e # d \/ m.type # "Event" \/ p # c, NEW n
      PROVE  /\ InOrder(chan[e], p, n) => InOrder(chan'[e], p, n)
             /\ AllBelow(chan[e], p, n) => AllBelow(chan'[e], p, n)
  <2>1. CASE chan'[e] = chan[e]
    BY <2>1
  <2>2. CASE chan'[e] # chan[e]
    <3>1. e = d /\ chan'[e] = Append(chan[e], m) /\ chan[e] \in Seq(Message)
      BY <1>0, <1>3, <2>2
    <3>2. ~IsEvent(m, p)
      BY <1>5, <1>6, <3>1 DEF IsEvent
    <3> QED BY <3>1, <3>2, AppendOther
  <2> QED BY <2>1, <2>2
<1>7. ASSUME NEW p \in Conn PROVE ChannelInv(p)'
  <2> SUFFICES ASSUME NEW e \in Conn
               PROVE  /\ InOrder(chan'[e], p, seen[e][p])
                      /\ seen[e][p] < reads[p] + 1 /\ AllBelow(chan'[e], p, reads[p] + 1)
                      /\ pc'[p] = "publish" => seen[e][p] < reads[p] /\ AllBelow(chan'[e], p, reads[p])
    BY <1>1 DEF ChannelInv, Below
  <2>1. /\ InOrder(chan[e], p, seen[e][p])
        /\ seen[e][p] < reads[p] + 1 /\ AllBelow(chan[e], p, reads[p] + 1)
        /\ pc[p] = "publish" => seen[e][p] < reads[p] /\ AllBelow(chan[e], p, reads[p])
        /\ pc'[p] = "publish" => pc[p] = "publish"
    BY <1>1 DEF EventInv, ChannelInv, Below
  <2>2. CASE e # d \/ m.type # "Event" \/ p # c
    BY <1>6, <2>1, <2>2
  <2>3. CASE e = d /\ m.type = "Event" /\ p = c
    <3>1. CASE chan' = chan
      BY <2>1, <3>1
    <3>2. CASE chan' # chan
      <4>1. chan'[e] = Append(chan[e], m) /\ chan[e] \in Seq(Message) /\ seen[e][p] \in Nat
        BY <1>0, <1>3, <2>3, <3>2
      <4>2. IsEvent(m, p) /\ m.seq = reads[p] /\ seen[e][p] < m.seq /\ AllBelow(chan[e], p, m.seq)
        BY <1>5, <2>3 DEF IsEvent, Below
      <4>3. InOrder(chan'[e], p, seen[e][p]) /\ AllBelow(chan'[e], p, m.seq + 1)
        BY <2>1, <4>1, <4>2, AppendEvent
      <4> QED BY <1>1, <2>1, <2>3, <4>2, <4>3
    <3> QED BY <3>1, <3>2
  <2> QED BY <2>2, <2>3
<1>8. ASSUME NEW p \in Conn PROVE SendsInv(p)'
  <2>1. CASE p = c
    <3>0. seen' = seen /\ reads' = reads
      BY <1>1
    <3> SUFFICES ASSUME NEW i \in DOMAIN out'[c], out'[c][i].msg.type = "Event"
                 PROVE  /\ out'[c][i].msg.from = c /\ out'[c][i].msg.seq = reads[c]
                        /\ seen[out'[c][i].to][c] < reads[c]
                        /\ AllBelow(chan'[out'[c][i].to], c, reads[c])
                        /\ \A j \in DOMAIN out'[c] : j # i => out'[c][j].to # out'[c][i].to
      BY <2>1, <3>0 DEF SendsInv, Below
    <3>1. /\ i \in Nat /\ i # 0 /\ i + 1 \in DOMAIN out[c] /\ out'[c][i] = out[c][i + 1]
      BY <1>4
    <3>2. PICK e \in Conn : e = out[c][i + 1].to
      <4>1. out[c][i + 1] \in Send
        BY <1>1, <3>1
      <4> QED BY <4>1, SendTypes
    <3>3. /\ out[c][i + 1].msg.from = c /\ out[c][i + 1].msg.seq = reads[c]
          /\ Below(e, c, reads[c])
          /\ \A j \in DOMAIN out[c] : j # i + 1 => out[c][j].to # e
      BY <3>1, <3>2 DEF EventInv, SendsInv
    <3>4. e # d
      <4>1. 1 # i + 1
        BY <3>1
      <4> QED BY <1>2, <1>4, <3>3, <4>1
    <3>5. AllBelow(chan'[e], c, reads[c])
      BY <1>6, <3>3, <3>4 DEF Below
    <3>6. \A j \in DOMAIN out'[c] : j # i => out'[c][j].to # e
      BY <1>4, <3>1, <3>3
    <3> QED BY <3>1, <3>2, <3>3, <3>5, <3>6 DEF Below
  <2>2. CASE p # c
    <3> SUFFICES ASSUME NEW i \in DOMAIN out[p], out[p][i].msg.type = "Event"
                 PROVE  /\ out[p][i].msg.from = p /\ out[p][i].msg.seq = reads[p]
                        /\ seen[out[p][i].to][p] < reads[p]
                        /\ AllBelow(chan'[out[p][i].to], p, reads[p])
                        /\ \A j \in DOMAIN out[p] : j # i => out[p][j].to # out[p][i].to
      BY <1>1, <2>2 DEF SendsInv, Below
    <3>1. PICK e \in Conn : e = out[p][i].to
      <4>1. out[p] \in Seq(Send)
        BY <1>0
      <4>2. out[p][i] \in Send
        BY <4>1
      <4> QED BY <4>2, SendTypes
    <3>2. /\ out[p][i].msg.from = p /\ out[p][i].msg.seq = reads[p] /\ Below(e, p, reads[p])
          /\ \A j \in DOMAIN out[p] : j # i => out[p][j].to # e
      BY <3>1 DEF EventInv, SendsInv
    <3>3. AllBelow(chan'[e], p, reads[p])
      BY <1>6, <2>2, <3>2 DEF Below
    <3> QED BY <3>1, <3>2, <3>3 DEF Below
  <2> QED BY <2>1, <2>2
<1> QED BY <1>7, <1>8 DEF EventInv

\* Messages leave a channel from its head, or all at once, and only a write of
\* an event changes what was seen.
LEMMA Shorter ==
  ASSUME TypeInv, TypeInv', EventInv, NEW c \in Conn, UNCHANGED <<pc, out, reads>>,
         \/ chan[c] # <<>> /\ chan' = [chan EXCEPT ![c] = Tail(@)]
         \/ chan' = [chan EXCEPT ![c] = <<>>],
         \/ seen' = seen
         \/ /\ chan[c] # <<>> /\ Head(chan[c]).type = "Event"
            /\ chan' = [chan EXCEPT ![c] = Tail(@)]
            /\ seen' = [seen EXCEPT ![c][Head(chan[c]).from] = Head(chan[c]).seq]
  PROVE  EventInv'
<1>0. /\ chan \in [Conn -> Seq(Message)] /\ seen \in [Conn -> [Conn -> Nat]]
      /\ out \in [Conn -> Seq(Send)] /\ reads \in [Conn -> Nat]
  BY EventTypes
<1>a. ASSUME NEW e \in Conn, NEW p \in Conn, seen'[e][p] # seen[e][p]
      PROVE  /\ e = c /\ chan[c] # <<>> /\ IsEvent(Head(chan[c]), p)
             /\ seen'[e][p] = Head(chan[c]).seq /\ chan'[e] = Tail(chan[c])
  <2>1. /\ chan[c] # <<>> /\ Head(chan[c]).type = "Event"
        /\ chan' = [chan EXCEPT ![c] = Tail(@)]
        /\ seen' = [seen EXCEPT ![c][Head(chan[c]).from] = Head(chan[c]).seq]
    BY <1>a
  <2>2. PICK x, v : x = Head(chan[c]).from /\ v = Head(chan[c]).seq
    OBVIOUS
  <2>3. seen' = [seen EXCEPT ![c] = [seen[c] EXCEPT ![x] = v]]
    BY <1>0, <2>1, <2>2
  <2>4. e = c /\ seen'[e] = [seen[c] EXCEPT ![x] = v] /\ seen[c] \in [Conn -> Nat]
    BY <1>0, <1>a, <2>3
  <2>5. x = p /\ seen'[e][p] = v
    BY <1>a, <2>4
  <2> QED BY <1>0, <2>1, <2>2, <2>4, <2>5 DEF IsEvent
<1>1. ASSUME NEW e \in Conn, NEW p \in Conn, NEW n \in Nat, Below(e, p, n)
      PROVE  seen'[e][p] < n /\ AllBelow(chan'[e], p, n)
  <2>1. AllBelow(chan'[e], p, n)
    <3>1. CASE chan'[e] = chan[e]
      BY <1>1, <3>1 DEF Below
    <3>2. CASE chan'[e] = <<>>
      BY <3>2 DEF AllBelow
    <3>3. CASE chan[e] # <<>> /\ chan'[e] = Tail(chan[e])
      <4>1. chan[e] \in Seq(Message) /\ AllBelow(chan[e], p, n)
        BY <1>0, <1>1 DEF Below
      <4> QED BY <3>3, <4>1, TailInOrder
    <3> QED BY <1>0, <3>1, <3>2, <3>3
  <2>2. seen'[e][p] < n
    <3>1. CASE seen'[e][p] = seen[e][p]
      BY <1>1, <3>1 DEF Below
    <3>2. CASE seen'[e][p] # seen[e][p]
      <4>1. e = c /\ chan[c] # <<>> /\ IsEvent(Head(chan[c]), p) /\ seen'[e][p] = Head(chan[c]).seq
        BY <1>a, <3>2
      <4>2. Head(chan[c]) = chan[c][1] /\ 1 \in DOMAIN chan[c]
        BY <1>0, <4>1, TailElements
      <4> QED BY <1>1, <4>1, <4>2 DEF Below, AllBelow
    <3> QED BY <3>1, <3>2
  <2> QED BY <2>1, <2>2
<1>2. ASSUME NEW e \in Conn, NEW p \in Conn
      PROVE  InOrder(chan'[e], p, seen'[e][p])
  <2>1. InOrder(chan[e], p, seen[e][p])
    BY DEF EventInv, ChannelInv
  <2>2. CASE chan'[e] = <<>>
    BY <2>2 DEF InOrder
  <2>3. CASE seen'[e][p] = seen[e][p]
    <3>1. CASE chan'[e] = chan[e]
      BY <2>1, <2>3, <3>1
    <3>2. CASE chan[e] # <<>> /\ chan'[e] = Tail(chan[e])
      BY <1>0, <2>1, <2>3, <3>2, TailInOrder
    <3> QED BY <1>0, <2>2, <3>1, <3>2
  <2>4. CASE seen'[e][p] # seen[e][p]
    <3>1. /\ e = c /\ chan[c] # <<>> /\ IsEvent(Head(chan[c]), p)
          /\ seen'[e][p] = Head(chan[c]).seq /\ chan'[e] = Tail(chan[c])
      BY <1>a, <2>4
    <3> QED BY <1>0, <2>1, <3>1, TailAboveHead
  <2> QED BY <2>2, <2>3, <2>4
<1>3. ASSUME NEW p \in Conn PROVE ChannelInv(p)'
  <2>1. ASSUME NEW e \in Conn
        PROVE  Below(e, p, reads[p] + 1) /\ (pc[p] = "publish" => Below(e, p, reads[p]))
    BY DEF EventInv, ChannelInv
  <2>2. reads[p] + 1 \in Nat /\ reads[p] \in Nat
    BY <1>0
  <2> QED BY <1>1, <1>2, <2>1, <2>2 DEF ChannelInv, Below
<1>4. ASSUME NEW p \in Conn PROVE SendsInv(p)'
  <2> SUFFICES ASSUME NEW i \in DOMAIN out[p], out[p][i].msg.type = "Event"
               PROVE  /\ out[p][i].msg.from = p /\ out[p][i].msg.seq = reads[p]
                      /\ seen'[out[p][i].to][p] < reads[p]
                      /\ AllBelow(chan'[out[p][i].to], p, reads[p])
                      /\ \A j \in DOMAIN out[p] : j # i => out[p][j].to # out[p][i].to
    BY DEF SendsInv, Below
  <2>1. PICK e \in Conn : e = out[p][i].to
    <3>1. out[p] \in Seq(Send)
      BY <1>0
    <3>2. out[p][i] \in Send
      BY <3>1
    <3> QED BY <3>2, SendTypes
  <2>2. /\ out[p][i].msg.from = p /\ out[p][i].msg.seq = reads[p] /\ Below(e, p, reads[p])
        /\ \A j \in DOMAIN out[p] : j # i => out[p][j].to # e
    BY <2>1 DEF EventInv, SendsInv
  <2>3. reads[p] \in Nat
    BY <1>0
  <2> QED BY <1>1, <2>1, <2>2, <2>3
<1> QED BY <1>3, <1>4 DEF EventInv

\* Every step keeps the events in order.
LEMMA EventInvNext ==
  ASSUME TypeInv, TypeInv', HandlerInv, EventInv, [Next]_vars
  PROVE  EventInv'
<1> USE DEF maps, task, conn, world, hist
<1>1. ASSUME NEW c \in Conn, WriterFail(c) PROVE EventInv'
  BY <1>1, Shorter DEF WriterFail
<1>2. ASSUME NEW c \in Conn, CleanupServices(c) PROVE EventInv'
  BY <1>2, Shorter DEF CleanupServices
<1>3. ASSUME NEW c \in Conn, WriterWrite(c) PROVE EventInv'
  <2>1. /\ UNCHANGED <<pc, out, reads>> /\ chan[c] # <<>>
        /\ chan' = [chan EXCEPT ![c] = Tail(@)]
        /\ seen' = IF Head(chan[c]).type = "Event"
                   THEN [seen EXCEPT ![c][Head(chan[c]).from] = Head(chan[c]).seq] ELSE seen
    BY <1>3 DEF WriterWrite
  <2> QED BY <2>1, Shorter
<1> QED
  BY <1>1, <1>2, <1>3, QuietSteps, NothingNewNext, PublishNext, SendEventNext

\* The events of a publisher reach a subscriber in the order of publication,
\* each once: the channel is in order and above what was already written.
THEOREM EventOrdering == Spec => []EventsInOrder
<1>1. Init => EventInv
  <2> SUFFICES ASSUME Init, NEW p \in Conn PROVE ChannelInv(p) /\ SendsInv(p)
    BY DEF EventInv
  <2>1. \A c \in Conn : chan[c] = <<>> /\ seen[c][p] = 0 /\ reads[p] = 0 /\ pc[p] = "none"
    BY DEF Init
  <2>2. out[p] = <<>>
    BY DEF Init
  <2>3. SendsInv(p)
    BY <2>2 DEF SendsInv
  <2>4. ChannelInv(p)
    BY <2>1 DEF ChannelInv, Below, InOrder, AllBelow
  <2> QED BY <2>3, <2>4
<1>2. Inv /\ EventInv /\ [Next]_vars => EventInv'
  BY TypeNext, EventInvNext DEF Inv, CallInv
<1>3. EventInv => EventsInOrder
  BY DEF EventInv, ChannelInv, EventsInOrder, InOrder, IsEvent
<1> QED
  BY <1>1, <1>2, <1>3, CallInvariant, PTL DEF Spec
=============================================================================
