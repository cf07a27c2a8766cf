---------------------------- MODULE BrokerProofs ----------------------------
(***************************************************************************)
(* Proofs about the broker for any number of connections, objects, topics, *)
(* calls and packets, and any channel capacity.                            *)
(***************************************************************************)
EXTENDS BrokerProperties, FiniteSetTheorems, TLAPS

-----------------------------------------------------------------------------
(* Lemmas on the operators of the model.                                   *)

\* The constructors build messages.
LEMMA MessageTypes ==
  /\ \A id \in CallId : CallMsg(id) \in Message /\ ResultMsg(id) \in Message
  /\ \A id \in CallId, o \in Object : ErrorMsg(id, o) \in Message
  /\ \A o \in Object : RegisteredMsg(o) \in Message
  /\ \A t \in Topic : SubscribedMsg(t) \in Message
  /\ \A o \in Object, b \in BOOLEAN : HasObjectMsg(o, b) \in Message
  /\ \A t \in Topic, c \in Conn, n \in Nat : EventMsg(t, c, n) \in Message
  BY DEF Message, CallMsg, ResultMsg, ErrorMsg, RegisteredMsg, SubscribedMsg,
         HasObjectMsg, EventMsg

\* What the writer loop reads of a message it writes has the right type.
LEMMA MessageFields ==
  ASSUME NEW m \in Message
  PROVE  /\ m.type \in {"Call", "Result", "Error"} => m.call \in CallId
         /\ m.type = "Event" => m.from \in Conn /\ m.seq \in Nat
  BY DEF Message

\* A send is a connection and a message: what To puts together and what SendNext
\* takes apart.
LEMMA SendTypes ==
  /\ \A c \in Conn, m \in Message : To(c, m) \in Send
  /\ \A s \in Send : s.to \in Conn /\ s.msg \in Message
  BY DEF Send, To

\* An ordering of a finite set is a sequence over the set, and not empty when
\* the set is not.
LEMMA OrderingsType ==
  ASSUME NEW S, IsFiniteSet(S), NEW q \in Orderings(S)
  PROVE  /\ q \in Seq(S)
         /\ Cardinality(S) \in Nat
         /\ DOMAIN q = 1..Cardinality(S)
         /\ \A i \in DOMAIN q : q[i] \in S
         /\ S # {} => q # <<>>
  <1>1. Cardinality(S) \in Nat
    BY FS_CardinalityType
  <1>2. q \in [1..Cardinality(S) -> S] /\ \A d \in S : \E i \in DOMAIN q : q[i] = d
    BY DEF Orderings
  <1>3. q \in Seq(S)
    BY <1>1, <1>2
  <1>4. S # {} => q # <<>>
    <2> SUFFICES ASSUME NEW d \in S PROVE q # <<>>
      OBVIOUS
    <2>1. PICK i \in DOMAIN q : q[i] = d
      BY <1>2
    <2>2. DOMAIN << >> = {}
      OBVIOUS
    <2> QED BY <2>1, <2>2
  <1> QED BY <1>1, <1>2, <1>3, <1>4

-----------------------------------------------------------------------------
(* Type correctness.                                                       *)

\* What the program counter of a reader says about its local variables.
ReaderInv ==
  \A c \in Conn :
    /\ pc[c] = "send" => out[c] # <<>>
    /\ pc[c] \in {"register_object", "register_service"} => local[c].object \in Object
    /\ pc[c] \in {"call_insert", "call_service"} =>
         local[c].call \in CallId /\ local[c].object \in Object
    /\ pc[c] = "publish" => local[c].topic \in Topic

TypeInv == TypeOK /\ ReaderInv

\* The broker starts with empty maps and channels of the right type.
LEMMA TypeInit == Init => TypeInv
  BY ConstantAssumption DEF ConstantAssumption, Init, TypeInv, TypeOK, ReaderInv,
     Entry, ServiceEntry, NoLocal, Local, ActorPc, ReaderPc

\* The next program counter, locals and sends of a reader are well typed.
LEMMA ContinueType ==
  ASSUME TypeInv, NEW c \in Conn, NEW label, NEW l \in Local, Continue(c, label, l),
         label \in ReaderPc \ {"send"},
         label \in {"register_object", "register_service"} => l.object \in Object,
         label \in {"call_insert", "call_service"} => l.call \in CallId /\ l.object \in Object,
         label = "publish" => l.topic \in Topic
  PROVE  /\ pc' \in [Conn -> ReaderPc] /\ local' \in [Conn -> Local]
         /\ out' \in [Conn -> Seq(Send)] /\ ReaderInv'
  BY DEF TypeInv, TypeOK, ReaderInv, Continue

\* The locals of a reader that is between two packets are typed.
LEMMA NoLocalType == NoLocal \in Local
  BY DEF NoLocal, Local

\* A handler that returns leaves a typed reader loop behind.
LEMMA ReturnType ==
  ASSUME TypeInv, NEW c \in Conn, Return(c)
  PROVE  /\ pc' \in [Conn -> ReaderPc] /\ local' \in [Conn -> Local]
         /\ out' \in [Conn -> Seq(Send)] /\ ReaderInv'
  BY ContinueType, NoLocalType DEF Return, ReaderPc

\* So does a handler that has sends left to do.
LEMMA SendAllType ==
  ASSUME TypeInv, NEW c \in Conn, NEW sends \in Seq(Send), sends # <<>>, SendAll(c, sends)
  PROVE  /\ pc' \in [Conn -> ReaderPc] /\ local' \in [Conn -> Local]
         /\ out' \in [Conn -> Seq(Send)] /\ ReaderInv'
  BY NoLocalType DEF TypeInv, TypeOK, ReaderInv, SendAll, ReaderPc

\* Reading a packet keeps the count of a connection's packets a number.
LEMMA ReadType ==
  ASSUME TypeInv, NEW c \in Conn, NEW kind, Read(c, kind)
  PROVE  reads' \in [Conn -> Nat]
  BY DEF TypeInv, TypeOK, Read

\* Every action keeps the types.
LEMMA TypeNext == TypeInv /\ [Next]_vars => TypeInv'
  <1> SUFFICES ASSUME TypeInv, [Next]_vars PROVE TypeInv'
    OBVIOUS
  <1> USE DEF maps, task, conn, world, hist
  <1>1. ASSUME NEW c \in Conn, SpawnClient(c) PROVE TypeInv'
    BY <1>1 DEF TypeInv, TypeOK, ReaderInv, SpawnClient, ActorPc, ReaderPc
  <1>2. ASSUME NEW c \in Conn, PeerClose(c) PROVE TypeInv'
    BY <1>2 DEF TypeInv, TypeOK, ReaderInv, PeerClose
  <1>3. ASSUME NEW c \in Conn, NEW o \in Object, RegisterObject(c, o) PROVE TypeInv'
    <2>1. [NoLocal EXCEPT !.object = o] \in Local /\ [NoLocal EXCEPT !.object = o].object = o
      BY DEF NoLocal, Local
    <2>2. /\ pc' \in [Conn -> ReaderPc] /\ local' \in [Conn -> Local]
          /\ out' \in [Conn -> Seq(Send)] /\ ReaderInv'
      BY <1>3, <2>1, ContinueType DEF RegisterObject, ReaderPc
    <2> QED BY <1>3, <2>2, ReadType DEF TypeInv, TypeOK, RegisterObject
  <1>4. ASSUME NEW c \in Conn, RegisterObjectServices(c) PROVE TypeInv'
    <2> DEFINE o == local[c].object
               sends(q) == [i \in DOMAIN q |-> To(c, CallMsg(q[i]))] \o <<To(c, RegisteredMsg(o))>>
    <2>1. o \in Object /\ services[o].pending \in SUBSET CallId
      BY <1>4 DEF RegisterObjectServices, TypeInv, TypeOK, ReaderInv, ServiceEntry
    <2>2. PICK q \in Orderings(services[o].pending) : SendAll(c, sends(q))
      BY <1>4 DEF RegisterObjectServices
    <2>3. IsFiniteSet(services[o].pending)
      BY <2>1, FS_Subset, ConstantAssumption DEF ConstantAssumption
    <2>4. [i \in DOMAIN q |-> To(c, CallMsg(q[i]))] \in Seq(Send)
      <3>1. \A i \in DOMAIN q : To(c, CallMsg(q[i])) \in Send
        BY <2>1, <2>2, <2>3, OrderingsType, MessageTypes, SendTypes
      <3> QED BY <2>2, <2>3, <3>1, OrderingsType
    <2>5. To(c, RegisteredMsg(o)) \in Send
      BY <2>1, MessageTypes, SendTypes
    <2>6. sends(q) \in Seq(Send) /\ sends(q) # <<>>
      BY <2>4, <2>5
    <2> HIDE DEF sends
    <2>7. /\ pc' \in [Conn -> ReaderPc] /\ local' \in [Conn -> Local]
          /\ out' \in [Conn -> Seq(Send)] /\ ReaderInv'
      BY <2>2, <2>6, SendAllType
    <2>8. services' \in [Object -> ServiceEntry]
      BY <1>4, <2>1 DEF RegisterObjectServices, TypeInv, TypeOK, ServiceEntry
    <2> QED BY <1>4, <2>7, <2>8 DEF TypeInv, TypeOK, RegisterObjectServices
  <1>5. ASSUME NEW c \in Conn, NEW o \in Object, RegisterService(c, o) PROVE TypeInv'
    <2>1. [NoLocal EXCEPT !.object = o] \in Local /\ [NoLocal EXCEPT !.object = o].object = o
      BY DEF NoLocal, Local
    <2>2. /\ pc' \in [Conn -> ReaderPc] /\ local' \in [Conn -> Local]
          /\ out' \in [Conn -> Seq(Send)] /\ ReaderInv'
      BY <1>5, <2>1, ContinueType DEF RegisterService, ReaderPc
    <2> QED BY <1>5, <2>2, ReadType DEF TypeInv, TypeOK, RegisterService
  <1>6. ASSUME NEW c \in Conn, RegisterServiceEntry(c) PROVE TypeInv'
    <2>1. /\ pc' \in [Conn -> ReaderPc] /\ local' \in [Conn -> Local]
          /\ out' \in [Conn -> Seq(Send)] /\ ReaderInv'
      BY <1>6, ReturnType DEF RegisterServiceEntry
    <2>2. services' \in [Object -> ServiceEntry]
      <3>1. local[c].object \in Object /\ services[local[c].object] \in ServiceEntry
        BY <1>6 DEF RegisterServiceEntry, TypeInv, TypeOK, ReaderInv
      <3>2. Entry("Stopped") \in ServiceEntry
        BY DEF Entry, ServiceEntry
      <3>3. \A e \in ServiceEntry : [e EXCEPT !.state = "Stopped", !.runner = Nil] \in ServiceEntry
        BY DEF ServiceEntry
      <3> QED BY <1>6, <3>1, <3>2, <3>3 DEF RegisterServiceEntry, TypeInv, TypeOK
    <2> QED BY <1>6, <2>1, <2>2 DEF TypeInv, TypeOK, RegisterServiceEntry
  <1>7. ASSUME NEW c \in Conn, NEW id \in CallId, NEW o \in Object, Call(c, id, o) PROVE TypeInv'
    <2> DEFINE l == [NoLocal EXCEPT !.call = id, !.object = o,
                            !.tx = IF objects[o] \in clients THEN objects[o] ELSE Nil]
    <2>1. l \in Local /\ l.call = id /\ l.object = o
      BY DEF NoLocal, Local, TypeInv, TypeOK
    <2> HIDE DEF l
    <2>2. /\ pc' \in [Conn -> ReaderPc] /\ local' \in [Conn -> Local]
          /\ out' \in [Conn -> Seq(Send)] /\ ReaderInv'
      <3>1. CASE c \in clients
        <4>1. Continue(c, "call_insert", l)
          BY <1>7, <3>1 DEF Call, l
        <4> QED BY <4>1, <2>1, ContinueType DEF ReaderPc
      <3>2. CASE c \notin clients
        BY <1>7, <3>2, ReturnType DEF Call
      <3> QED BY <3>1, <3>2
    <2> QED BY <1>7, <2>2, ReadType DEF TypeInv, TypeOK, Call
  <1>8. ASSUME NEW c \in Conn, CallInsert(c) PROVE TypeInv'
    <2>1. local[c] \in Local /\ local[c].call \in CallId /\ local[c].object \in Object
      BY <1>8 DEF CallInsert, TypeInv, TypeOK, ReaderInv
    <2>2. /\ pc' \in [Conn -> ReaderPc] /\ local' \in [Conn -> Local]
          /\ out' \in [Conn -> Seq(Send)] /\ ReaderInv'
      <3>1. CASE local[c].tx # Nil
        <4>1. local[c].tx \in Conn
          BY <2>1, <3>1 DEF Local
        <4>2. <<To(local[c].tx, CallMsg(local[c].call))>> \in Seq(Send)
          BY <2>1, <4>1, MessageTypes, SendTypes
        <4> QED BY <1>8, <3>1, <4>2, SendAllType DEF CallInsert
      <3>2. CASE local[c].tx = Nil
        BY <1>8, <2>1, <3>2, ContinueType DEF CallInsert, ReaderPc
      <3> QED BY <3>1, <3>2
    <2> QED BY <1>8, <2>1, <2>2 DEF TypeInv, TypeOK, CallInsert
  <1>9. ASSUME NEW c \in Conn, CallAutoStart(c) \/ CallQueue(c) PROVE TypeInv'
    <2>1. local[c].call \in CallId /\ local[c].object \in Object
      BY <1>9 DEF CallAutoStart, CallQueue, TypeInv, TypeOK, ReaderInv
    <2>2. /\ pc' \in [Conn -> ReaderPc] /\ local' \in [Conn -> Local]
          /\ out' \in [Conn -> Seq(Send)] /\ ReaderInv'
      BY <1>9, ReturnType DEF CallAutoStart, CallQueue
    <2>3. services' \in [Object -> ServiceEntry]
      <3> DEFINE e == services[local[c].object]
      <3>1. e \in ServiceEntry
        BY <2>1 DEF TypeInv, TypeOK
      <3>2. [e EXCEPT !.pending = @ \cup {local[c].call}] \in ServiceEntry
        BY <2>1, <3>1 DEF ServiceEntry
      <3>3. [e EXCEPT !.state = "Starting", !.pending = @ \cup {local[c].call}] \in ServiceEntry
        BY <2>1, <3>1 DEF ServiceEntry
      <3>4. CASE CallQueue(c)
        BY <2>1, <3>2, <3>4 DEF CallQueue, TypeInv, TypeOK
      <3>5. CASE CallAutoStart(c)
        BY <2>1, <3>3, <3>5 DEF CallAutoStart, TypeInv, TypeOK
      <3> QED BY <1>9, <3>4, <3>5
    <2> QED BY <1>9, <2>1, <2>2, <2>3 DEF TypeInv, TypeOK, CallAutoStart, CallQueue
  <1>10. ASSUME NEW c \in Conn, CallRunning(c) PROVE TypeInv'
    BY <1>10, ReturnType DEF TypeInv, TypeOK, CallRunning
  <1>11. ASSUME NEW c \in Conn, CallUnknown(c) PROVE TypeInv'
    <2>1. local[c].call \in CallId /\ local[c].object \in Object
      BY <1>11 DEF CallUnknown, TypeInv, TypeOK, ReaderInv
    <2>2. <<To(c, ErrorMsg(local[c].call, local[c].object))>> \in Seq(Send)
      BY <2>1, MessageTypes, SendTypes
    <2>3. /\ pc' \in [Conn -> ReaderPc] /\ local' \in [Conn -> Local]
          /\ out' \in [Conn -> Seq(Send)] /\ ReaderInv'
      BY <1>11, <2>2, SendAllType DEF CallUnknown
    <2> QED BY <1>11, <2>3 DEF TypeInv, TypeOK, CallUnknown
  <1>12. ASSUME NEW c \in Conn, NEW id \in CallId, Response(c, id) PROVE TypeInv'
    <2>1. /\ pc' \in [Conn -> ReaderPc] /\ local' \in [Conn -> Local]
          /\ out' \in [Conn -> Seq(Send)] /\ ReaderInv'
      <3>1. CASE calls[id] # Nil
        <4>1. calls[id] \in Conn
          BY <3>1 DEF TypeInv, TypeOK
        <4>2. <<To(calls[id], ResultMsg(id))>> \in Seq(Send)
          BY <4>1, MessageTypes, SendTypes
        <4> QED BY <1>12, <3>1, <4>2, SendAllType DEF Response
      <3>2. CASE calls[id] = Nil
        BY <1>12, <3>2, ReturnType DEF Response
      <3> QED BY <3>1, <3>2
    <2> QED BY <1>12, <2>1 DEF TypeInv, TypeOK, Response
  <1>13. ASSUME NEW c \in Conn, NEW t \in Topic, Subscribe(c, t) PROVE TypeInv'
    <2>1. <<To(c, SubscribedMsg(t))>> \in Seq(Send)
      BY MessageTypes, SendTypes
    <2>2. /\ pc' \in [Conn -> ReaderPc] /\ local' \in [Conn -> Local]
          /\ out' \in [Conn -> Seq(Send)] /\ ReaderInv'
      BY <1>13, <2>1, SendAllType DEF Subscribe
    <2> QED BY <1>13, <2>2, ReadType DEF TypeInv, TypeOK, Subscribe
  <1>14. ASSUME NEW c \in Conn, NEW t \in Topic, Publish(c, t) PROVE TypeInv'
    <2> DEFINE l == [NoLocal EXCEPT !.topic = t, !.subs = subscriptions[t]]
    <2>1. l \in Local /\ l.topic = t
      BY DEF NoLocal, Local, TypeInv, TypeOK
    <2> HIDE DEF l
    <2>2. /\ pc' \in [Conn -> ReaderPc] /\ local' \in [Conn -> Local]
          /\ out' \in [Conn -> Seq(Send)] /\ ReaderInv'
      <3>1. CASE subscriptions[t] # {}
        <4>1. Continue(c, "publish", l)
          BY <1>14, <3>1 DEF Publish, l
        <4> QED BY <4>1, <2>1, ContinueType DEF ReaderPc
      <3>2. CASE subscriptions[t] = {}
        BY <1>14, <3>2, ReturnType DEF Publish
      <3> QED BY <3>1, <3>2
    <2> QED BY <1>14, <2>2, ReadType DEF TypeInv, TypeOK, Publish
  <1>15. ASSUME NEW c \in Conn, PublishSenders(c) PROVE TypeInv'
    <2> DEFINE event == EventMsg(local[c].topic, c, reads[c])
               present == local[c].subs \cap clients
               sends(q) == [i \in DOMAIN q |-> To(q[i], event)]
    <2>1. event \in Message /\ present \subseteq Conn
      BY <1>15, MessageTypes DEF PublishSenders, TypeInv, TypeOK, ReaderInv
    <2>2. /\ pc' \in [Conn -> ReaderPc] /\ local' \in [Conn -> Local]
          /\ out' \in [Conn -> Seq(Send)] /\ ReaderInv'
      <3>1. CASE present = {}
        BY <1>15, <3>1, ReturnType DEF PublishSenders
      <3>2. CASE present # {}
        <4>1. PICK q \in Orderings(present) : SendAll(c, sends(q))
          BY <1>15, <3>2 DEF PublishSenders
        <4>2. IsFiniteSet(present)
          BY <2>1, FS_Subset, ConstantAssumption DEF ConstantAssumption
        <4> HIDE DEF event, present
        <4>3. \A i \in DOMAIN q : To(q[i], event) \in Send
          BY <2>1, <4>1, <4>2, OrderingsType, SendTypes
        <4>4. sends(q) \in Seq(Send)
          BY <4>1, <4>2, <4>3, OrderingsType
        <4>5. sends(q) # <<>>
          <5>1. DOMAIN q # {}
            BY <3>2, <4>1, <4>2, OrderingsType
          <5>2. DOMAIN sends(q) # {} /\ DOMAIN << >> = {}
            BY <5>1
          <5> QED BY <5>2
        <4> HIDE DEF sends
        <4> QED BY <4>1, <4>4, <4>5, SendAllType
      <3> QED BY <3>1, <3>2
    <2> QED BY <1>15, <2>2 DEF TypeInv, TypeOK, PublishSenders
  <1>16. ASSUME NEW c \in Conn, NEW o \in Object, HasObject(c, o) PROVE TypeInv'
    <2>1. <<To(c, HasObjectMsg(o, objects[o] # Nil))>> \in Seq(Send)
      <3>1. (objects[o] # Nil) \in BOOLEAN
        OBVIOUS
      <3>2. HasObjectMsg(o, objects[o] # Nil) \in Message
        BY <3>1, MessageTypes, Zenon
      <3> QED BY <3>2, SendTypes
    <2>2. /\ pc' \in [Conn -> ReaderPc] /\ local' \in [Conn -> Local]
          /\ out' \in [Conn -> Seq(Send)] /\ ReaderInv'
      BY <1>16, <2>1, SendAllType DEF HasObject
    <2> QED BY <1>16, <2>2, ReadType DEF TypeInv, TypeOK, HasObject
  <1>17. ASSUME NEW c \in Conn, SendNext(c) PROVE TypeInv'
    <2>1. out[c] \in Seq(Send) /\ out[c] # <<>>
      BY <1>17 DEF SendNext, TypeInv, TypeOK, ReaderInv
    <2>2. Head(out[c]).to \in Conn /\ Head(out[c]).msg \in Message
      BY <2>1, SendTypes
    <2>3. out' \in [Conn -> Seq(Send)]
      <3>1. Tail(out[c]) \in Seq(Send)
        BY <2>1
      <3> QED BY <1>17, <3>1 DEF SendNext, TypeInv, TypeOK
    <2>0. pc' = [pc EXCEPT ![c] = "idle"] \/ (Len(out[c]) # 1 /\ pc' = pc)
      BY <1>17, Zenon DEF SendNext
    <2>4. pc' \in [Conn -> ReaderPc]
      <3>1. pc \in [Conn -> ReaderPc] /\ "idle" \in ReaderPc
        BY DEF TypeInv, TypeOK, ReaderPc
      <3> QED BY <2>0, <3>1
    <2>5. chan' \in [Conn -> Seq(Message)] /\ \A d \in Conn : Len(chan'[d]) <= ChanCap
      <3>1. \A d \in Conn : Len(chan[d]) < ChanCap =>
              /\ Append(chan[d], Head(out[c]).msg) \in Seq(Message)
              /\ Len(Append(chan[d], Head(out[c]).msg)) <= ChanCap
        BY <2>2, ConstantAssumption DEF ConstantAssumption, TypeInv, TypeOK
      <3>2. /\ chan \in [Conn -> Seq(Message)]
            /\ \A d \in Conn : Len(chan[d]) <= ChanCap
        BY DEF TypeInv, TypeOK
      <3>3. \/ chan' = chan
            \/ /\ Len(chan[Head(out[c]).to]) < ChanCap
               /\ chan' = [chan EXCEPT ![Head(out[c]).to] = Append(@, Head(out[c]).msg)]
        BY <1>17, Zenon DEF SendNext
      <3>4. CASE chan' = chan
        BY <3>2, <3>4
      <3>5. CASE /\ Len(chan[Head(out[c]).to]) < ChanCap
                 /\ chan' = [chan EXCEPT ![Head(out[c]).to] = Append(@, Head(out[c]).msg)]
        BY <2>2, <3>1, <3>2, <3>5
      <3> QED BY <3>3, <3>4, <3>5
    <2>6. ReaderInv'
      <3>1. Len(out[c]) # 1 => Len(Tail(out[c])) # 0
        BY <2>1
      <3>2. Len(<< >>) = 0
        OBVIOUS
      <3>3. Len(out[c]) # 1 => Tail(out[c]) # << >>
        BY <3>1, <3>2
      <3>4. out' = [out EXCEPT ![c] = Tail(@)] /\ local' = local
        BY <1>17, Zenon DEF SendNext
      <3>5. pc \in [Conn -> ReaderPc] /\ out \in [Conn -> Seq(Send)] /\ ReaderInv
        BY DEF TypeInv, TypeOK
      <3> QED BY <2>0, <3>3, <3>4, <3>5 DEF ReaderInv
    <2> QED BY <1>17, <2>3, <2>4, <2>5, <2>6 DEF SendNext, TypeInv, TypeOK
  <1>18. ASSUME NEW c \in Conn, ReadError(c) PROVE TypeInv'
    <2>1. /\ pc' \in [Conn -> ReaderPc] /\ local' \in [Conn -> Local]
          /\ out' \in [Conn -> Seq(Send)] /\ ReaderInv'
      BY <1>18, NoLocalType, ContinueType DEF ReadError, ReaderPc
    <2>2. reads' \in [Conn -> Nat]
      BY <1>18, ReadType DEF ReadError, TypeInv, TypeOK
    <2> QED BY <1>18, <2>1, <2>2 DEF TypeInv, TypeOK, ReadError
  <1>19. ASSUME NEW c \in Conn, WriterWrite(c) PROVE TypeInv'
    <2>1. chan[c] \in Seq(Message) /\ chan[c] # <<>> /\ Len(chan[c]) <= ChanCap
      BY <1>19 DEF WriterWrite, TypeInv, TypeOK
    <2>2. Head(chan[c]) \in Message /\ Tail(chan[c]) \in Seq(Message) /\ Len(Tail(chan[c])) <= ChanCap
      BY <2>1, ConstantAssumption DEF ConstantAssumption
    <2>3. chan' \in [Conn -> Seq(Message)] /\ \A d \in Conn : Len(chan'[d]) <= ChanCap
      BY <1>19, <2>2 DEF WriterWrite, TypeInv, TypeOK
    <2>4. /\ todo' \in [Conn -> SUBSET CallId] /\ answered' \subseteq CallId
          /\ seen' \in [Conn -> [Conn -> Nat]]
      BY <1>19, <2>2, MessageFields DEF WriterWrite, TypeInv, TypeOK
    <2> QED BY <1>19, <2>3, <2>4 DEF WriterWrite, TypeInv, TypeOK, ReaderInv
  <1>20. ASSUME NEW c \in Conn, WriterFail(c) PROVE TypeInv'
    <2>1. chan[c] \in Seq(Message) /\ chan[c] # <<>> /\ Len(chan[c]) <= ChanCap
      BY <1>20 DEF WriterFail, TypeInv, TypeOK
    <2>2. Tail(chan[c]) \in Seq(Message) /\ Len(Tail(chan[c])) <= ChanCap
      BY <2>1, ConstantAssumption DEF ConstantAssumption
    <2> QED BY <1>20, <2>2 DEF WriterFail, TypeInv, TypeOK, ReaderInv
  <1>21. ASSUME NEW c \in Conn, WriterShutdown(c) PROVE TypeInv'
    BY <1>21 DEF WriterShutdown, TypeInv, TypeOK, ReaderInv
  <1>22. ASSUME NEW c \in Conn, CleanupClients(c) \/ CleanupObjects(c) PROVE TypeInv'
    <2>1. clients' \subseteq Conn /\ objects' \in [Object -> Conn \cup {Nil}]
      BY <1>22 DEF CleanupClients, CleanupObjects, TypeInv, TypeOK
    <2>2. actor' \in [Conn -> ActorPc]
      <3>1. actor \in [Conn -> ActorPc]
        BY DEF TypeInv, TypeOK
      <3>2. CASE CleanupClients(c)
        BY <3>1, <3>2 DEF CleanupClients, ActorPc
      <3>3. CASE CleanupObjects(c)
        BY <3>1, <3>3 DEF CleanupObjects, ActorPc
      <3> QED BY <1>22, <3>2, <3>3
    <2> QED BY <1>22, <2>1, <2>2 DEF CleanupClients, CleanupObjects, TypeInv, TypeOK, ReaderInv
  <1>23. ASSUME NEW c \in Conn, CleanupSubscriptions(c) \/ CleanupCalls(c) PROVE TypeInv'
    <2>1. subscriptions' \in [Topic -> SUBSET Conn] /\ calls' \in [CallId -> Conn \cup {Nil}]
      BY <1>23 DEF CleanupSubscriptions, CleanupCalls, TypeInv, TypeOK
    <2>2. actor' \in [Conn -> ActorPc]
      <3>1. actor \in [Conn -> ActorPc]
        BY DEF TypeInv, TypeOK
      <3>2. CASE CleanupSubscriptions(c)
        BY <3>1, <3>2 DEF CleanupSubscriptions, ActorPc
      <3>3. CASE CleanupCalls(c)
        BY <3>1, <3>3 DEF CleanupCalls, ActorPc
      <3> QED BY <1>23, <3>2, <3>3
    <2> QED BY <1>23, <2>1, <2>2 DEF CleanupSubscriptions, CleanupCalls, TypeInv, TypeOK, ReaderInv
  <1>24. ASSUME NEW c \in Conn, CleanupActiveCalls(c) PROVE TypeInv'
    BY <1>24 DEF CleanupActiveCalls, TypeInv, TypeOK, ReaderInv, ActorPc
  <1>25. ASSUME NEW c \in Conn, CleanupServices(c) PROVE TypeInv'
    <2>1. services' \in [Object -> ServiceEntry]
      <3>1. Entry("Stopped") \in ServiceEntry
        BY DEF Entry, ServiceEntry
      <3>2. \A e \in ServiceEntry : [e EXCEPT !.pending = @ \cap snapshot[c]] \in ServiceEntry
        BY DEF ServiceEntry
      <3> QED BY <1>25, <3>1, <3>2 DEF CleanupServices, TypeInv, TypeOK
    <2>2. chan' \in [Conn -> Seq(Message)] /\ \A d \in Conn : Len(chan'[d]) <= ChanCap
      BY <1>25, ConstantAssumption DEF ConstantAssumption, CleanupServices, TypeInv, TypeOK
    <2> QED BY <1>25, <2>1, <2>2 DEF CleanupServices, TypeInv, TypeOK, ReaderInv, ActorPc
  <1>26. ASSUME NEW o \in Object, SpawnService(o) PROVE TypeInv'
    BY <1>26 DEF SpawnService, TypeInv, TypeOK, ReaderInv
  <1>27. CASE UNCHANGED vars
    BY <1>27 DEF vars, TypeInv, TypeOK, ReaderInv
  <1> QED
    BY <1>1, <1>2, <1>3, <1>4, <1>5, <1>6, <1>7, <1>8, <1>9, <1>10, <1>11, <1>12, <1>13,
       <1>14, <1>15, <1>16, <1>17, <1>18, <1>19, <1>20, <1>21, <1>22, <1>23, <1>24,
       <1>25, <1>26, <1>27 DEF Next, Request, Handler, Writer, Cleanup

\* The maps, channels and readers of the broker keep their types, and no
\* channel ever holds more than its capacity.
THEOREM TypeCorrect == Spec => []TypeOK
  <1>1. TypeInv => TypeOK
    BY DEF TypeInv
  <1> QED BY <1>1, TypeInit, TypeNext, PTL DEF Spec

-----------------------------------------------------------------------------
(* Nothing is left of a connection after its cleanup.                      *)

\* NoResidue for one connection, by stages of run().
Clean(c) ==
  /\ actor[c] \notin {"running"} => c \notin clients
  /\ actor[c] \notin {"running", "objects"} => \A o \in Object : objects[o] # c
  /\ actor[c] \notin {"running", "objects", "subscriptions"} =>
       \A t \in Topic : c \notin subscriptions[t]
  /\ actor[c] \in {"absent", "active_calls", "services", "ended"} =>
       \A id \in CallId : calls[id] # c
  /\ actor[c] \in {"absent", "ended"} => \A o \in Object : services[o].owner # c
  /\ actor[c] = "running" => c \in clients

\* A reader runs exactly while its actor has not begun the cleanup: the reason
\* why no handler can undo a step of cleanup_client.
ReaderStage(c) ==
  /\ actor[c] = "absent" => pc[c] = "none"
  /\ actor[c] \notin {"absent", "running"} => pc[c] = "done"

\* A service runs in the connection that owns it, and has no waiting calls.
ServiceInv ==
  \A o \in Object :
    /\ services[o].runner \in {Nil, services[o].owner}
    /\ services[o].state = "Running" =>
         /\ services[o].runner \in Conn
         /\ services[o].pending = {}

LifeInv == /\ \A c \in Conn : Clean(c) /\ ReaderStage(c)
           /\ ServiceInv

\* At the start no connection has ended and no service runs.
LEMMA LifeInit == Init => LifeInv
  BY ConstantAssumption DEF ConstantAssumption, Init, LifeInv, Clean, ReaderStage, ServiceInv, Entry

\* The types that the life cycle of a connection depends on.
LEMMA LifeTypes ==
  TypeInv => /\ actor \in [Conn -> ActorPc] /\ pc \in [Conn -> ReaderPc]
             /\ objects \in [Object -> Conn \cup {Nil}]
             /\ subscriptions \in [Topic -> SUBSET Conn]
             /\ calls \in [CallId -> Conn \cup {Nil}]
             /\ services \in [Object -> ServiceEntry]
  BY DEF TypeInv, TypeOK

\* Only a connection that runs has a reader that does something.
LEMMA Reading ==
  ASSUME TypeInv, LifeInv, NEW c \in Conn, pc[c] \notin {"none", "done"}
  PROVE  actor[c] = "running"
  BY LifeTypes DEF LifeInv, ReaderStage, ActorPc

\* A step of a reader, whatever it does to the maps.
ReaderStep(c) ==
  /\ pc[c] \notin {"none", "done"}
  /\ \E label \in ReaderPc \ {"none"} : pc' = [pc EXCEPT ![c] = label]
  /\ UNCHANGED actor

\* A reader that takes a step belongs to an actor that runs, and stays in a stage
\* that fits the actor: the cleanup of run comes after reader_loop has returned.
LEMMA ReaderStepStages ==
  ASSUME TypeInv, LifeInv, NEW c \in Conn, ReaderStep(c)
  PROVE  actor[c] = "running" /\ \A d \in Conn : ReaderStage(d)'
  <1>1. actor[c] = "running"
    BY Reading DEF ReaderStep
  <1> QED BY <1>1, LifeTypes DEF ReaderStep, LifeInv, ReaderStage

\* The steps of a reader that touch none of the maps.
LEMMA MapsSame ==
  ASSUME LifeInv, UNCHANGED <<actor, clients, objects, subscriptions, calls, services>>
  PROVE  (\A d \in Conn : Clean(d)') /\ ServiceInv'
  BY DEF LifeInv, Clean, ServiceInv

\* The fields of the entries that RegisterService and the cleanup write.
LEMMA EntryFields ==
  ASSUME NEW e \in ServiceEntry, NEW S
  PROVE  /\ Entry("Stopped").state = "Stopped"
         /\ Entry("Stopped").runner = Nil /\ Entry("Stopped").owner = Nil
         /\ [e EXCEPT !.state = "Stopped", !.runner = Nil].state = "Stopped"
         /\ [e EXCEPT !.state = "Stopped", !.runner = Nil].runner = Nil
         /\ [e EXCEPT !.state = "Stopped", !.runner = Nil].owner = e.owner
         /\ [e EXCEPT !.pending = @ \cap S].state = e.state
         /\ [e EXCEPT !.pending = @ \cap S].runner = e.runner
         /\ [e EXCEPT !.pending = @ \cap S].owner = e.owner
         /\ [e EXCEPT !.pending = @ \cap S].pending = e.pending \cap S
  BY DEF Entry, ServiceEntry

\* Every reader action is a ReaderStep.
LEMMA HandlersStep ==
  ASSUME TypeInv, NEW c \in Conn,
         Request(c) \/ Handler(c) \/ ReadError(c) \/ \E id \in CallId : Response(c, id)
  PROVE  ReaderStep(c)
  <1> USE DEF ReaderStep, ReaderPc, conn
  <1>1. \A l, label : Continue(c, label, l) => pc' = [pc EXCEPT ![c] = label]
    BY DEF Continue
  <1>2. Return(c) => pc' = [pc EXCEPT ![c] = "idle"]
    BY DEF Return, Continue
  <1>3. \A sends : SendAll(c, sends) => pc' = [pc EXCEPT ![c] = "send"]
    BY DEF SendAll
  <1>4. CASE Request(c)
    <2>1. ASSUME NEW o \in Object,
                 RegisterObject(c, o) \/ RegisterService(c, o) \/ HasObject(c, o)
          PROVE  ReaderStep(c)
      BY <1>1, <1>3, <2>1 DEF RegisterObject, RegisterService, HasObject, Read
    <2>2. ASSUME NEW o \in Object, NEW id \in CallId, Call(c, id, o) PROVE ReaderStep(c)
      BY <1>1, <1>2, <2>2 DEF Call, Read
    <2>3. ASSUME NEW t \in Topic, Subscribe(c, t) \/ Publish(c, t) PROVE ReaderStep(c)
      BY <1>1, <1>2, <1>3, <2>3 DEF Subscribe, Publish, Read
    <2> QED BY <1>4, <2>1, <2>2, <2>3 DEF Request
  <1>5. CASE SendNext(c)
    <2>1. pc \in [Conn -> ReaderPc]
      BY LifeTypes
    <2>2. pc' = [pc EXCEPT ![c] = "idle"] \/ pc' = [pc EXCEPT ![c] = "send"]
      BY <1>5, <2>1 DEF SendNext
    <2> QED BY <1>5, <2>2 DEF SendNext
  <1>6. CASE Handler(c) /\ ~SendNext(c)
    BY <1>1, <1>2, <1>3, <1>6
       DEF Handler, RegisterObjectServices, RegisterServiceEntry, CallInsert, CallAutoStart,
           CallQueue, CallRunning, CallUnknown, PublishSenders
  <1>7. CASE ReadError(c)
    BY <1>1, <1>7 DEF ReadError, Read
  <1>8. ASSUME NEW id \in CallId, Response(c, id) PROVE ReaderStep(c)
    BY <1>2, <1>3, <1>8 DEF Response
  <1> QED BY <1>4, <1>5, <1>6, <1>7, <1>8

\* Every action keeps a connection out of the maps it has been cleared from.
LEMMA LifeNext == TypeInv /\ LifeInv /\ [Next]_vars => LifeInv'
  <1> SUFFICES ASSUME TypeInv, LifeInv, [Next]_vars PROVE LifeInv'
    OBVIOUS
  <1> USE DEF maps, task, conn, world, hist
  <1>a. ASSUME NEW c \in Conn,
               Request(c) \/ Handler(c) \/ ReadError(c) \/ \E id \in CallId : Response(c, id)
        PROVE  /\ actor[c] = "running" /\ actor' = actor
               /\ \A d \in Conn : ReaderStage(d)'
    BY <1>a, HandlersStep, ReaderStepStages DEF ReaderStep
  <1>1. ASSUME NEW c \in Conn, SpawnClient(c) PROVE LifeInv'
    <2>1. \A d \in Conn : ReaderStage(d)'
      BY <1>1, LifeTypes DEF SpawnClient, LifeInv, ReaderStage
    <2>2. \A d \in Conn : Clean(d)'
      BY <1>1, LifeTypes DEF SpawnClient, LifeInv, Clean
    <2> QED BY <1>1, <2>1, <2>2 DEF SpawnClient, LifeInv, ServiceInv
  <1>2. ASSUME NEW c \in Conn, PeerClose(c) \/ Writer(c) PROVE LifeInv'
    <2>1. UNCHANGED <<pc, actor, clients, objects, subscriptions, calls, services>>
      BY <1>2 DEF PeerClose, Writer, WriterWrite, WriterFail, WriterShutdown
    <2> QED BY <2>1, MapsSame DEF LifeInv, ReaderStage
  <1>3. ASSUME NEW c \in Conn, NEW o \in Object, RegisterObject(c, o) PROVE LifeInv'
    <2>1. actor[c] = "running" /\ actor' = actor /\ \A d \in Conn : ReaderStage(d)'
      BY <1>3, <1>a DEF Request
    <2>2. \A d \in Conn : Clean(d)'
      BY <1>3, <2>1, LifeTypes DEF RegisterObject, LifeInv, Clean
    <2> QED BY <1>3, <2>1, <2>2 DEF RegisterObject, LifeInv, ServiceInv
  <1>4. ASSUME NEW c \in Conn, RegisterObjectServices(c) PROVE LifeInv'
    <2>1. actor[c] = "running" /\ actor' = actor /\ \A d \in Conn : ReaderStage(d)'
      BY <1>4, <1>a DEF Handler
    <2>2. \A o \in Object : \/ services'[o] = services[o]
                            \/ services'[o] = [state |-> "Running", runner |-> c,
                                               owner |-> c, pending |-> {}]
      BY <1>4, LifeTypes DEF RegisterObjectServices
    <2>3. ServiceInv'
      BY <2>2 DEF LifeInv, ServiceInv
    <2>4. \A d \in Conn : Clean(d)'
      BY <1>4, <2>1, <2>2 DEF RegisterObjectServices, LifeInv, Clean
    <2> QED BY <2>1, <2>3, <2>4 DEF LifeInv
  <1>5. ASSUME NEW c \in Conn, RegisterServiceEntry(c) PROVE LifeInv'
    <2>1. actor[c] = "running" /\ actor' = actor /\ \A d \in Conn : ReaderStage(d)'
      BY <1>5, <1>a DEF Handler
    <2>2. \A o \in Object : \/ services'[o] = services[o]
                            \/ services'[o] = Entry("Stopped")
                            \/ services'[o] = [services[o] EXCEPT !.state = "Stopped", !.runner = Nil]
      BY <1>5, LifeTypes DEF RegisterServiceEntry
    <2>3. \A o \in Object : services[o] \in ServiceEntry
      BY LifeTypes
    <2>a. \A o \in Object :
            \/ services'[o] = services[o]
            \/ /\ services'[o].state = "Stopped" /\ services'[o].runner = Nil
               /\ services'[o].owner \in {services[o].owner, Nil}
      <3> SUFFICES ASSUME NEW o \in Object, services'[o] # services[o]
                   PROVE  /\ services'[o].state = "Stopped" /\ services'[o].runner = Nil
                          /\ services'[o].owner \in {services[o].owner, Nil}
        OBVIOUS
      <3>1. CASE services'[o] = Entry("Stopped")
        BY <2>3, <3>1, EntryFields
      <3>2. CASE services'[o] = [services[o] EXCEPT !.state = "Stopped", !.runner = Nil]
        BY <2>3, <3>2, EntryFields
      <3> QED BY <2>2, <3>1, <3>2
    <2>4. ServiceInv'
      BY <2>a DEF LifeInv, ServiceInv
    <2>5. \A o \in Object : services'[o].owner \in {services[o].owner, Nil}
      BY <2>a
    <2>6. \A d \in Conn : Clean(d)'
      BY <1>5, <2>1, <2>5, ConstantAssumption
         DEF ConstantAssumption, RegisterServiceEntry, LifeInv, Clean
    <2> QED BY <2>1, <2>4, <2>6 DEF LifeInv
  <1>6. ASSUME NEW c \in Conn, CallInsert(c) PROVE LifeInv'
    <2>1. actor[c] = "running" /\ actor' = actor /\ \A d \in Conn : ReaderStage(d)'
      BY <1>6, <1>a DEF Handler
    <2>2. \A id \in CallId : calls'[id] \in {calls[id], c}
      BY <1>6, LifeTypes DEF CallInsert
    <2>3. \A d \in Conn : Clean(d)'
      BY <1>6, <2>1, <2>2 DEF CallInsert, LifeInv, Clean
    <2> QED BY <1>6, <2>1, <2>3 DEF CallInsert, LifeInv, ServiceInv
  <1>7. ASSUME NEW c \in Conn, CallAutoStart(c) \/ CallQueue(c) PROVE LifeInv'
    <2>1. actor[c] = "running" /\ actor' = actor /\ \A d \in Conn : ReaderStage(d)'
      BY <1>7, <1>a DEF Handler
    <2>2. \A o \in Object : services[o] \in ServiceEntry
      BY LifeTypes
    <2>3. \A o \in Object : /\ services'[o].owner = services[o].owner
                            /\ services'[o].runner = services[o].runner
                            /\ services'[o].state = "Running" =>
                                 services'[o] = services[o]
      BY <1>7, <2>2, LifeTypes DEF CallAutoStart, CallQueue, ServiceEntry
    <2>4. ServiceInv'
      BY <2>3 DEF LifeInv, ServiceInv
    <2>5. \A d \in Conn : Clean(d)'
      BY <1>7, <2>1, <2>3 DEF CallAutoStart, CallQueue, LifeInv, Clean
    <2> QED BY <2>1, <2>4, <2>5 DEF LifeInv
  <1>8. ASSUME NEW c \in Conn, NEW id \in CallId, Response(c, id) PROVE LifeInv'
    <2>1. actor[c] = "running" /\ actor' = actor /\ \A d \in Conn : ReaderStage(d)'
      BY <1>8, <1>a
    <2>2. \A k \in CallId : calls'[k] \in {calls[k], Nil}
      BY <1>8, LifeTypes DEF Response
    <2>3. \A d \in Conn : Clean(d)'
      BY <1>8, <2>1, <2>2, ConstantAssumption DEF ConstantAssumption, Response, LifeInv, Clean
    <2> QED BY <1>8, <2>1, <2>3 DEF Response, LifeInv, ServiceInv
  <1>9. ASSUME NEW c \in Conn, NEW t \in Topic, Subscribe(c, t) PROVE LifeInv'
    <2>1. actor[c] = "running" /\ actor' = actor /\ \A d \in Conn : ReaderStage(d)'
      BY <1>9, <1>a DEF Request
    <2>2. \A u \in Topic : subscriptions'[u] \subseteq subscriptions[u] \cup {c}
      BY <1>9, LifeTypes DEF Subscribe
    <2>3. \A d \in Conn : Clean(d)'
      BY <1>9, <2>1, <2>2 DEF Subscribe, LifeInv, Clean
    <2> QED BY <1>9, <2>1, <2>3 DEF Subscribe, LifeInv, ServiceInv
  <1>10. ASSUME NEW c \in Conn,
                \/ \E o \in Object : RegisterService(c, o) \/ HasObject(c, o)
                \/ \E id \in CallId, o \in Object : Call(c, id, o)
                \/ \E t \in Topic : Publish(c, t)
         PROVE LifeInv'
    <2>1. \A d \in Conn : ReaderStage(d)'
      BY <1>10, <1>a DEF Request
    <2>2. UNCHANGED <<actor, clients, objects, subscriptions, calls, services>>
      BY <1>10 DEF RegisterService, HasObject, Call, Publish
    <2> QED BY <2>1, <2>2, MapsSame DEF LifeInv
  <1>11. ASSUME NEW c \in Conn, \/ CallRunning(c) \/ CallUnknown(c) \/ PublishSenders(c)
                                \/ SendNext(c) \/ ReadError(c)
         PROVE LifeInv'
    <2>1. \A d \in Conn : ReaderStage(d)'
      BY <1>11, <1>a DEF Handler
    <2>2. UNCHANGED <<actor, clients, objects, subscriptions, calls, services>>
      BY <1>11 DEF CallRunning, CallUnknown, PublishSenders, SendNext, ReadError
    <2> QED BY <2>1, <2>2, MapsSame DEF LifeInv
  <1>12. ASSUME NEW c \in Conn, Cleanup(c) PROVE LifeInv'
    <2> DEFINE later == {"objects", "subscriptions", "calls", "active_calls", "services", "ended"}
    <2>1. /\ actor[c] = "running" => pc[c] = "done"
          /\ actor[c] \notin {"absent", "ended"}
          /\ UNCHANGED pc
          /\ \E st \in later : actor' = [actor EXCEPT ![c] = st]
      BY <1>12 DEF Cleanup, CleanupClients, CleanupObjects, CleanupSubscriptions,
                   CleanupCalls, CleanupActiveCalls, CleanupServices
    <2>2. \A d \in Conn : ReaderStage(d)'
      BY <2>1, LifeTypes DEF LifeInv, ReaderStage
    <2>3. CASE CleanupClients(c)
      BY <2>3, <2>2, LifeTypes DEF CleanupClients, LifeInv, Clean, ServiceInv
    <2>4. CASE CleanupObjects(c)
      <3>1. \A o \in Object : objects'[o] \in {objects[o], Nil} /\ objects'[o] # c
        BY <2>4, ConstantAssumption DEF ConstantAssumption, CleanupObjects
      <3>2. \A d \in Conn : Clean(d)'
        BY <2>4, <3>1, LifeTypes, ConstantAssumption
           DEF ConstantAssumption, CleanupObjects, LifeInv, Clean
      <3> QED BY <2>4, <2>2, <3>2 DEF CleanupObjects, LifeInv, ServiceInv
    <2>5. CASE CleanupSubscriptions(c)
      <3>1. \A d \in Conn : Clean(d)'
        BY <2>5, LifeTypes DEF CleanupSubscriptions, LifeInv, Clean
      <3> QED BY <2>5, <2>2, <3>1 DEF CleanupSubscriptions, LifeInv, ServiceInv
    <2>6. CASE CleanupCalls(c)
      <3>1. \A id \in CallId : calls'[id] \in {calls[id], Nil} /\ calls'[id] # c
        BY <2>6, ConstantAssumption DEF ConstantAssumption, CleanupCalls
      <3>2. \A d \in Conn : Clean(d)'
        BY <2>6, <3>1, LifeTypes, ConstantAssumption
           DEF ConstantAssumption, CleanupCalls, LifeInv, Clean
      <3> QED BY <2>6, <2>2, <3>2 DEF CleanupCalls, LifeInv, ServiceInv
    <2>7. CASE CleanupActiveCalls(c)
      <3>1. \A d \in Conn : Clean(d)'
        BY <2>7, LifeTypes DEF CleanupActiveCalls, LifeInv, Clean
      <3> QED BY <2>7, <2>2, <3>1 DEF CleanupActiveCalls, LifeInv, ServiceInv
    <2>8. CASE CleanupServices(c)
      <3>1. \A o \in Object : services[o] \in ServiceEntry
        BY LifeTypes
      <3>2. \A o \in Object :
              \/ services'[o] = Entry("Stopped")
              \/ /\ services[o].owner # c
                 /\ services'[o] = [services[o] EXCEPT !.pending = @ \cap snapshot[c]]
        BY <2>8 DEF CleanupServices
      <3>a. \A o \in Object :
              \/ /\ services'[o].state = "Stopped"
                 /\ services'[o].runner = Nil /\ services'[o].owner = Nil
              \/ /\ services[o].owner # c
                 /\ services'[o].state = services[o].state
                 /\ services'[o].runner = services[o].runner
                 /\ services'[o].owner = services[o].owner
                 /\ services'[o].pending = services[o].pending \cap snapshot[c]
        <4> TAKE o \in Object
        <4>1. CASE services'[o] = Entry("Stopped")
          BY <3>1, <4>1, EntryFields
        <4>2. CASE /\ services[o].owner # c
                   /\ services'[o] = [services[o] EXCEPT !.pending = @ \cap snapshot[c]]
          BY <3>1, <4>2, EntryFields
        <4> QED BY <3>2, <4>1, <4>2
      <3>3. ServiceInv'
        BY <3>a DEF LifeInv, ServiceInv
      <3>4. \A o \in Object : services'[o].owner \in {services[o].owner, Nil} \ {c}
        BY <3>a, ConstantAssumption DEF ConstantAssumption
      <3>5. \A d \in Conn : Clean(d)'
        BY <2>8, <3>4, LifeTypes, ConstantAssumption
           DEF ConstantAssumption, CleanupServices, LifeInv, Clean
      <3> QED BY <2>2, <3>3, <3>5 DEF LifeInv
    <2> QED BY <1>12, <2>3, <2>4, <2>5, <2>6, <2>7, <2>8 DEF Cleanup
  <1>13. ASSUME NEW o \in Object, SpawnService(o) PROVE LifeInv'
    <2>1. UNCHANGED <<pc, actor, clients, objects, subscriptions, calls, services>>
      BY <1>13 DEF SpawnService
    <2> QED BY <2>1, MapsSame DEF LifeInv, ReaderStage
  <1>14. CASE UNCHANGED vars
    <2>1. UNCHANGED <<pc, actor, clients, objects, subscriptions, calls, services>>
      BY <1>14 DEF vars
    <2> QED BY <2>1, MapsSame DEF LifeInv, ReaderStage
  <1> QED
    BY <1>1, <1>2, <1>3, <1>4, <1>5, <1>6, <1>7, <1>8, <1>9, <1>10, <1>11, <1>12, <1>13, <1>14
       DEF Next, Request, Handler

\* Once cleanup_client has cleared a map of a connection, nothing of that
\* connection comes back into it.
THEOREM Disconnection == Spec => []NoResidue
  <1>1. TypeInv /\ LifeInv => NoResidue
    <2> SUFFICES ASSUME TypeInv, LifeInv PROVE NoResidue
      OBVIOUS
    <2>1. \A o \in Object : services[o].runner \in {Nil, services[o].owner}
      BY DEF LifeInv, ServiceInv
    <2>2. \A c \in Conn : Clean(c) /\ c # Nil
      BY ConstantAssumption DEF ConstantAssumption, LifeInv
    <2> QED BY <2>1, <2>2
       DEF NoResidue, Clean, NotIn, GoneFromClients, GoneFromObjects, GoneFromSubscriptions,
           GoneFromCalls, GoneFromServices
  <1> QED BY <1>1, TypeInit, TypeNext, LifeInit, LifeNext, PTL DEF Spec

\* A service in Running has no waiting calls and belongs to a connection that
\* has not ended.
THEOREM RunningServices == Spec => []RunningServed
  <1>1. TypeInv /\ LifeInv => RunningServed
    <2> SUFFICES ASSUME TypeInv, LifeInv, NEW o \in Object, services[o].state = "Running"
                 PROVE  /\ services[o].pending = {}
                        /\ services[o].runner = services[o].owner
                        /\ actor[services[o].owner] \notin {"absent", "ended"}
      BY DEF RunningServed
    <2>1. services[o].runner \in Conn /\ services[o].pending = {}
          /\ services[o].runner = services[o].owner
      BY ConstantAssumption DEF ConstantAssumption, LifeInv, ServiceInv
    <2> QED BY <2>1 DEF LifeInv, Clean
  <1> QED BY <1>1, TypeInit, TypeNext, LifeInit, LifeNext, PTL DEF Spec

-----------------------------------------------------------------------------
(* A reply travels only towards its caller.                                *)

\* A send that does not carry somebody else's reply.
SendOK(s) == IsReply(s.msg) => origin[s.msg.call] = s.to

\* calls never names a connection other than the one that made the call, and
\* neither does a handler in the middle of handle_call.
RouteInv ==
  /\ \A id \in CallId : calls[id] \in {Nil, origin[id]}
  /\ \A c \in Conn : pc[c] \in {"call_insert", "call_service"} => origin[local[c].call] = c
  /\ ReplyToOrigin

\* At the start no call is in calls and no reply is under way.
LEMMA RouteInit == Init => RouteInv
  <1> SUFFICES ASSUME Init PROVE RouteInv
    OBVIOUS
  <1>1. \A c \in Conn : DOMAIN out[c] = {} /\ DOMAIN chan[c] = {}
    BY DEF Init
  <1> QED BY <1>1 DEF Init, RouteInv, ReplyToOrigin

\* Which messages are replies.
LEMMA Replies ==
  /\ \A id : ~IsReply(CallMsg(id))
  /\ \A id : ResultMsg(id).call = id
  /\ \A id, o : ErrorMsg(id, o).call = id
  /\ \A o : ~IsReply(RegisteredMsg(o))
  /\ \A t : ~IsReply(SubscribedMsg(t))
  /\ \A o, b : ~IsReply(HasObjectMsg(o, b))
  /\ \A t, c, n : ~IsReply(EventMsg(t, c, n))
  /\ \A c, m : To(c, m).to = c /\ To(c, m).msg = m
  BY DEF IsReply, CallMsg, ResultMsg, ErrorMsg, RegisteredMsg, SubscribedMsg,
         HasObjectMsg, EventMsg, To

\* ReplyToOrigin is about chan, out and origin only.
LEMMA RepliesSame ==
  ASSUME RouteInv, UNCHANGED <<chan, out, origin>>
  PROVE  ReplyToOrigin'
  BY DEF RouteInv, ReplyToOrigin

\* A handler that sends something new keeps it if what it sends is in order.
LEMMA RepliesSent ==
  ASSUME TypeInv, RouteInv, NEW c \in Conn, NEW sends, SendAll(c, sends),
         UNCHANGED <<chan, origin>>, \A i \in DOMAIN sends : SendOK(sends[i])
  PROVE  ReplyToOrigin' /\ pc' = [pc EXCEPT ![c] = "send"]
  BY DEF TypeInv, TypeOK, RouteInv, ReplyToOrigin, SendAll, SendOK

\* The handlers in the middle of handle_call are not disturbed by a reader that
\* is not, or no longer, one of them.
LEMMA CallersKept ==
  ASSUME TypeInv, RouteInv, NEW c \in Conn, UNCHANGED origin,
         \/ Return(c)
         \/ \E sends : SendAll(c, sends)
         \/ \E label, l : /\ Continue(c, label, l)
                          /\ label \in {"call_insert", "call_service"} => origin[l.call] = c
  PROVE  \A d \in Conn : pc'[d] \in {"call_insert", "call_service"} => origin'[local'[d].call] = d
  <1>1. /\ pc \in [Conn -> ReaderPc] /\ local \in [Conn -> Local]
        /\ \A d \in Conn : pc[d] \in {"call_insert", "call_service"} => origin[local[d].call] = d
    BY DEF TypeInv, TypeOK, RouteInv
  <1>2. CASE Return(c)
    BY <1>1, <1>2 DEF Return, Continue
  <1>3. ASSUME NEW sends, SendAll(c, sends)
        PROVE  \A d \in Conn : pc'[d] \in {"call_insert", "call_service"} => origin'[local'[d].call] = d
    BY <1>1, <1>3 DEF SendAll
  <1>4. ASSUME NEW label, NEW l, Continue(c, label, l),
               label \in {"call_insert", "call_service"} => origin[l.call] = c
        PROVE  \A d \in Conn : pc'[d] \in {"call_insert", "call_service"} => origin'[local'[d].call] = d
    BY <1>1, <1>4 DEF Continue
  <1> QED BY <1>2, <1>3, <1>4

\* Every action routes replies towards their caller.
LEMMA RouteNext == TypeInv /\ RouteInv /\ [Next]_vars => RouteInv'
  <1> SUFFICES ASSUME TypeInv, RouteInv, [Next]_vars PROVE RouteInv'
    OBVIOUS
  <1> USE DEF maps, task, conn, world, hist
  <1>0. /\ pc \in [Conn -> ReaderPc] /\ calls \in [CallId -> Conn \cup {Nil}]
        /\ chan \in [Conn -> Seq(Message)] /\ out \in [Conn -> Seq(Send)]
        /\ origin \in [CallId -> Conn \cup {Nil}] /\ Nil \notin Conn
    BY ConstantAssumption DEF ConstantAssumption, TypeInv, TypeOK
  <1>1. ASSUME NEW c \in Conn,
               \/ SpawnClient(c) \/ PeerClose(c) \/ WriterShutdown(c)
               \/ CleanupClients(c) \/ CleanupObjects(c) \/ CleanupSubscriptions(c)
               \/ CleanupActiveCalls(c)
        PROVE  RouteInv'
    <2>1. UNCHANGED <<chan, out, origin, calls, local>>
      BY <1>1 DEF SpawnClient, PeerClose, WriterShutdown, CleanupClients, CleanupObjects,
                  CleanupSubscriptions, CleanupActiveCalls
    <2>2. pc' = pc \/ pc' = [pc EXCEPT ![c] = "idle"]
      BY <1>1 DEF SpawnClient, PeerClose, WriterShutdown, CleanupClients, CleanupObjects,
                  CleanupSubscriptions, CleanupActiveCalls
    <2> QED BY <1>0, <2>1, <2>2, RepliesSame DEF RouteInv
  <1>2. ASSUME NEW c \in Conn, NEW o \in Object, RegisterObject(c, o) \/ RegisterService(c, o)
        PROVE  RouteInv'
    <2>1. UNCHANGED <<chan, out, origin, calls>>
      BY <1>2 DEF RegisterObject, RegisterService, Continue
    <2>2. \E label, l : /\ Continue(c, label, l)
                        /\ label \in {"call_insert", "call_service"} => origin[l.call] = c
      BY <1>2 DEF RegisterObject, RegisterService
    <2> QED BY <2>1, <2>2, RepliesSame, CallersKept DEF RouteInv
  <1>3. ASSUME NEW c \in Conn, RegisterObjectServices(c) PROVE RouteInv'
    <2> DEFINE o == local[c].object
               sends(q) == [i \in DOMAIN q |-> To(c, CallMsg(q[i]))] \o <<To(c, RegisteredMsg(o))>>
    <2>1. UNCHANGED <<chan, origin, calls>>
      BY <1>3 DEF RegisterObjectServices
    <2>2. PICK q \in Orderings(services[o].pending) : SendAll(c, sends(q))
      BY <1>3 DEF RegisterObjectServices
    <2>3. q \in Seq(services[o].pending) /\ DOMAIN q = 1..Len(q) /\ Len(q) \in Nat
      <3>1. o \in Object /\ services[o].pending \subseteq CallId
        BY <1>3 DEF RegisterObjectServices, TypeInv, TypeOK, ReaderInv, ServiceEntry
      <3>2. IsFiniteSet(services[o].pending)
        BY <3>1, FS_Subset, ConstantAssumption DEF ConstantAssumption
      <3>3. q \in Seq(services[o].pending)
        BY <2>2, <3>2, OrderingsType
      <3> QED BY <3>3
    <2>4. \A i \in DOMAIN sends(q) : SendOK(sends(q)[i])
      <3>1. \A i \in DOMAIN sends(q) :
              \/ \E id : sends(q)[i] = To(c, CallMsg(id))
              \/ sends(q)[i] = To(c, RegisteredMsg(o))
        <4> DEFINE f == [i \in DOMAIN q |-> To(c, CallMsg(q[i]))]
                   g == <<To(c, RegisteredMsg(o))>>
        <4>1. /\ f \in Seq({To(c, CallMsg(id)) : id \in services[o].pending})
              /\ g \in Seq({To(c, RegisteredMsg(o))})
          BY <2>3
        <4>2. \A i \in 1..Len(f) : \E id : f[i] = To(c, CallMsg(id))
          BY <2>3
        <4>3. \A i \in 1..Len(g) : g[i] = To(c, RegisteredMsg(o))
          OBVIOUS
        <4> HIDE DEF f, g
        <4>4. \A i \in DOMAIN (f \o g) : (f \o g)[i] = IF i <= Len(f) THEN f[i] ELSE g[i - Len(f)]
          BY <4>1
        <4>5. Len(f) \in Nat /\ Len(g) \in Nat /\ DOMAIN (f \o g) = 1..(Len(f) + Len(g))
          BY <4>1
        <4> QED BY <4>2, <4>3, <4>4, <4>5 DEF f, g
      <3> HIDE DEF sends
      <3> QED BY <3>1, Replies DEF SendOK
    <2> HIDE DEF sends
    <2> QED BY <2>1, <2>2, <2>4, RepliesSent, CallersKept DEF RouteInv
  <1>4. ASSUME NEW c \in Conn, \/ RegisterServiceEntry(c) \/ CallAutoStart(c)
                               \/ CallQueue(c) \/ CallRunning(c)
        PROVE  RouteInv'
    <2>1. UNCHANGED <<chan, out, origin, calls>> /\ Return(c)
      BY <1>4 DEF RegisterServiceEntry, CallAutoStart, CallQueue, CallRunning, Return, Continue
    <2> QED BY <2>1, RepliesSame, CallersKept DEF RouteInv
  <1>5. ASSUME NEW c \in Conn, NEW id \in CallId, NEW o \in Object, Call(c, id, o) PROVE RouteInv'
    <2>1. /\ UNCHANGED <<chan, out, calls>> /\ origin[id] = Nil
          /\ origin' = [origin EXCEPT ![id] = c] /\ pc[c] = "idle"
      BY <1>5 DEF Call, Read, Return, Continue
    <2>2. \A k \in CallId : origin[k] # Nil => origin'[k] = origin[k]
      BY <1>0, <2>1
    <2>3. ReplyToOrigin'
      <3>1. \A d \in Conn : \A i \in DOMAIN chan[d] :
              IsReply(chan[d][i]) => chan[d][i].call \in CallId
        BY <1>0, MessageFields DEF IsReply
      <3>2. \A d \in Conn : \A i \in DOMAIN out[d] :
              /\ out[d][i].to \in Conn
              /\ IsReply(out[d][i].msg) => out[d][i].msg.call \in CallId
        BY <1>0, SendTypes, MessageFields DEF IsReply
      <3> QED BY <1>0, <2>1, <2>2, <3>1, <3>2 DEF RouteInv, ReplyToOrigin
    <2>4. \A d \in Conn : pc'[d] \in {"call_insert", "call_service"} => origin'[local'[d].call] = d
      <3> SUFFICES ASSUME NEW d \in Conn, pc'[d] \in {"call_insert", "call_service"}
                   PROVE  origin'[local'[d].call] = d
        OBVIOUS
      <3>1. CASE d = c
        <4> DEFINE l == [NoLocal EXCEPT !.call = id, !.object = o,
                           !.tx = IF objects[o] \in clients THEN objects[o] ELSE Nil]
        <4>a. l.call = id
          BY DEF NoLocal
        <4>1. c \in clients => local'[c].call = id
          <5>1. c \in clients => local' = [local EXCEPT ![c] = l]
            BY <1>5 DEF Call, Continue
          <5>2. local \in [Conn -> Local]
            BY DEF TypeInv, TypeOK
          <5> HIDE DEF l
          <5> QED BY <4>a, <5>1, <5>2
        <4>2. c \in clients
          BY <1>5, <1>0, <3>1 DEF Call, Return, Continue
        <4> QED BY <1>0, <2>1, <3>1, <4>1, <4>2
      <3>2. CASE d # c
        <4>1. pc'[d] = pc[d] /\ local'[d] = local[d]
          BY <1>5, <3>2 DEF Call, Return, Continue, TypeInv, TypeOK
        <4>2. local[d].call \in CallId
          BY <4>1 DEF TypeInv, ReaderInv
        <4> QED BY <1>0, <2>2, <4>1, <4>2 DEF RouteInv
      <3> QED BY <3>1, <3>2
    <2>5. \A k \in CallId : calls'[k] \in {Nil, origin'[k]}
      BY <1>0, <2>1, <2>2 DEF RouteInv
    <2> QED BY <2>3, <2>4, <2>5 DEF RouteInv
  <1>6. ASSUME NEW c \in Conn, CallInsert(c) PROVE RouteInv'
    <2>1. local[c].call \in CallId /\ origin[local[c].call] = c
      BY <1>6 DEF CallInsert, RouteInv, TypeInv, ReaderInv
    <2>2. UNCHANGED <<chan, origin>> /\ calls' = [calls EXCEPT ![local[c].call] = c]
      BY <1>6 DEF CallInsert
    <2>3. \A id \in CallId : calls'[id] \in {Nil, origin'[id]}
      BY <1>0, <2>1, <2>2 DEF RouteInv
    <2>4. CASE local[c].tx # Nil
      <3> DEFINE sends == <<To(local[c].tx, CallMsg(local[c].call))>>
      <3>1. SendAll(c, sends)
        BY <1>6, <2>4 DEF CallInsert
      <3>2. \A i \in DOMAIN sends : SendOK(sends[i])
        BY Replies DEF SendOK
      <3> HIDE DEF sends
      <3> QED BY <2>2, <2>3, <3>1, <3>2, RepliesSent, CallersKept DEF RouteInv
    <2>5. CASE local[c].tx = Nil
      <3>1. Continue(c, "call_service", local[c]) /\ UNCHANGED out
        BY <1>6, <2>5 DEF CallInsert, Continue
      <3> QED BY <2>1, <2>2, <2>3, <3>1, RepliesSame, CallersKept DEF RouteInv
    <2> QED BY <2>4, <2>5
  <1>7. ASSUME NEW c \in Conn, CallUnknown(c) PROVE RouteInv'
    <2> DEFINE sends == <<To(c, ErrorMsg(local[c].call, local[c].object))>>
    <2>1. UNCHANGED <<chan, origin, calls>> /\ SendAll(c, sends)
      BY <1>7 DEF CallUnknown
    <2>2. origin[local[c].call] = c
      BY <1>7 DEF CallUnknown, RouteInv
    <2>3. \A i \in DOMAIN sends : SendOK(sends[i])
      BY <2>2, Replies DEF SendOK
    <2> HIDE DEF sends
    <2> QED BY <2>1, <2>3, RepliesSent, CallersKept DEF RouteInv
  <1>8. ASSUME NEW c \in Conn, NEW id \in CallId, Response(c, id) PROVE RouteInv'
    <2>1. UNCHANGED <<chan, origin>> /\ calls' = [calls EXCEPT ![id] = Nil]
      BY <1>8 DEF Response
    <2>2. \A k \in CallId : calls'[k] \in {Nil, origin'[k]}
      BY <1>0, <2>1 DEF RouteInv
    <2>3. CASE calls[id] # Nil
      <3> DEFINE sends == <<To(calls[id], ResultMsg(id))>>
      <3>1. SendAll(c, sends)
        BY <1>8, <2>3 DEF Response
      <3>2. \A i \in DOMAIN sends : SendOK(sends[i])
        BY <2>3, Replies DEF SendOK, RouteInv
      <3> HIDE DEF sends
      <3> QED BY <2>1, <2>2, <3>1, <3>2, RepliesSent, CallersKept DEF RouteInv
    <2>4. CASE calls[id] = Nil
      <3>1. Return(c) /\ UNCHANGED out
        BY <1>8, <2>4 DEF Response, Return, Continue
      <3> QED BY <2>1, <2>2, <3>1, RepliesSame, CallersKept DEF RouteInv
    <2> QED BY <2>3, <2>4
  <1>9. ASSUME NEW c \in Conn, \/ \E t \in Topic : Subscribe(c, t)
                               \/ \E o \in Object : HasObject(c, o)
        PROVE  RouteInv'
    <2>1. UNCHANGED <<chan, origin, calls>>
      BY <1>9 DEF Subscribe, HasObject
    <2>2. PICK s : SendAll(c, <<s>>) /\ ~IsReply(s.msg)
      BY <1>9, Replies DEF Subscribe, HasObject
    <2>3. \A i \in DOMAIN <<s>> : SendOK(<<s>>[i])
      BY <2>2 DEF SendOK
    <2> QED BY <2>1, <2>2, <2>3, RepliesSent, CallersKept DEF RouteInv
  <1>10. ASSUME NEW c \in Conn, \/ \E t \in Topic : Publish(c, t)
                                \/ ReadError(c)
         PROVE  RouteInv'
    <2>1. UNCHANGED <<chan, out, origin, calls>>
      BY <1>10 DEF Publish, ReadError, Return, Continue
    <2>2. \E label, l : /\ Continue(c, label, l)
                        /\ label \in {"call_insert", "call_service"} => origin[l.call] = c
      <3>1. CASE ReadError(c)
        BY <3>1 DEF ReadError
      <3>2. ASSUME NEW t \in Topic, Publish(c, t)
            PROVE  Return(c) \/ \E l : Continue(c, "publish", l)
        <4>1. CASE subscriptions[t] # {}
          <5>1. Continue(c, "publish", [NoLocal EXCEPT !.topic = t, !.subs = subscriptions[t]])
            BY <3>2, <4>1 DEF Publish
          <5> QED BY <5>1
        <4>2. CASE subscriptions[t] = {}
          BY <3>2, <4>2 DEF Publish
        <4> QED BY <4>1, <4>2
      <3> QED BY <1>10, <3>1, <3>2 DEF Return
    <2> QED BY <2>1, <2>2, RepliesSame, CallersKept DEF RouteInv
  <1>11. ASSUME NEW c \in Conn, PublishSenders(c) PROVE RouteInv'
    <2> DEFINE event == EventMsg(local[c].topic, c, reads[c])
               present == local[c].subs \cap clients
               sends(q) == [i \in DOMAIN q |-> To(q[i], event)]
    <2>1. UNCHANGED <<chan, origin, calls>>
      BY <1>11 DEF PublishSenders
    <2>2. CASE present = {}
      <3>1. Return(c) /\ UNCHANGED out
        BY <1>11, <2>2 DEF PublishSenders, Return, Continue
      <3> QED BY <2>1, <3>1, RepliesSame, CallersKept DEF RouteInv
    <2>3. CASE present # {}
      <3>1. PICK q \in Orderings(present) : SendAll(c, sends(q))
        BY <1>11, <2>3 DEF PublishSenders
      <3>2. \A i \in DOMAIN sends(q) : SendOK(sends(q)[i])
        <4> HIDE DEF event
        <4>1. \A i \in DOMAIN sends(q) : sends(q)[i] = To(q[i], event)
          OBVIOUS
        <4>2. ~IsReply(event)
          BY Replies DEF event
        <4> HIDE DEF sends
        <4> QED BY <4>1, <4>2, Replies DEF SendOK
      <3> HIDE DEF sends
      <3> QED BY <2>1, <3>1, <3>2, RepliesSent, CallersKept DEF RouteInv
    <2> QED BY <2>2, <2>3
  <1>12. ASSUME NEW c \in Conn, SendNext(c) PROVE RouteInv'
    <2> DEFINE s == Head(out[c])
    <2>1. /\ out[c] \in Seq(Send) /\ out[c] # <<>>
          /\ UNCHANGED <<origin, calls, local>> /\ out' = [out EXCEPT ![c] = Tail(@)]
      BY <1>12 DEF SendNext, TypeInv, TypeOK, ReaderInv
    <2>2. SendOK(s)
      BY <2>1 DEF RouteInv, ReplyToOrigin, SendOK
    <2>3. s.to \in Conn
      BY <2>1, SendTypes
    <2>4. \A d \in Conn : \A i \in DOMAIN out'[d] :
            IsReply(out'[d][i].msg) => origin[out'[d][i].msg.call] = out'[d][i].to
      <3>1. \A i \in DOMAIN Tail(out[c]) : i + 1 \in DOMAIN out[c] /\ Tail(out[c])[i] = out[c][i + 1]
        BY <2>1
      <3>2. \A i \in DOMAIN out'[c] : i + 1 \in DOMAIN out[c] /\ out'[c][i] = out[c][i + 1]
        BY <1>0, <2>1, <3>1
      <3>3. \A d \in Conn \ {c} : out'[d] = out[d]
        BY <1>0, <2>1
      <3> QED BY <3>2, <3>3 DEF RouteInv, ReplyToOrigin
    <2>5. \A d \in Conn : \A i \in DOMAIN chan'[d] :
            IsReply(chan'[d][i]) => origin[chan'[d][i].call] = d
      <3>1. CASE chan' = chan
        BY <3>1 DEF RouteInv, ReplyToOrigin
      <3>2. CASE chan' = [chan EXCEPT ![s.to] = Append(@, s.msg)]
        <4>1. chan'[s.to] = Append(chan[s.to], s.msg) /\ \A d \in Conn \ {s.to} : chan'[d] = chan[d]
          BY <1>0, <2>3, <3>2
        <4>2. \A i \in DOMAIN Append(chan[s.to], s.msg) :
                \/ i \in DOMAIN chan[s.to] /\ Append(chan[s.to], s.msg)[i] = chan[s.to][i]
                \/ Append(chan[s.to], s.msg)[i] = s.msg
          BY <1>0, <2>3
        <4>3. \A i \in DOMAIN chan[s.to] : IsReply(chan[s.to][i]) => origin[chan[s.to][i].call] = s.to
          BY <2>3 DEF RouteInv, ReplyToOrigin
        <4>4. IsReply(s.msg) => origin[s.msg.call] = s.to
          BY <2>2 DEF SendOK
        <4>5. \A d \in Conn \ {s.to} : \A i \in DOMAIN chan'[d] :
                IsReply(chan'[d][i]) => origin[chan'[d][i].call] = d
          BY <4>1 DEF RouteInv, ReplyToOrigin
        <4> HIDE DEF s
        <4>6. \A i \in DOMAIN chan'[s.to] :
                IsReply(chan'[s.to][i]) => origin[chan'[s.to][i].call] = s.to
          BY <4>1, <4>2, <4>3, <4>4
        <4> QED BY <4>5, <4>6
      <3> QED BY <1>12, <3>1, <3>2 DEF SendNext
    <2>6. ReplyToOrigin'
      BY <2>1, <2>4, <2>5 DEF ReplyToOrigin
    <2>7. \A d \in Conn : pc'[d] \in {"call_insert", "call_service"} => pc'[d] = pc[d]
      BY <1>0, <1>12 DEF SendNext
    <2> QED BY <2>1, <2>6, <2>7 DEF RouteInv
  <1>13. ASSUME NEW c \in Conn, WriterWrite(c) \/ WriterFail(c) PROVE RouteInv'
    <2>1. /\ chan[c] \in Seq(Message) /\ chan[c] # <<>>
          /\ chan' = [chan EXCEPT ![c] = Tail(@)] /\ UNCHANGED <<out, origin, calls, pc, local>>
      BY <1>0, <1>13 DEF WriterWrite, WriterFail
    <2>2. \A i \in DOMAIN Tail(chan[c]) : i + 1 \in DOMAIN chan[c] /\ Tail(chan[c])[i] = chan[c][i + 1]
      BY <2>1
    <2>3. \A d \in Conn : \A i \in DOMAIN chan'[d] :
            IsReply(chan'[d][i]) => origin[chan'[d][i].call] = d
      <3>1. \A i \in DOMAIN chan'[c] : i + 1 \in DOMAIN chan[c] /\ chan'[c][i] = chan[c][i + 1]
        BY <1>0, <2>1, <2>2
      <3>2. \A d \in Conn \ {c} : chan'[d] = chan[d]
        BY <1>0, <2>1
      <3> QED BY <3>1, <3>2 DEF RouteInv, ReplyToOrigin
    <2> QED BY <2>1, <2>3 DEF RouteInv, ReplyToOrigin
  <1>14. ASSUME NEW c \in Conn, CleanupCalls(c) PROVE RouteInv'
    <2>1. UNCHANGED <<chan, out, origin, pc, local>> /\ \A id \in CallId : calls'[id] \in {Nil, calls[id]}
      BY <1>14 DEF CleanupCalls
    <2> QED BY <2>1, RepliesSame DEF RouteInv
  <1>15. ASSUME NEW c \in Conn, CleanupServices(c) PROVE RouteInv'
    <2>1. UNCHANGED <<out, origin, calls, pc, local>>
      BY <1>15 DEF CleanupServices
    <2>2. \A d \in Conn : chan'[d] = chan[d] \/ DOMAIN chan'[d] = {}
      BY <1>0, <1>15 DEF CleanupServices
    <2> QED BY <2>1, <2>2 DEF RouteInv, ReplyToOrigin
  <1>16. ASSUME NEW o \in Object, SpawnService(o) PROVE RouteInv'
    <2>1. UNCHANGED <<chan, out, origin, calls, pc, local>>
      BY <1>16 DEF SpawnService
    <2> QED BY <2>1, RepliesSame DEF RouteInv
  <1>17. CASE UNCHANGED vars
    <2>1. UNCHANGED <<chan, out, origin, calls, pc, local>>
      BY <1>17 DEF vars
    <2> QED BY <2>1, RepliesSame DEF RouteInv
  <1> QED
    BY <1>1, <1>2, <1>3, <1>4, <1>5, <1>6, <1>7, <1>8, <1>9, <1>10, <1>11, <1>12, <1>13,
       <1>14, <1>15, <1>16, <1>17 DEF Next, Request, Handler, Writer, Cleanup

\* A Result or an Error is only ever on its way to the connection that made the
\* call.
THEOREM ReplyRouting == Spec => []ReplyToOrigin
  <1>1. RouteInv => ReplyToOrigin
    BY DEF RouteInv
  <1> QED BY <1>1, TypeInit, TypeNext, RouteInit, RouteNext, PTL DEF Spec
=============================================================================
