---------------------------- MODULE StallProofs ----------------------------
(***************************************************************************)
(* Proofs about who waits for whom in the broker: everything that waits    *)
(* waits for a task that can take a step, except in and behind the rings   *)
(* and the deaf connections of BrokerProperties; and a ring never opens.   *)
(***************************************************************************)
EXTENDS BrokerProofs

-----------------------------------------------------------------------------
(* The inductive invariant.                                                *)

\* run() cleans up only after the writer loop, and spawn_client starts the
\* reader with the actor.
LoopsInv ==
  \A c \in Conn : /\ actor[c] \notin {"absent", "running"} => writer[c] = "stopped"
                  /\ actor[c] = "running" => pc[c] # "none"

\* A handler keeps the services guard only while it sends.
GuardInv == servicesHolder # Nil => pc[servicesHolder] = "send"

\* Senders are cloned from maps that only hold connections with an actor.
TargetInv ==
  \A c \in Conn : /\ \A i \in DOMAIN out[c] : actor[out[c][i].to] # "absent"
                  /\ local[c].tx # Nil => actor[local[c].tx] # "absent"

StallInv == LoopsInv /\ GuardInv /\ TargetInv

\* Nobody is connected at the start.
LEMMA StallInit == Init => StallInv
  BY DEF Init, StallInv, LoopsInv, GuardInv, TargetInv, NoLocal

\* The types that the waiting depends on.
LEMMA StallTypes ==
  TypeInv => /\ actor \in [Conn -> ActorPc] /\ pc \in [Conn -> ReaderPc]
             /\ local \in [Conn -> Local] /\ out \in [Conn -> Seq(Send)]
             /\ writer \in [Conn -> {"writing", "stopped"}]
             /\ chan \in [Conn -> Seq(Message)]
             /\ \A c \in Conn : Len(chan[c]) \in 0..ChanCap
             /\ servicesHolder \in Conn \cup {Nil}
             /\ \A c \in Conn : pc[c] = "send" => out[c] # <<>>
  <1> SUFFICES ASSUME TypeInv
               PROVE  \A c \in Conn : Len(chan[c]) \in 0..ChanCap
    BY DEF TypeInv, TypeOK, ReaderInv
  <1> TAKE c \in Conn
  <1>1. chan[c] \in Seq(Message) /\ Len(chan[c]) <= ChanCap
    BY DEF TypeInv, TypeOK
  <1>2. Len(chan[c]) \in Nat
    BY <1>1
  <1> QED BY <1>1, <1>2, ConstantAssumption DEF ConstantAssumption

\* The step of a reader disturbs neither loop: it starts from a running actor
\* and leaves the reader somewhere.
LEMMA LoopsReader ==
  ASSUME TypeInv, LifeInv, LoopsInv, NEW c \in Conn,
         Request(c) \/ Handler(c) \/ ReadError(c) \/ \E id \in CallId : Response(c, id)
  PROVE  /\ actor[c] = "running" /\ UNCHANGED <<actor, writer>> /\ LoopsInv'
  <1>1. ReaderStep(c)
    BY HandlersStep
  <1>2. actor[c] = "running" /\ actor' = actor
    BY <1>1, ReaderStepStages DEF ReaderStep
  <1>3. writer' = writer
    <2> USE DEF conn
    <2>1. Request(c) => writer' = writer
      BY DEF Request, RegisterObject, RegisterService, HasObject, Call, Subscribe, Publish
    <2>2. Handler(c) => writer' = writer
      BY DEF Handler, RegisterObjectServices, RegisterServiceEntry, CallInsert, CallAutoStart,
             CallQueue, CallRunning, CallUnknown, PublishSenders, SendNext
    <2>3. ReadError(c) \/ (\E id \in CallId : Response(c, id)) => writer' = writer
      BY DEF ReadError, Response
    <2> QED BY <2>1, <2>2, <2>3
  <1> QED BY <1>1, <1>2, <1>3, StallTypes DEF ReaderStep, LoopsInv

\* Connections that can be sent to: the owner in the clients map, the caller of a
\* call, and a connection that runs.
LEMMA Reachable ==
  ASSUME LifeInv, NEW c \in Conn
  PROVE  /\ c \in clients => actor[c] # "absent"
         /\ \A id \in CallId : calls[id] = c => actor[c] # "absent"
  BY DEF LifeInv, Clean

\* A handler that returns or goes on has addressed nobody new.
LEMMA ContinueTargets ==
  ASSUME TypeInv, TargetInv, NEW c \in Conn, NEW label, NEW l \in Local,
         Continue(c, label, l), UNCHANGED actor,
         l.tx # Nil => actor[l.tx] # "absent"
  PROVE  TargetInv'
  BY StallTypes DEF Continue, TargetInv

\* Nor has a handler that returns.
LEMMA ReturnTargets ==
  ASSUME TypeInv, TargetInv, NEW c \in Conn, Return(c), UNCHANGED actor
  PROVE  TargetInv'
  BY ContinueTargets, NoLocalType DEF Return, NoLocal

\* A handler may send to connections that have an actor.
LEMMA SendTargets ==
  ASSUME TypeInv, TargetInv, NEW c \in Conn, NEW sends, SendAll(c, sends), UNCHANGED actor,
         \A i \in DOMAIN sends : actor[sends[i].to] # "absent"
  PROVE  TargetInv'
  BY StallTypes DEF SendAll, TargetInv, NoLocal

\* A handler whose only send goes to d.
LEMMA SendOneTarget ==
  ASSUME TypeInv, TargetInv, NEW c \in Conn, NEW d \in Conn, NEW m, SendAll(c, <<To(d, m)>>),
         UNCHANGED actor, actor[d] # "absent"
  PROVE  TargetInv'
  <1>1. \A i \in DOMAIN <<To(d, m)>> : <<To(d, m)>>[i].to = d
    BY DEF To
  <1> QED BY <1>1, SendTargets

\* Whatever a reader does, it sends to connections that have an actor.
LEMMA TargetReader ==
  ASSUME TypeInv, LifeInv, LoopsInv, TargetInv, NEW c \in Conn,
         Request(c) \/ Handler(c) \/ ReadError(c) \/ \E id \in CallId : Response(c, id)
  PROVE  TargetInv'
  <1>a. actor[c] # "absent" /\ UNCHANGED actor
    BY LoopsReader
  <1>1. ASSUME NEW o \in Object, RegisterObject(c, o) \/ RegisterService(c, o) PROVE TargetInv'
    <2>1. [NoLocal EXCEPT !.object = o] \in Local /\ [NoLocal EXCEPT !.object = o].tx = Nil
      BY DEF NoLocal, Local
    <2> QED BY <1>a, <1>1, <2>1, ContinueTargets DEF RegisterObject, RegisterService
  <1>2. ASSUME NEW o \in Object, HasObject(c, o) PROVE TargetInv'
    BY <1>a, <1>2, SendOneTarget DEF HasObject
  <1>3. ASSUME NEW o \in Object, NEW id \in CallId, Call(c, id, o) PROVE TargetInv'
    <2> DEFINE l == [NoLocal EXCEPT !.call = id, !.object = o,
                            !.tx = IF objects[o] \in clients THEN objects[o] ELSE Nil]
    <2>1. l \in Local /\ l.tx = IF objects[o] \in clients THEN objects[o] ELSE Nil
      BY DEF NoLocal, Local, TypeInv, TypeOK
    <2> HIDE DEF l
    <2>2. clients \subseteq Conn
      BY DEF TypeInv, TypeOK
    <2>3. l.tx # Nil => actor[l.tx] # "absent"
      BY <2>1, <2>2, Reachable
    <2>4. Continue(c, "call_insert", l) \/ Return(c)
      BY <1>3 DEF Call, l
    <2> QED BY <1>a, <2>1, <2>3, <2>4, ContinueTargets, ReturnTargets
  <1>4. ASSUME NEW t \in Topic, Subscribe(c, t) PROVE TargetInv'
    BY <1>a, <1>4, SendOneTarget DEF Subscribe
  <1>5. ASSUME NEW t \in Topic, Publish(c, t) PROVE TargetInv'
    <2> DEFINE l == [NoLocal EXCEPT !.topic = t, !.subs = subscriptions[t]]
    <2>1. l \in Local /\ l.tx = Nil
      BY DEF NoLocal, Local, TypeInv, TypeOK
    <2> HIDE DEF l
    <2>2. Continue(c, "publish", l) \/ Return(c)
      BY <1>5 DEF Publish, l
    <2> QED BY <1>a, <2>1, <2>2, ContinueTargets, ReturnTargets
  <1>6. ASSUME RegisterObjectServices(c) PROVE TargetInv'
    <2> DEFINE o == local[c].object
               calls_(q) == [i \in DOMAIN q |-> To(c, CallMsg(q[i]))]
               sends(q) == calls_(q) \o <<To(c, RegisteredMsg(o))>>
    <2>1. PICK q \in Orderings(services[o].pending) : SendAll(c, sends(q))
      BY <1>6 DEF RegisterObjectServices
    <2>2. o \in Object /\ services[o].pending \in SUBSET CallId
      BY <1>6 DEF RegisterObjectServices, TypeInv, TypeOK, ReaderInv, ServiceEntry
    <2>3. IsFiniteSet(services[o].pending)
      BY <2>2, FS_Subset, ConstantAssumption DEF ConstantAssumption
    <2> DEFINE ToC == {s \in Send : s.to = c}
    <2>4. calls_(q) \in Seq(ToC)
      <3>1. \A i \in DOMAIN q : To(c, CallMsg(q[i])) \in ToC
        BY <2>1, <2>2, <2>3, OrderingsType, MessageTypes, SendTypes DEF To
      <3> QED BY <2>1, <2>3, <3>1, OrderingsType
    <2>5. To(c, RegisteredMsg(o)) \in ToC
      BY <2>2, MessageTypes, SendTypes DEF To
    <2> HIDE DEF calls_
    <2>6. sends(q) \in Seq(ToC)
      BY <2>4, <2>5
    <2> HIDE DEF sends
    <2>7. \A i \in DOMAIN sends(q) : sends(q)[i].to = c
      BY <2>6
    <2> QED BY <1>a, <2>1, <2>7, SendTargets
  <1>7. ASSUME RegisterServiceEntry(c) \/ CallAutoStart(c) \/ CallQueue(c) \/ CallRunning(c)
        PROVE  TargetInv'
    BY <1>a, <1>7, ReturnTargets DEF RegisterServiceEntry, CallAutoStart, CallQueue, CallRunning
  <1>8. ASSUME CallInsert(c) PROVE TargetInv'
    <2>1. local[c] \in Local
      BY StallTypes
    <2>2. local[c].tx # Nil => local[c].tx \in Conn /\ actor[local[c].tx] # "absent"
      BY <2>1 DEF TargetInv, Local
    <2>3. CASE local[c].tx # Nil
      BY <1>a, <1>8, <2>2, <2>3, SendOneTarget DEF CallInsert
    <2>4. CASE local[c].tx = Nil
      BY <1>a, <1>8, <2>1, <2>2, <2>4, ContinueTargets DEF CallInsert
    <2> QED BY <2>3, <2>4
  <1>9. ASSUME CallUnknown(c) PROVE TargetInv'
    BY <1>a, <1>9, SendOneTarget DEF CallUnknown
  <1>10. ASSUME PublishSenders(c) PROVE TargetInv'
    <2> DEFINE event == EventMsg(local[c].topic, c, reads[c])
               present == local[c].subs \cap clients
               sends(q) == [i \in DOMAIN q |-> To(q[i], event)]
    <2>1. present \subseteq Conn /\ \A d \in present : actor[d] # "absent"
      BY Reachable DEF TypeInv, TypeOK
    <2>2. CASE present = {}
      BY <1>a, <1>10, <2>2, ReturnTargets DEF PublishSenders
    <2>3. CASE present # {}
      <3>1. PICK q \in Orderings(present) : SendAll(c, sends(q))
        BY <1>10, <2>3 DEF PublishSenders
      <3>2. IsFiniteSet(present)
        BY <2>1, FS_Subset, ConstantAssumption DEF ConstantAssumption
      <3> HIDE DEF present
      <3>3. \A i \in DOMAIN q : q[i] \in present
        BY <3>1, <3>2, OrderingsType
      <3>4. \A i \in DOMAIN sends(q) : sends(q)[i].to \in present
        BY <3>3 DEF To
      <3> HIDE DEF sends
      <3> QED BY <1>a, <2>1, <3>1, <3>4, SendTargets
    <2> QED BY <2>2, <2>3
  <1>11. ASSUME SendNext(c) PROVE TargetInv'
    <2>1. out[c] \in Seq(Send) /\ out[c] # <<>> /\ out' = [out EXCEPT ![c] = Tail(@)]
      BY <1>11, StallTypes DEF SendNext
    <2>2. \A i \in DOMAIN Tail(out[c]) : i + 1 \in DOMAIN out[c] /\ Tail(out[c])[i] = out[c][i + 1]
      BY <2>1
    <2>3. UNCHANGED local
      BY <1>11 DEF SendNext
    <2> QED BY <1>a, <2>1, <2>2, <2>3, StallTypes DEF TargetInv
  <1>12. ASSUME NEW id \in CallId, Response(c, id) PROVE TargetInv'
    <2>1. CASE calls[id] # Nil
      <3>1. calls[id] \in Conn
        BY <2>1, LifeTypes
      <3>2. actor[calls[id]] # "absent"
        BY <3>1, Reachable
      <3> QED BY <1>a, <1>12, <2>1, <3>1, <3>2, SendOneTarget DEF Response
    <2>2. CASE calls[id] = Nil
      BY <1>a, <1>12, <2>2, ReturnTargets DEF Response
    <2> QED BY <2>1, <2>2
  <1>13. ASSUME ReadError(c) PROVE TargetInv'
    BY <1>a, <1>13, ContinueTargets, NoLocalType DEF ReadError, NoLocal
  <1> QED
    BY <1>1, <1>2, <1>3, <1>4, <1>5, <1>6, <1>7, <1>8, <1>9, <1>10, <1>11, <1>12, <1>13
       DEF Request, Handler

\* The reader that holds the guard is sending, and drops it with its last send;
\* the others cannot take it.
LEMMA GuardReader ==
  ASSUME TypeInv, GuardInv, NEW c \in Conn,
         Request(c) \/ Handler(c) \/ ReadError(c) \/ \E id \in CallId : Response(c, id)
  PROVE  GuardInv'
  <1> USE DEF maps, conn
  <1>1. CASE Request(c) \/ ReadError(c) \/ \E id \in CallId : Response(c, id)
    <2>1. pc[c] = "idle" /\ UNCHANGED servicesHolder
      BY <1>1 DEF Request, RegisterObject, RegisterService, HasObject, Call, Subscribe, Publish,
                  ReadError, Response, Read
    <2>2. ReaderStep(c)
      BY <1>1, HandlersStep
    <2> QED BY <2>1, <2>2, StallTypes DEF ReaderStep, GuardInv
  <1>2. CASE SendNext(c)
    <2>1. CASE Len(out[c]) = 1
      BY <1>2, <2>1, StallTypes DEF SendNext, GuardInv
    <2>2. CASE Len(out[c]) # 1
      BY <1>2, <2>2, StallTypes DEF SendNext, GuardInv
    <2> QED BY <2>1, <2>2
  <1>3. CASE CallUnknown(c)
    BY <1>3, StallTypes DEF CallUnknown, SendAll, GuardInv
  <1>4. CASE Handler(c) /\ ~SendNext(c) /\ ~CallUnknown(c)
    <2>1. pc[c] # "send" /\ UNCHANGED servicesHolder
      BY <1>4 DEF Handler, RegisterObjectServices, RegisterServiceEntry, CallInsert, CallAutoStart,
                  CallQueue, CallRunning, PublishSenders
    <2>2. ReaderStep(c)
      BY <1>4, HandlersStep
    <2> QED BY <2>1, <2>2, StallTypes DEF ReaderStep, GuardInv
  <1> QED BY <1>1, <1>2, <1>3, <1>4

\* Every action keeps the invariant.
LEMMA StallNext == TypeInv /\ LifeInv /\ StallInv /\ [Next]_vars => StallInv'
  <1> SUFFICES ASSUME TypeInv, LifeInv, StallInv, [Next]_vars PROVE StallInv'
    OBVIOUS
  <1> USE DEF StallInv
  <1>1. ASSUME NEW c \in Conn,
               Request(c) \/ Handler(c) \/ ReadError(c) \/ \E id \in CallId : Response(c, id)
        PROVE  StallInv'
    BY <1>1, LoopsReader, TargetReader, GuardReader
  <1>2. ASSUME NEW c \in Conn, SpawnClient(c) PROVE StallInv'
    <2>1. pc[c] = "none"
      BY <1>2 DEF SpawnClient, LifeInv, ReaderStage
    <2> QED BY <1>2, <2>1, StallTypes DEF SpawnClient, LoopsInv, GuardInv, TargetInv
  <1>3. ASSUME NEW c \in Conn, PeerClose(c) PROVE StallInv'
    BY <1>3 DEF PeerClose, maps, task, conn, LoopsInv, GuardInv, TargetInv
  <1>4. ASSUME NEW c \in Conn, Writer(c) PROVE StallInv'
    BY <1>4, StallTypes DEF Writer, WriterWrite, WriterFail, WriterShutdown, maps, task,
                            LoopsInv, GuardInv, TargetInv
  <1>5. ASSUME NEW c \in Conn, Cleanup(c) PROVE StallInv'
    <2>1. /\ UNCHANGED <<servicesHolder, pc, local, out, writer>>
          /\ \E st \in ActorPc \ {"absent", "running"} : actor' = [actor EXCEPT ![c] = st]
          /\ actor[c] = "running" => writer[c] = "stopped"
          /\ actor[c] # "absent"
      BY <1>5 DEF Cleanup, CleanupClients, CleanupObjects, CleanupSubscriptions, CleanupCalls,
                  CleanupActiveCalls, CleanupServices, maps, task, ActorPc
    <2> QED BY <2>1, StallTypes DEF LoopsInv, GuardInv, TargetInv
  <1>6. ASSUME NEW o \in Object, SpawnService(o) PROVE StallInv'
    BY <1>6 DEF SpawnService, maps, task, conn, LoopsInv, GuardInv, TargetInv
  <1>7. CASE UNCHANGED vars
    BY <1>7 DEF vars, maps, task, conn, LoopsInv, GuardInv, TargetInv
  <1> QED BY <1>1, <1>2, <1>3, <1>4, <1>5, <1>6, <1>7 DEF Next

-----------------------------------------------------------------------------
(* No gridlock but the rings.                                              *)

AllInv == TypeInv /\ LifeInv /\ StallInv

\* A connection that needs the guard and cannot take it is held by the
\* connection that has it, which has a handler to finish.
LEMMA LockHeld ==
  ASSUME AllInv, NEW a \in Conn, NeedsServices(a), ~CanMove(a)
  PROVE  \E d \in Awaits(a) : Held(a, d) /\ Unfinished(d)
  <1> DEFINE d == servicesHolder
  <1>1. d \in Conn
    BY StallTypes DEF AllInv, CanMove
  <1>2. pc[d] = "send"
    BY <1>1, ConstantAssumption DEF ConstantAssumption, AllInv, StallInv, GuardInv
  <1>3. LockWaits(a, d) /\ d \in Awaits(a)
    BY <1>1 DEF LockWaits, Awaits
  <1>4. actor[d] = "running"
    BY <1>1, <1>2, Reading DEF AllInv
  <1> QED BY <1>2, <1>3, <1>4 DEF Held, Unfinished

\* A connection that cannot send, to one that cannot move either, is held by it:
\* the channel is full, so its writer would move if it had not stopped.
LEMMA SendHeld ==
  ASSUME AllInv, NEW a \in Conn, pc[a] = "send", ~CanMove(a)
  PROVE  \E d \in Awaits(a) : CanMove(d) \/ (Held(a, d) /\ (Unfinished(d) \/ Deaf(d)))
  <1> DEFINE d == Head(out[a]).to
  <1>1. SendWaits(a, d)
    BY DEF CanMove
  <1>2. out[a] \in Seq(Send) /\ out[a] # <<>>
    BY StallTypes DEF AllInv
  <1>3. d \in Conn /\ actor[d] # "absent"
    <2>1. 1 \in DOMAIN out[a] /\ out[a][1] = Head(out[a]) /\ Head(out[a]) \in Send
      BY <1>2
    <2> QED BY <2>1, SendTypes DEF AllInv, StallInv, TargetInv
  <1>4. d \in Awaits(a)
    BY <1>1, <1>3 DEF Awaits
  <1> HIDE DEF d
  <1>5. CASE writer[d] = "stopped"
    BY <1>1, <1>3, <1>4, <1>5 DEF Held, SendWaits, Unfinished, Deaf
  <1>6. CASE writer[d] # "stopped"
    <2>1. writer[d] = "writing"
      BY <1>3, <1>6, StallTypes DEF AllInv
    <2>2. actor[d] = "running"
      BY <1>3, <1>6 DEF AllInv, StallInv, LoopsInv
    <2>3. chan[d] # <<>>
      <3>1. Len(chan[d]) # 0
        BY <1>1, ConstantAssumption DEF SendWaits, ConstantAssumption
      <3> QED BY <3>1
    <2>4. CanMove(d)
      BY <2>1, <2>2, <2>3 DEF CanMove
    <2> QED BY <1>4, <2>4
  <1> QED BY <1>5, <1>6

\* Whoever has something to do can move, or waits for somebody who can, or is
\* held by somebody who has something to do as well or is deaf.
LEMMA HeldByUnfinished ==
  ASSUME AllInv, NEW a \in Conn, Unfinished(a), ~CanMove(a)
  PROVE  \E d \in Awaits(a) : CanMove(d) \/ (Held(a, d) /\ (Unfinished(d) \/ Deaf(d)))
  <1>1. pc[a] \in ReaderPc /\ actor[a] \in ActorPc /\ writer[a] \in {"writing", "stopped"}
    BY StallTypes DEF AllInv
  <1>2. actor[a] \in {"running", "services"}
    BY <1>1 DEF Unfinished, CanMove, ActorPc
  <1>3. CASE NeedsServices(a)
    BY <1>3, LockHeld
  <1>4. CASE pc[a] = "send"
    BY <1>4, SendHeld
  <1>5. CASE ~NeedsServices(a) /\ pc[a] # "send"
    <2>1. actor[a] = "running" /\ pc[a] # "none"
      BY <1>2, <1>5 DEF NeedsServices, AllInv, StallInv, LoopsInv
    <2>2. pc[a] \in {"idle", "call_insert", "publish", "done"}
      BY <1>1, <1>5, <2>1 DEF NeedsServices, ReaderPc
    <2>3. pc[a] = "idle" => peer[a] = "closed"
      <3>1. peer[a] \in {"open", "closed"}
        BY DEF AllInv, TypeInv, TypeOK
      <3> QED BY <2>1, <3>1 DEF Unfinished
    <2> QED BY <1>1, <2>1, <2>2, <2>3 DEF CanMove
  <1> QED BY <1>3, <1>4, <1>5

\* So the connections of a closed set that cannot move and have something to do,
\* or are deaf, are stuck.
LEMMA GridlockStuck ==
  ASSUME AllInv, NEW c \in Conn, Unfinished(c), NEW S \in SUBSET Conn, c \in S,
         \A a \in S : Awaits(a) \subseteq S, \A a \in S : ~CanMove(a)
  PROVE  c \in Stuck
  <1> DEFINE T == {a \in S : Unfinished(a) \/ Deaf(a)}
  <1>1. ASSUME NEW a \in T PROVE Deaf(a) \/ \E d \in T : Held(a, d)
    <2>1. CASE Deaf(a)
      BY <2>1
    <2>2. CASE Unfinished(a)
      <3>1. PICK d \in Awaits(a) : CanMove(d) \/ (Held(a, d) /\ (Unfinished(d) \/ Deaf(d)))
        BY <2>2, HeldByUnfinished
      <3> QED BY <3>1
    <2> QED BY <2>1, <2>2
  <1>2. T \in SUBSET Conn /\ c \in T
    OBVIOUS
  <1> QED BY <1>1, <1>2 DEF Stuck

\* The invariants together.
LEMMA AllInvariant == Spec => []AllInv
  <1>1. Init => AllInv
    BY TypeInit, LifeInit, StallInit DEF AllInv
  <1>2. AllInv /\ [Next]_vars => AllInv'
    BY TypeNext, LifeNext, StallNext DEF AllInv
  <1> QED BY <1>1, <1>2, PTL DEF Spec

\* Whoever waits, waits for a task that can take a step, unless it is stuck in or
\* behind a ring of stopped writers or a deaf connection: the five mutexes and the
\* bounded channels have no other deadlock, however many connections there are.
THEOREM Gridlock == Spec => []NoGridlock
  <1>1. AllInv => NoGridlock
    BY GridlockStuck DEF NoGridlock
  <1> QED BY <1>1, AllInvariant, PTL

-----------------------------------------------------------------------------
(* A ring never opens.                                                     *)

\* A reader that waits can take no step, nor can its connection be cleaned up.
LEMMA HeldReader ==
  ASSUME AllInv, NEW c \in Conn, NEW d \in Conn, Held(c, d)
  PROVE  /\ ~(Request(c) \/ Handler(c) \/ ReadError(c) \/ \E id \in CallId : Response(c, id))
         /\ ~CleanupServices(c)
         /\ pc[c] = "send" => actor[c] = "running"
  <1>1. pc[c] = "send" => actor[c] = "running"
    BY Reading DEF AllInv
  <1>2. CASE SendWaits(c, d)
    <2>1. ~SendNext(c)
      <3>1. Len(chan[d]) = ChanCap /\ ChanCap \in Nat
        BY <1>2, ConstantAssumption DEF ConstantAssumption, SendWaits
      <3> QED BY <1>2, <3>1 DEF SendWaits, SendNext
    <2> QED BY <1>1, <1>2, <2>1
          DEF SendWaits, Request, RegisterObject, RegisterService, HasObject, Call, Subscribe,
              Publish, Read, Handler, RegisterObjectServices, RegisterServiceEntry, CallInsert,
              CallAutoStart, CallQueue, CallRunning, CallUnknown, PublishSenders, ReadError,
              Response, CleanupServices
  <1>3. CASE LockWaits(c, d)
    <2>1. servicesHolder # Nil
      BY <1>3, ConstantAssumption DEF ConstantAssumption, LockWaits
    <2>2. actor[c] = "services" => pc[c] = "done"
      BY DEF AllInv, LifeInv, ReaderStage
    <2> QED BY <1>1, <1>3, <2>1, <2>2
          DEF LockWaits, NeedsServices, Request, RegisterObject, RegisterService, HasObject, Call,
              Subscribe, Publish, Read, Handler, RegisterObjectServices, RegisterServiceEntry,
              CallInsert, CallAutoStart, CallQueue, CallRunning, CallUnknown, PublishSenders,
              SendNext, ReadError, Response, CleanupServices
  <1> QED BY <1>2, <1>3 DEF Held

\* A step of a third connection does not change what c waits for, nor of c or d's
\* writers: c waits for d as long as d's reader does nothing.
LEMMA HeldStays ==
  ASSUME AllInv, NEW c \in Conn, NEW d \in Conn, Held(c, d),
         NEW e \in Conn, Held(d, e), [Next]_vars
  PROVE  Held(c, d)'
  <1> USE DEF AllInv, maps, task, conn, world, hist, NeedsServices
  <1> DEFINE Reads(b) == \/ Request(b) \/ Handler(b) \/ ReadError(b)
                         \/ \E id \in CallId : Response(b, id)
  <1>1. ASSUME NEW b \in Conn, Reads(b) PROVE Held(c, d)'
    <2>1. b \notin {c, d}
      BY <1>1, HeldReader
    <2>2. /\ UNCHANGED <<actor, writer>>
          /\ pc'[c] = pc[c] /\ pc'[d] = pc[d]
      BY <1>1, <2>1, LoopsReader, HandlersStep, StallTypes DEF ReaderStep, StallInv
    <2>3. CASE LockWaits(c, d)
      <3>1. servicesHolder = d /\ d # Nil
        BY <2>3, ConstantAssumption DEF ConstantAssumption, LockWaits
      <3>2. servicesHolder' = d
        <4>1. CASE SendNext(b)
          BY <2>1, <3>1, <4>1 DEF SendNext
        <4>2. CASE ~SendNext(b)
          BY <1>1, <3>1, <4>2
             DEF Request, RegisterObject, RegisterService, HasObject, Call, Subscribe, Publish,
                 Handler, RegisterObjectServices, RegisterServiceEntry, CallInsert, CallAutoStart,
                 CallQueue, CallRunning, CallUnknown, PublishSenders, ReadError, Response
        <4> QED BY <4>1, <4>2
      <3>3. pc[d] = "send"
        BY <2>3, <3>1 DEF StallInv, GuardInv
      <3> QED BY <2>2, <2>3, <3>2, <3>3 DEF LockWaits, Held
    <2>4. CASE SendWaits(c, d) /\ writer[d] = "stopped"
      <3>1. out'[c] = out[c]
        <4>1. CASE SendNext(b)
          BY <2>1, <4>1, StallTypes DEF SendNext
        <4>2. CASE ~SendNext(b)
          BY <1>1, <2>1, <4>2, StallTypes
             DEF Request, RegisterObject, RegisterService, HasObject, Call, Subscribe, Publish,
                 Handler, RegisterObjectServices, RegisterServiceEntry, CallInsert, CallAutoStart,
                 CallQueue, CallRunning, CallUnknown, PublishSenders, ReadError, Response,
                 Continue, Return, SendAll
        <4> QED BY <4>1, <4>2
      <3>2. chan'[d] = chan[d]
        <4>1. CASE SendNext(b)
          <5>1. Len(chan[d]) = ChanCap /\ ChanCap \in Nat
            BY <2>4, ConstantAssumption DEF ConstantAssumption, SendWaits
          <5>2. chan' = chan \/ Head(out[b]).to # d
            BY <4>1, <5>1 DEF SendNext
          <5> QED BY <4>1, <5>2, StallTypes DEF SendNext
        <4>2. CASE ~SendNext(b)
          BY <1>1, <4>2
             DEF Request, RegisterObject, RegisterService, HasObject, Call, Subscribe, Publish,
                 Handler, RegisterObjectServices, RegisterServiceEntry, CallInsert, CallAutoStart,
                 CallQueue, CallRunning, CallUnknown, PublishSenders, ReadError, Response
        <4> QED BY <4>1, <4>2
      <3> QED BY <2>2, <2>4, <3>1, <3>2 DEF SendWaits, Held
    <2> QED BY <2>3, <2>4 DEF Held, LockWaits, StallInv, GuardInv
  <1>2. ASSUME NEW b \in Conn, Writer(b) PROVE Held(c, d)'
    <2>1. UNCHANGED <<pc, out, actor, servicesHolder>>
      BY <1>2 DEF Writer, WriterWrite, WriterFail, WriterShutdown
    <2>2. writer[d] = "stopped" => chan'[d] = chan[d] /\ writer'[d] = "stopped"
      BY <1>2, StallTypes DEF Writer, WriterWrite, WriterFail, WriterShutdown
    <2> QED BY <2>1, <2>2 DEF Held, SendWaits, LockWaits
  <1>3. ASSUME NEW b \in Conn, Cleanup(b) PROVE Held(c, d)'
    <2>1. UNCHANGED <<pc, out, writer, servicesHolder>>
      BY <1>3 DEF Cleanup, CleanupClients, CleanupObjects, CleanupSubscriptions, CleanupCalls,
                  CleanupActiveCalls, CleanupServices
    <2>2. CASE CleanupServices(b)
      <3>1. b \notin {c, d}
        BY <2>2, HeldReader
      <3>2. chan'[d] = chan[d] /\ actor'[d] = actor[d] /\ actor'[c] = actor[c]
        BY <2>2, <3>1, StallTypes DEF CleanupServices
      <3> QED BY <2>1, <3>2 DEF Held, SendWaits, LockWaits
    <2>3. CASE ~CleanupServices(b)
      <3>1. UNCHANGED chan /\ \E st \in ActorPc \ {"absent", "running", "ended"} :
                                 actor' = [actor EXCEPT ![b] = st]
        BY <1>3, <2>3 DEF Cleanup, CleanupClients, CleanupObjects, CleanupSubscriptions,
                          CleanupCalls, CleanupActiveCalls, ActorPc
      <3>2. actor[b] # "services"
        BY <1>3, <2>3 DEF Cleanup, CleanupClients, CleanupObjects, CleanupSubscriptions,
                          CleanupCalls, CleanupActiveCalls
      <3> QED BY <2>1, <3>1, <3>2, StallTypes DEF Held, SendWaits, LockWaits
    <2> QED BY <2>2, <2>3
  <1>4. ASSUME NEW b \in Conn, SpawnClient(b) \/ PeerClose(b) PROVE Held(c, d)'
    <2>1. UNCHANGED <<out, chan, writer, servicesHolder>>
      BY <1>4 DEF SpawnClient, PeerClose
    <2>2. \A a \in {c, d} : pc'[a] = pc[a] /\ (actor'[a] = actor[a] \/ actor'[a] # "ended")
                            /\ (actor[a] = "services" => actor'[a] = "services")
      <3>1. CASE PeerClose(b)
        BY <3>1 DEF PeerClose
      <3>2. CASE SpawnClient(b)
        <4>1. pc[b] = "none" /\ actor[b] = "absent"
          BY <3>2 DEF SpawnClient, LifeInv, ReaderStage
        <4>2. pc[c] # "none" /\ pc[d] # "none"
          BY DEF Held, SendWaits, LockWaits, LifeInv, ReaderStage
        <4> QED BY <3>2, <4>1, <4>2, StallTypes DEF SpawnClient
      <3> QED BY <1>4, <3>1, <3>2
    <2> QED BY <2>1, <2>2 DEF Held, SendWaits, LockWaits
  <1>5. ASSUME NEW o \in Object, SpawnService(o) PROVE Held(c, d)'
    BY <1>5 DEF SpawnService, Held, SendWaits, LockWaits
  <1>6. CASE UNCHANGED vars
    BY <1>6 DEF vars, Held, SendWaits, LockWaits
  <1> QED BY <1>1, <1>2, <1>3, <1>4, <1>5, <1>6 DEF Next

\* Connections that hold one another do so for ever: neither packets, nor a
\* disconnection, nor the cleanup of any connection lets one of them go on.
THEOREM Rings == Spec => RingsStay
  <1>1. ASSUME AllInv, [Next]_vars PROVE \A S \in SUBSET Conn : Ring(S) => Ring(S)'
    <2> SUFFICES ASSUME NEW S \in SUBSET Conn, Ring(S) PROVE Ring(S)'
      OBVIOUS
    <2>1. ASSUME NEW c \in S PROVE \E d \in S : Held(c, d)'
      <3>1. PICK d \in S : Held(c, d)
        BY DEF Ring
      <3>2. PICK e \in S : Held(d, e)
        BY DEF Ring
      <3> QED BY <1>1, <3>1, <3>2, HeldStays
    <2> QED BY <2>1 DEF Ring
  <1> QED BY <1>1, AllInvariant, PTL DEF Spec, RingsStay
=============================================================================
