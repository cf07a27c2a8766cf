------------------------------- MODULE Broker -------------------------------
(***************************************************************************)
(* The broker process of ipc-broker (src/broker.rs, with the service       *)
(* table of src/activate.rs), on Unix.                                     *)
(*                                                                         *)
(* Every connection has an actor: a reader task that handles one packet at *)
(* a time, a writer loop that drains the connection's bounded channel, and *)
(* run(), which waits for both and then cleans up.  The actors share five  *)
(* maps, each behind its own mutex.                                        *)
(*                                                                         *)
(* Grain.  One action is one critical section (what happens between a      *)
(* lock().await and the guard's drop) or one send on a bounded channel.    *)
(* Reading a packet is merged with the first critical section of its       *)
(* handler.  Only the services mutex is ever held across an await that can *)
(* block, so it is the only one with a variable of its own.                *)
(***************************************************************************)
EXTENDS Naturals, Sequences, FiniteSets

CONSTANTS
  Conn,       \* client ids; spawn_client draws a fresh one per connection
  Object,     \* object names
  Topic,      \* (object_name, topic) pairs of the subscription map
  CallId,     \* call ids; every Call carries a fresh one
  Nil,        \* Option::None, and "no entry" in a map
  Activated,  \* objects with a service-activation file
  LongNames,  \* for each answer, the names it is over BUF_SIZE with
  ChanCap,    \* capacity of a connection's outbound channel (64 in the code)
  UnitConn,   \* connections opened by processes that systemctl starts
  Sends,      \* bound: for each kind of packet, the connections that send it
  MaxReads    \* bound: how many packets a connection sends

Kind == {"RegisterObject", "RegisterService", "Call", "Subscribe", "Publish",
         "HasObject", "Oversized", "Close"}

ASSUME ConstantAssumption ==
  /\ IsFiniteSet(Conn) /\ IsFiniteSet(CallId)
  /\ Nil \notin Conn \union Object \union Topic \union CallId
  /\ Activated \subseteq Object
  /\ LongNames \in [{"Error", "HasObjectResult", "Subscribed"} -> SUBSET (Object \cup Topic)]
  /\ UnitConn \subseteq Conn
  /\ ChanCap \in Nat \ {0} /\ MaxReads \in Nat
  /\ Sends \in [Kind -> SUBSET Conn]

VARIABLES
  clients,        \* keys of SharedClients: connections whose sender can be cloned
  objects,        \* SharedObjects: object -> owner
  subscriptions,  \* SharedSubscriptions: topic -> subscribers
  calls,          \* SharedCalls: call -> caller (id and sender)
  services,       \* SharedServices: object -> ServiceEntry
  servicesHolder, \* the reader holding the services guard across an await
  actor,          \* where run() is: "running", then the next map to clean
  pc,             \* where the reader task is
  local,          \* the reader's local variables that outlive a lock
  out,            \* sends the reader has still to do, in order
  writer,         \* the writer loop: "writing" until it returns
  chan,           \* the bounded mpsc channel from all readers to the writer
  snapshot,       \* active_calls of cleanup_client
  peer,           \* the other end of the stream: "open" or "closed"
  todo,           \* calls the peer has received as a worker and not answered
  reads,          \* packets read from the connection so far
  spawning,       \* services whose spawn_service task has not finished
  started,        \* services that systemctl has brought up
  origin,         \* history: the connection that sent each Call
  answered,       \* history: calls whose caller was written a Result or Error
  seen            \* history: number of the last event of p written to c

maps  == <<clients, objects, subscriptions, calls, services, servicesHolder>>
task  == <<pc, local, out>>
conn  == <<actor, writer, chan, snapshot>>
world == <<peer, todo, reads, spawning, started>>
hist  == <<origin, answered, seen>>
vars  == <<maps, task, conn, world, hist>>

-----------------------------------------------------------------------------
(* Messages and types.                                                     *)

CallMsg(id)        == [type |-> "Call", call |-> id]
ResultMsg(id)      == [type |-> "Result", call |-> id]
ErrorMsg(id, o)    == [type |-> "Error", call |-> id, object |-> o]
RegisteredMsg(o)   == [type |-> "Registered", object |-> o]
SubscribedMsg(t)   == [type |-> "Subscribed", topic |-> t]
HasObjectMsg(o, b) == [type |-> "HasObjectResult", object |-> o, exists |-> b]
EventMsg(t, c, n)  == [type |-> "Event", topic |-> t, from |-> c, seq |-> n]

Message ==
       [type : {"Call", "Result"}, call : CallId]
  \cup [type : {"Error"}, call : CallId, object : Object]
  \cup [type : {"Registered"}, object : Object]
  \cup [type : {"Subscribed"}, topic : Topic]
  \cup [type : {"HasObjectResult"}, object : Object, exists : BOOLEAN]
  \cup [type : {"Event"}, topic : Topic, from : Conn, seq : Nat]

Send == [to : Conn, msg : Message]

To(c, m) == [to |-> c, msg |-> m]

ServiceEntry == [state : {"Unknown", "Stopped", "Starting", "Running"},
                 runner : Conn \cup {Nil},
                 owner : Conn \cup {Nil},
                 pending : SUBSET CallId]

\* No entry for the object ("Unknown") and an entry just inserted ("Stopped").
Entry(st) == [state |-> st, runner |-> Nil, owner |-> Nil, pending |-> {}]

NoLocal == [call |-> Nil, object |-> Nil, topic |-> Nil, tx |-> Nil, subs |-> {}]

Local == [call : CallId \cup {Nil}, object : Object \cup {Nil},
          topic : Topic \cup {Nil}, tx : Conn \cup {Nil}, subs : SUBSET Conn]

ReaderPc == {"none", "idle", "register_object", "register_service",
             "call_insert", "call_service", "publish", "send", "done"}

ActorPc == {"absent", "running", "objects", "subscriptions", "calls",
            "active_calls", "services", "ended"}

TypeOK ==
  /\ clients \subseteq Conn
  /\ objects \in [Object -> Conn \cup {Nil}]
  /\ subscriptions \in [Topic -> SUBSET Conn]
  /\ calls \in [CallId -> Conn \cup {Nil}]
  /\ services \in [Object -> ServiceEntry]
  /\ servicesHolder \in Conn \cup {Nil}
  /\ actor \in [Conn -> ActorPc]
  /\ pc \in [Conn -> ReaderPc]
  /\ local \in [Conn -> Local]
  /\ out \in [Conn -> Seq(Send)]
  /\ writer \in [Conn -> {"writing", "stopped"}]
  /\ chan \in [Conn -> Seq(Message)]
  /\ \A c \in Conn : Len(chan[c]) <= ChanCap
  /\ snapshot \in [Conn -> SUBSET CallId]
  /\ peer \in [Conn -> {"open", "closed"}]
  /\ todo \in [Conn -> SUBSET CallId]
  /\ reads \in [Conn -> Nat]
  /\ spawning \subseteq Object /\ started \subseteq Object
  /\ origin \in [CallId -> Conn \cup {Nil}]
  /\ answered \subseteq CallId
  /\ seen \in [Conn -> [Conn -> Nat]]

Init ==
  /\ clients = {}
  /\ objects = [o \in Object |-> Nil]
  /\ subscriptions = [t \in Topic |-> {}]
  /\ calls = [id \in CallId |-> Nil]
  /\ services = [o \in Object |-> Entry(IF o \in Activated THEN "Stopped" ELSE "Unknown")]
  /\ servicesHolder = Nil
  /\ actor = [c \in Conn |-> "absent"]
  /\ pc = [c \in Conn |-> "none"]
  /\ local = [c \in Conn |-> NoLocal]
  /\ out = [c \in Conn |-> <<>>]
  /\ writer = [c \in Conn |-> "writing"]
  /\ chan = [c \in Conn |-> <<>>]
  /\ snapshot = [c \in Conn |-> {}]
  /\ peer = [c \in Conn |-> "open"]
  /\ todo = [c \in Conn |-> {}]
  /\ reads = [c \in Conn |-> 0]
  /\ spawning = {} /\ started = {}
  /\ origin = [id \in CallId |-> Nil]
  /\ answered = {}
  /\ seen = [c \in Conn |-> [p \in Conn |-> 0]]

-----------------------------------------------------------------------------
(* Helpers of the actions.                                                 *)

\* The reader takes a packet of this kind off the stream.  Data written
\* before the peer closed can still be read after it.
Read(c, kind) ==
  /\ pc[c] = "idle"
  /\ c \in Sends[kind]
  /\ reads[c] < MaxReads
  /\ reads' = [reads EXCEPT ![c] = @ + 1]

\* The handler goes on to its next critical section, remembering l.
Continue(c, label, l) ==
  /\ pc' = [pc EXCEPT ![c] = label]
  /\ local' = [local EXCEPT ![c] = l]
  /\ UNCHANGED out

\* The handler returns to read_packet.
Return(c) == Continue(c, "idle", NoLocal)

\* All that is left of the handler is these sends.
SendAll(c, sends) ==
  /\ pc' = [pc EXCEPT ![c] = "send"]
  /\ local' = [local EXCEPT ![c] = NoLocal]
  /\ out' = [out EXCEPT ![c] = sends]

\* The orders in which the elements of a finite set can be visited.
Orderings(S) ==
  {q \in [1..Cardinality(S) -> S] : \A d \in S : \E i \in DOMAIN q : q[i] = d}

\* write_packet refuses a packet over BUF_SIZE.  The Error of an unknown object
\* holds the object's name twice; HasObjectResult and Subscribed are a few bytes
\* longer than the legal requests they answer.
Oversize(m) ==
  \/ m.type \in {"Error", "HasObjectResult"} /\ m.object \in LongNames[m.type]
  \/ m.type = "Subscribed" /\ m.topic \in LongNames["Subscribed"]

-----------------------------------------------------------------------------
(* Connections: listeners and spawn_client, and what the peer does.        *)

\* A listener accepts a stream; spawn_client inserts the sender into clients
\* before it spawns the actor.
SpawnClient(c) ==
  /\ actor[c] = "absent"
  /\ c \in UnitConn => started # {}
  /\ clients' = clients \cup {c}
  /\ actor' = [actor EXCEPT ![c] = "running"]
  /\ pc' = [pc EXCEPT ![c] = "idle"]
  /\ UNCHANGED <<objects, subscriptions, calls, services, servicesHolder,
                 local, out, writer, chan, snapshot, world, hist>>

\* The peer closes its end, or dies.
PeerClose(c) ==
  /\ actor[c] = "running" /\ peer[c] = "open"
  /\ c \in Sends["Close"]
  /\ peer' = [peer EXCEPT ![c] = "closed"]
  /\ UNCHANGED <<maps, task, conn, todo, reads, spawning, started, hist>>

-----------------------------------------------------------------------------
(* The reader task: one handler per kind of packet.                        *)

\* handle_register_object, up to the insertion into objects.
RegisterObject(c, o) ==
  /\ Read(c, "RegisterObject")
  /\ objects' = [objects EXCEPT ![o] = c]
  /\ Continue(c, "register_object", [NoLocal EXCEPT !.object = o])
  /\ UNCHANGED <<clients, subscriptions, calls, services, servicesHolder,
                 conn, peer, todo, spawning, started, hist>>

\* Mutated: the waiting calls are cloned instead of taken.
RegisterObjectServicesClones(c) ==
  /\ pc[c] = "register_object" /\ servicesHolder = Nil
  /\ LET o == local[c].object IN
     /\ services' = [services EXCEPT ![o] =
          IF @.state = "Unknown" THEN @
          ELSE [@ EXCEPT !.state = "Running", !.runner = c, !.owner = c]]
     /\ \E q \in Orderings(services[o].pending) :
          SendAll(c, [i \in DOMAIN q |-> To(c, CallMsg(q[i]))]
                     \o <<To(c, RegisteredMsg(o))>>)
  /\ UNCHANGED <<clients, objects, subscriptions, calls, servicesHolder,
                 conn, world, hist>>

\* Mutated: the waiting calls are cleared before they are taken.
RegisterObjectServicesClears(c) ==
  /\ pc[c] = "register_object" /\ servicesHolder = Nil
  /\ services' = [services EXCEPT ![local[c].object] =
       IF @.state = "Unknown" THEN @
       ELSE [state |-> "Running", runner |-> c, owner |-> c, pending |-> {}]]
  /\ SendAll(c, <<To(c, RegisteredMsg(local[c].object))>>)
  /\ UNCHANGED <<clients, objects, subscriptions, calls, servicesHolder,
                 conn, world, hist>>

\* handle_register_object, the services section and the sends: the calls that
\* were waiting for the service, then Registered.  The order of the waiting
\* calls is left open.
RegisterObjectServices(c) ==
  /\ pc[c] = "register_object" /\ servicesHolder = Nil
  /\ LET o == local[c].object IN
     /\ services' = [services EXCEPT ![o] =
          IF @.state = "Unknown" THEN @
          ELSE [state |-> "Running", runner |-> c, owner |-> c, pending |-> {}]]
     /\ \E q \in Orderings(services[o].pending) :
          SendAll(c, [i \in DOMAIN q |-> To(c, CallMsg(q[i]))]
                     \o <<To(c, RegisteredMsg(o))>>)
  /\ UNCHANGED <<clients, objects, subscriptions, calls, servicesHolder,
                 conn, world, hist>>

\* handle_register_service waits for the services lock ...
RegisterService(c, o) ==
  /\ Read(c, "RegisterService")
  /\ Continue(c, "register_service", [NoLocal EXCEPT !.object = o])
  /\ UNCHANGED <<maps, conn, peer, todo, spawning, started, hist>>

\* Mutated: the entry is replaced, and the calls that wait in it are forgotten.
RegisterServiceEntryFresh(c) ==
  /\ pc[c] = "register_service" /\ servicesHolder = Nil
  /\ services' = [services EXCEPT ![local[c].object] =
       IF @.state = "Running" /\ @.runner = c THEN @ ELSE Entry("Stopped")]
  /\ Return(c)
  /\ UNCHANGED <<clients, objects, subscriptions, calls, servicesHolder,
                 conn, world, hist>>

\* ... and inserts the entry, or resets one that this client does not run.
RegisterServiceEntry(c) ==
  /\ pc[c] = "register_service" /\ servicesHolder = Nil
  /\ services' = [services EXCEPT ![local[c].object] =
       IF @.state = "Unknown" THEN Entry("Stopped")
       ELSE IF @.state = "Running" /\ @.runner = c THEN @
       ELSE [@ EXCEPT !.state = "Stopped", !.runner = Nil]]
  /\ Return(c)
  /\ UNCHANGED <<clients, objects, subscriptions, calls, servicesHolder,
                 conn, world, hist>>

\* handle_call, step 1: under clients and objects, clone the senders of the
\* owner (if the owner still has one) and of the caller.
Call(c, id, o) ==
  /\ Read(c, "Call")
  /\ origin[id] = Nil
  /\ origin' = [origin EXCEPT ![id] = c]
  /\ IF c \in clients
     THEN Continue(c, "call_insert",
            [NoLocal EXCEPT !.call = id, !.object = o,
                            !.tx = IF objects[o] \in clients THEN objects[o] ELSE Nil])
     ELSE Return(c)
  /\ UNCHANGED <<maps, conn, peer, todo, spawning, started, answered, seen>>

\* Mutated: the call is queued or refused as if the owner had no sender.
CallInsertNoForward(c) ==
  /\ pc[c] = "call_insert"
  /\ calls' = [calls EXCEPT ![local[c].call] = c]
  /\ IF local[c].tx = Nil
     THEN Continue(c, "call_service", local[c])
     ELSE Return(c)
  /\ UNCHANGED <<clients, objects, subscriptions, services, servicesHolder,
                 conn, world, hist>>

\* handle_call, step 2 and the forwarding half of step 3.
CallInsert(c) ==
  /\ pc[c] = "call_insert"
  /\ calls' = [calls EXCEPT ![local[c].call] = c]
  /\ IF local[c].tx # Nil
     THEN SendAll(c, <<To(local[c].tx, CallMsg(local[c].call))>>)
     ELSE Continue(c, "call_service", local[c])
  /\ UNCHANGED <<clients, objects, subscriptions, services, servicesHolder,
                 conn, world, hist>>

\* handle_call, service activation: known and stopped, so start it and queue
\* the call ...
CallAutoStart(c) ==
  /\ pc[c] = "call_service" /\ servicesHolder = Nil
  /\ services[local[c].object].state = "Stopped"
  /\ services' = [services EXCEPT ![local[c].object].state = "Starting",
                                  ![local[c].object].pending = @ \cup {local[c].call}]
  /\ spawning' = spawning \cup {local[c].object}
  /\ Return(c)
  /\ UNCHANGED <<clients, objects, subscriptions, calls, servicesHolder,
                 conn, peer, todo, reads, started, hist>>

\* Mutated: a call also waits for a service that is running.
CallQueueRunning(c) ==
  /\ pc[c] = "call_service" /\ servicesHolder = Nil
  /\ services[local[c].object].state \in {"Starting", "Running"}
  /\ services' = [services EXCEPT ![local[c].object].pending = @ \cup {local[c].call}]
  /\ Return(c)
  /\ UNCHANGED <<clients, objects, subscriptions, calls, servicesHolder,
                 conn, world, hist>>

\* ... known and starting, so queue the call ...
CallQueue(c) ==
  /\ pc[c] = "call_service" /\ servicesHolder = Nil
  /\ services[local[c].object].state = "Starting"
  /\ services' = [services EXCEPT ![local[c].object].pending = @ \cup {local[c].call}]
  /\ Return(c)
  /\ UNCHANGED <<clients, objects, subscriptions, calls, servicesHolder,
                 conn, world, hist>>

\* ... known and running: the match's catch-all arm does nothing ...
CallRunning(c) ==
  /\ pc[c] = "call_service" /\ servicesHolder = Nil
  /\ services[local[c].object].state = "Running"
  /\ Return(c)
  /\ UNCHANGED <<maps, conn, world, hist>>

\* Mutated: an unknown object is logged and not answered.
CallUnknownSilent(c) ==
  /\ pc[c] = "call_service" /\ servicesHolder = Nil
  /\ services[local[c].object].state = "Unknown"
  /\ Return(c)
  /\ UNCHANGED <<maps, conn, world, hist>>

\* ... or unknown: an Error, sent with the services guard still held.
CallUnknown(c) ==
  /\ pc[c] = "call_service" /\ servicesHolder = Nil
  /\ services[local[c].object].state = "Unknown"
  /\ servicesHolder' = c
  /\ SendAll(c, <<To(c, ErrorMsg(local[c].call, local[c].object))>>)
  /\ UNCHANGED <<clients, objects, subscriptions, calls, services,
                 conn, world, hist>>

\* Mutated: the response goes back to the connection it came from.
ResponseToSender(c, id) ==
  /\ pc[c] = "idle"
  /\ id \in todo[c]
  /\ todo' = [todo EXCEPT ![c] = @ \ {id}]
  /\ calls' = [calls EXCEPT ![id] = Nil]
  /\ IF calls[id] # Nil
     THEN SendAll(c, <<To(c, ResultMsg(id))>>)
     ELSE Return(c)
  /\ UNCHANGED <<clients, objects, subscriptions, services, servicesHolder,
                 conn, peer, reads, spawning, started, hist>>

\* handle_response to the Result of a call that the peer has been sent; the
\* sender of the response is not compared with anything.
Response(c, id) ==
  /\ pc[c] = "idle"
  /\ id \in todo[c]
  /\ todo' = [todo EXCEPT ![c] = @ \ {id}]
  /\ calls' = [calls EXCEPT ![id] = Nil]
  /\ IF calls[id] # Nil
     THEN SendAll(c, <<To(calls[id], ResultMsg(id))>>)
     ELSE Return(c)
  /\ UNCHANGED <<clients, objects, subscriptions, services, servicesHolder,
                 conn, peer, reads, spawning, started, hist>>

\* handle_subscribe.
Subscribe(c, t) ==
  /\ Read(c, "Subscribe")
  /\ subscriptions' = [subscriptions EXCEPT ![t] = @ \cup {c}]
  /\ SendAll(c, <<To(c, SubscribedMsg(t))>>)
  /\ UNCHANGED <<clients, objects, calls, services, servicesHolder,
                 conn, peer, todo, spawning, started, hist>>

\* handle_publish, the copy of the subscriber set ...
Publish(c, t) ==
  /\ Read(c, "Publish")
  /\ IF subscriptions[t] # {}
     THEN Continue(c, "publish", [NoLocal EXCEPT !.topic = t, !.subs = subscriptions[t]])
     ELSE Return(c)
  /\ UNCHANGED <<maps, conn, peer, todo, spawning, started, hist>>

\* ... then the senders of those still in clients, in the set's order, which
\* is arbitrary.
PublishSenders(c) ==
  /\ pc[c] = "publish"
  /\ LET event == EventMsg(local[c].topic, c, reads[c])
         present == local[c].subs \cap clients
     IN IF present = {} THEN Return(c)
        ELSE \E q \in Orderings(present) :
               SendAll(c, [i \in DOMAIN q |-> To(q[i], event)])
  /\ UNCHANGED <<maps, conn, world, hist>>

\* The HasObject arm of handle_request.
HasObject(c, o) ==
  /\ Read(c, "HasObject")
  /\ SendAll(c, <<To(c, HasObjectMsg(o, objects[o] # Nil))>>)
  /\ UNCHANGED <<maps, conn, peer, todo, spawning, started, hist>>

\* Mutated forms of SendNext below: an unbounded channel; a message that jumps
\* the queue; a guard that is not dropped; a send that gives up on a full channel.
SendNextUnbounded(c) ==
  /\ pc[c] = "send"
  /\ chan' = [chan EXCEPT ![Head(out[c]).to] = Append(@, Head(out[c]).msg)]
  /\ out' = [out EXCEPT ![c] = Tail(@)]
  /\ pc' = IF Len(out[c]) = 1 THEN [pc EXCEPT ![c] = "idle"] ELSE pc
  /\ servicesHolder' = IF Len(out[c]) = 1 /\ servicesHolder = c THEN Nil ELSE servicesHolder
  /\ UNCHANGED <<clients, objects, subscriptions, calls, services,
                 local, actor, writer, snapshot, world, hist>>

SendNextJumps(c) ==
  /\ pc[c] = "send"
  /\ Len(chan[Head(out[c]).to]) < ChanCap
  /\ chan' = [chan EXCEPT ![Head(out[c]).to] = <<Head(out[c]).msg>> \o @]
  /\ out' = [out EXCEPT ![c] = Tail(@)]
  /\ pc' = IF Len(out[c]) = 1 THEN [pc EXCEPT ![c] = "idle"] ELSE pc
  /\ servicesHolder' = IF Len(out[c]) = 1 /\ servicesHolder = c THEN Nil ELSE servicesHolder
  /\ UNCHANGED <<clients, objects, subscriptions, calls, services,
                 local, actor, writer, snapshot, world, hist>>

SendNextKeepsGuard(c) ==
  /\ pc[c] = "send"
  /\ Len(chan[Head(out[c]).to]) < ChanCap
  /\ chan' = [chan EXCEPT ![Head(out[c]).to] = Append(@, Head(out[c]).msg)]
  /\ out' = [out EXCEPT ![c] = Tail(@)]
  /\ pc' = IF Len(out[c]) = 1 THEN [pc EXCEPT ![c] = "idle"] ELSE pc
  /\ UNCHANGED <<maps, local, actor, writer, snapshot, world, hist>>

SendNextGivesUp(c) ==
  /\ pc[c] = "send"
  /\ LET d == Head(out[c]).to IN
     chan' = IF actor[d] # "ended" /\ Len(chan[d]) < ChanCap
             THEN [chan EXCEPT ![d] = Append(@, Head(out[c]).msg)] ELSE chan
  /\ out' = [out EXCEPT ![c] = Tail(@)]
  /\ pc' = IF Len(out[c]) = 1 THEN [pc EXCEPT ![c] = "idle"] ELSE pc
  /\ servicesHolder' = IF Len(out[c]) = 1 /\ servicesHolder = c THEN Nil ELSE servicesHolder
  /\ UNCHANGED <<clients, objects, subscriptions, calls, services,
                 local, actor, writer, snapshot, world, hist>>

\* tx.send(..).await: an error once the receiver is dropped, otherwise a place
\* in the channel as soon as there is one.  After its last send the handler
\* returns and drops the services guard if it has it.
SendNext(c) ==
  /\ pc[c] = "send"
  /\ LET d == Head(out[c]).to
         m == Head(out[c]).msg
     IN \/ actor[d] = "ended" /\ UNCHANGED chan
        \/ /\ actor[d] # "ended"
           /\ Len(chan[d]) < ChanCap
           /\ chan' = [chan EXCEPT ![d] = Append(@, m)]
  /\ out' = [out EXCEPT ![c] = Tail(@)]
  /\ IF Len(out[c]) = 1
     THEN /\ pc' = [pc EXCEPT ![c] = "idle"]
          /\ servicesHolder' = IF servicesHolder = c THEN Nil ELSE servicesHolder
     ELSE UNCHANGED <<pc, servicesHolder>>
  /\ UNCHANGED <<clients, objects, subscriptions, calls, services,
                 local, actor, writer, snapshot, world, hist>>

\* read_packet fails, at the end of the stream or on a length over BUF_SIZE:
\* the reader loop ends and fires shutdown_tx.
ReadError(c) ==
  /\ \/ pc[c] = "idle" /\ peer[c] = "closed" /\ UNCHANGED reads
     \/ Read(c, "Oversized")
  /\ Continue(c, "done", NoLocal)
  /\ UNCHANGED <<maps, conn, peer, todo, spawning, started, hist>>

-----------------------------------------------------------------------------
(* The writer loop.                                                        *)

\* write_packet succeeds; the peer has the message unless it has closed.
WriterWrite(c) ==
  /\ actor[c] = "running" /\ writer[c] = "writing" /\ chan[c] # <<>>
  /\ LET m == Head(chan[c]) IN
     /\ ~Oversize(m)
     /\ todo' = IF m.type = "Call" /\ peer[c] = "open"
                THEN [todo EXCEPT ![c] = @ \cup {m.call}] ELSE todo
     /\ answered' = IF m.type \in {"Result", "Error"}
                    THEN answered \cup {m.call} ELSE answered
     /\ seen' = IF m.type = "Event" THEN [seen EXCEPT ![c][m.from] = m.seq] ELSE seen
  /\ chan' = [chan EXCEPT ![c] = Tail(@)]
  /\ UNCHANGED <<maps, task, actor, writer, snapshot,
                 peer, reads, spawning, started, origin>>

\* write_packet fails, on a broken stream or an oversize packet: the loop
\* breaks, and nothing drains the channel any more.
WriterFail(c) ==
  /\ actor[c] = "running" /\ writer[c] = "writing" /\ chan[c] # <<>>
  /\ peer[c] = "closed" \/ Oversize(Head(chan[c]))
  /\ chan' = [chan EXCEPT ![c] = Tail(@)]
  /\ writer' = [writer EXCEPT ![c] = "stopped"]
  /\ UNCHANGED <<maps, task, actor, snapshot, world, hist>>

\* Mutated: the shutdown is noticed only between two messages.
WriterShutdownLate(c) ==
  /\ actor[c] = "running" /\ writer[c] = "writing" /\ pc[c] = "done"
  /\ chan[c] # <<>>
  /\ writer' = [writer EXCEPT ![c] = "stopped"]
  /\ UNCHANGED <<maps, task, actor, chan, snapshot, world, hist>>

\* The select! sees shutdown_rx.
WriterShutdown(c) ==
  /\ actor[c] = "running" /\ writer[c] = "writing" /\ pc[c] = "done"
  /\ writer' = [writer EXCEPT ![c] = "stopped"]
  /\ UNCHANGED <<maps, task, actor, chan, snapshot, world, hist>>

-----------------------------------------------------------------------------
(* run(), once both loops have returned: cleanup_client, one map at a time.*)

\* Mutated: run() does not wait for the reader task.
CleanupClientsEarly(c) ==
  /\ actor[c] = "running" /\ writer[c] = "stopped"
  /\ clients' = clients \ {c}
  /\ actor' = [actor EXCEPT ![c] = "objects"]
  /\ UNCHANGED <<objects, subscriptions, calls, services, servicesHolder,
                 task, writer, chan, snapshot, world, hist>>

CleanupClients(c) ==
  /\ actor[c] = "running" /\ writer[c] = "stopped" /\ pc[c] = "done"
  /\ clients' = clients \ {c}
  /\ actor' = [actor EXCEPT ![c] = "objects"]
  /\ UNCHANGED <<objects, subscriptions, calls, services, servicesHolder,
                 task, writer, chan, snapshot, world, hist>>

\* Mutated: the objects of the services that the client runs are removed.
CleanupObjectsOfServices(c) ==
  /\ actor[c] = "objects"
  /\ objects' = [o \in Object |-> IF services[o].owner = c THEN Nil ELSE objects[o]]
  /\ actor' = [actor EXCEPT ![c] = "subscriptions"]
  /\ UNCHANGED <<clients, subscriptions, calls, services, servicesHolder,
                 task, writer, chan, snapshot, world, hist>>

CleanupObjects(c) ==
  /\ actor[c] = "objects"
  /\ objects' = [o \in Object |-> IF objects[o] = c THEN Nil ELSE objects[o]]
  /\ actor' = [actor EXCEPT ![c] = "subscriptions"]
  /\ UNCHANGED <<clients, subscriptions, calls, services, servicesHolder,
                 task, writer, chan, snapshot, world, hist>>

CleanupSubscriptions(c) ==
  /\ actor[c] = "subscriptions"
  /\ subscriptions' = [t \in Topic |-> subscriptions[t] \ {c}]
  /\ actor' = [actor EXCEPT ![c] = "calls"]
  /\ UNCHANGED <<clients, objects, calls, services, servicesHolder,
                 task, writer, chan, snapshot, world, hist>>

\* Mutated: retain keeps the client's calls instead of the others'.
CleanupCallsInverted(c) ==
  /\ actor[c] = "calls"
  /\ calls' = [id \in CallId |-> IF calls[id] # c THEN Nil ELSE calls[id]]
  /\ actor' = [actor EXCEPT ![c] = "active_calls"]
  /\ UNCHANGED <<clients, objects, subscriptions, services, servicesHolder,
                 task, writer, chan, snapshot, world, hist>>

CleanupCalls(c) ==
  /\ actor[c] = "calls"
  /\ calls' = [id \in CallId |-> IF calls[id] = c THEN Nil ELSE calls[id]]
  /\ actor' = [actor EXCEPT ![c] = "active_calls"]
  /\ UNCHANGED <<clients, objects, subscriptions, services, servicesHolder,
                 task, writer, chan, snapshot, world, hist>>

\* The snapshot of the active calls, taken before the services lock.
CleanupActiveCalls(c) ==
  /\ actor[c] = "active_calls"
  /\ snapshot' = [snapshot EXCEPT ![c] = {id \in CallId : calls[id] # Nil}]
  /\ actor' = [actor EXCEPT ![c] = "services"]
  /\ UNCHANGED <<maps, task, writer, chan, world, hist>>

\* Services: reset what the client owned, drop the queued calls that are not in
\* the snapshot.  Then run() returns, which drops the receiver and the stream.
CleanupServices(c) ==
  /\ actor[c] = "services" /\ servicesHolder = Nil
  /\ services' = [o \in Object |->
       IF services[o].owner = c THEN Entry("Stopped")
       ELSE [services[o] EXCEPT !.pending = @ \cap snapshot[c]]]
  /\ actor' = [actor EXCEPT ![c] = "ended"]
  /\ chan' = [chan EXCEPT ![c] = <<>>]
  /\ snapshot' = [snapshot EXCEPT ![c] = {}]
  /\ peer' = [peer EXCEPT ![c] = "closed"]
  /\ UNCHANGED <<clients, objects, subscriptions, calls, servicesHolder,
                 task, writer, todo, reads, spawning, started, hist>>

-----------------------------------------------------------------------------
\* spawn_service: systemctl restart succeeds, or fails and is only logged.
SpawnService(o) ==
  /\ o \in spawning
  /\ spawning' = spawning \ {o}
  /\ started' \in {started, started \cup {o}}
  /\ UNCHANGED <<maps, task, conn, peer, todo, reads, hist>>

Request(c) ==
  \/ \E o \in Object : \/ RegisterObject(c, o)
                       \/ RegisterService(c, o)
                       \/ HasObject(c, o)
                       \/ \E id \in CallId : Call(c, id, o)
  \/ \E t \in Topic : Subscribe(c, t) \/ Publish(c, t)

Handler(c) ==
  \/ RegisterObjectServices(c) \/ RegisterServiceEntry(c)
  \/ CallInsert(c) \/ CallAutoStart(c) \/ CallQueue(c)
  \/ CallRunning(c) \/ CallUnknown(c)
  \/ PublishSenders(c) \/ SendNext(c)

Writer(c) == WriterWrite(c) \/ WriterFail(c) \/ WriterShutdown(c)

Cleanup(c) ==
  \/ CleanupClients(c) \/ CleanupObjects(c) \/ CleanupSubscriptions(c)
  \/ CleanupCalls(c) \/ CleanupActiveCalls(c) \/ CleanupServices(c)

Next ==
  \/ \E c \in Conn :
       \/ SpawnClient(c) \/ PeerClose(c)
       \/ Request(c) \/ \E id \in CallId : Response(c, id)
       \/ Handler(c) \/ ReadError(c)
       \/ Writer(c) \/ Cleanup(c)
  \/ \E o \in Object : SpawnService(o)

Spec == Init /\ [][Next]_vars

\* Tokio runs every task that can run, and its mutexes and channels serve
\* their waiters in order.  The peers are assumed to keep reading, workers to
\* answer, and systemctl to return; nothing makes a peer send a request.
Fairness ==
  /\ \A c \in Conn : /\ WF_vars(Handler(c))
                     /\ WF_vars(peer[c] = "closed" /\ ReadError(c))
                     /\ WF_vars(Writer(c))
                     /\ WF_vars(Cleanup(c))
                     /\ WF_vars(\E id \in CallId : Response(c, id))
  /\ \A o \in Object : WF_vars(SpawnService(o))

FairSpec == Spec /\ Fairness
=============================================================================
