-------------------------- MODULE BrokerProperties --------------------------
(***************************************************************************)
(* What the broker promises to the processes connected to it, and what its *)
(* comments and documentation say about it.                                *)
(***************************************************************************)
EXTENDS Broker

-----------------------------------------------------------------------------
(* Disconnection.                                                          *)

\* Connections that hold no place in a map: not there yet, or past the step of
\* cleanup_client that clears the map.
NotIn(stages) == {c \in Conn : actor[c] \in {"absent", "ended"} \cup stages}

GoneFromClients == NotIn({"objects", "subscriptions", "calls", "active_calls", "services"})
GoneFromObjects == NotIn({"subscriptions", "calls", "active_calls", "services"})
GoneFromSubscriptions == NotIn({"calls", "active_calls", "services"})
GoneFromCalls == NotIn({"active_calls", "services"})
GoneFromServices == NotIn({})

\* Once cleanup_client has cleared a map of a connection, nothing of that
\* connection comes back into the map: no packet it sent earlier is handled
\* late, and no other actor puts it back.  A connection that runs can be sent to.
NoResidue ==
  /\ \A c \in GoneFromClients : c \notin clients
  /\ \A c \in GoneFromObjects : \A o \in Object : objects[o] # c
  /\ \A c \in GoneFromSubscriptions : \A t \in Topic : c \notin subscriptions[t]
  /\ \A c \in GoneFromCalls : \A id \in CallId : calls[id] # c
  /\ \A c \in GoneFromServices : \A o \in Object :
       services[o].owner # c /\ services[o].runner # c
  /\ \A c \in Conn : actor[c] = "running" => c \in clients

-----------------------------------------------------------------------------
(* Waiting.  A handler waits for room in a channel or for the services     *)
(* guard; nothing else in the broker waits for another connection.         *)

\* c's reader waits for room in the channel of d.
SendWaits(c, d) ==
  /\ pc[c] = "send" /\ Head(out[c]).to = d
  /\ actor[d] # "ended" /\ Len(chan[d]) = ChanCap

NeedsServices(c) ==
  \/ pc[c] \in {"register_object", "register_service", "call_service"}
  \/ actor[c] = "services"

\* c's reader, or its cleanup, waits for the services guard, which d has.
LockWaits(c, d) == NeedsServices(c) /\ servicesHolder = d

Awaits(c) == {d \in Conn : SendWaits(c, d) \/ LockWaits(c, d)}

\* c waits for d, and d's own reader is what it takes: nobody drains d's
\* channel any more, or d has the guard while it waits to send.
Held(c, d) ==
  \/ SendWaits(c, d) /\ writer[d] = "stopped"
  \/ LockWaits(c, d) /\ pc[d] = "send"

\* The writer has failed, but the peer is connected and has sent nothing since:
\* the reader waits for a packet.
Deaf(c) == writer[c] = "stopped" /\ pc[c] = "idle" /\ peer[c] = "open"

\* Connections that are held by one another.
Ring(S) == \A c \in S : \E d \in S : Held(c, d)

\* Connections that are held by a ring, or by a deaf connection.
Stuck == UNION {S \in SUBSET Conn : \A c \in S : Deaf(c) \/ \E d \in S : Held(c, d)}

\* A task of the connection can take a step of its own.
CanMove(c) ==
  \/ pc[c] \in {"call_insert", "publish"}
  \/ NeedsServices(c) /\ servicesHolder = Nil
  \/ pc[c] = "send" /\ ~SendWaits(c, Head(out[c]).to)
  \/ pc[c] = "idle" /\ peer[c] = "closed"
  \/ actor[c] = "running" /\ writer[c] = "writing" /\ (chan[c] # <<>> \/ pc[c] = "done")
  \/ actor[c] = "running" /\ writer[c] = "stopped" /\ pc[c] = "done"
  \/ actor[c] \in {"objects", "subscriptions", "calls", "active_calls"}

\* The connection has more to do than to wait for its peer.
Unfinished(c) ==
  actor[c] \notin {"absent", "ended"} /\ ~(pc[c] = "idle" /\ peer[c] = "open")

\* Whoever waits, directly or through others, waits for a task that can take a
\* step now, or is stuck behind a channel whose writer has stopped.  There is no
\* other deadlock: not from the mutexes, not from channels that are only full.
NoGridlock ==
  \A c \in Conn : Unfinished(c) /\ c \notin Stuck =>
    \A S \in SUBSET Conn :
      c \in S /\ (\A a \in S : Awaits(a) \subseteq S) => \E a \in S : CanMove(a)

\* What a ring means: it never opens, and no packet, disconnection or cleanup of
\* anybody helps it.  (Not a promise of the broker; Architecture.MD says that a full
\* channel slows the publisher and that a write error ends in cleanup.)
RingsStay == [][\A S \in SUBSET Conn : Ring(S) => Ring(S)']_vars

\* A connection whose peer is gone is cleaned up, whatever its handler was
\* doing and whoever was sending to it, unless it is stuck.
DisconnectCleaned ==
  \A c \in Conn : (actor[c] = "running" /\ peer[c] = "closed")
                    ~> (actor[c] = "ended" \/ c \in Stuck)

-----------------------------------------------------------------------------
(* Calls.                                                                  *)

IsReply(m) == m.type \in {"Result", "Error"}

\* A message that carries a call or the answer to it.
About(m, id) == m.type \in {"Call", "Result", "Error"} /\ m.call = id

\* The places a call, or the answer to it, is in: how far it has come there,
\* the connection it was handed to, and where exactly it is.
Place(stage, with, at) == [stage |-> stage, with |-> with, at |-> at]

Handed(m, c, at) == Place(IF IsReply(m) THEN "replied" ELSE "assigned", c, at)

InHandlers(id) ==
  {Place("accepted", Nil, <<"handler", c>>) : c \in {d \in Conn : local[d].call = id}}

InQueues(id) ==
  {Place("accepted", Nil, <<"pending", o>>) : o \in {p \in Object : id \in services[p].pending}}

InHands(id) ==
  {Place("assigned", c, <<"todo", c>>) : c \in {d \in Conn : id \in todo[d]}}

InChannel(id, c) ==
  {Handed(chan[c][i], c, <<"chan", c, i>>) : i \in {j \in DOMAIN chan[c] : About(chan[c][j], id)}}

InSends(id, c) ==
  {Handed(out[c][i].msg, out[c][i].to, <<"out", c, i>>) :
     i \in {j \in DOMAIN out[c] : About(out[c][j].msg, id)}}

InAnyChannel(id) == UNION {InChannel(id, c) : c \in Conn}

InAnySends(id) == UNION {InSends(id, c) : c \in Conn}

AtCaller(id) == {Place("answered", Nil, <<"caller">>) : x \in {id} \cap answered}

Places(id) ==
       InHandlers(id) \cup InQueues(id) \cup InHands(id)
  \cup InAnyChannel(id) \cup InAnySends(id) \cup AtCaller(id)

\* A Result or an Error travels only towards the connection that made the call,
\* whichever connections share the maps and however the calls overlap.
ReplyToOrigin ==
  \A c \in Conn :
    /\ \A i \in DOMAIN chan[c] : IsReply(chan[c][i]) => origin[chan[c][i].call] = c
    /\ \A i \in DOMAIN out[c] :
         IsReply(out[c][i].msg) => origin[out[c][i].msg.call] = out[c][i].to

\* A call is executed and answered at most once: at any time it is in one
\* place, through queueing, registration, re-registration and disconnection.
AtMostOnce == \A id \in CallId : Cardinality(Places(id)) <= 1

\* Wherever a call waits to be executed, its answer will find the caller in
\* calls, unless the caller's own cleanup has taken the entry away.
RoutableWhileServed ==
  \A id \in CallId :
    (\/ \E o \in Object : id \in services[o].pending
     \/ \E c \in Conn : \/ id \in todo[c]
                        \/ \E i \in DOMAIN chan[c] : chan[c][i] = CallMsg(id)
                        \/ \E i \in DOMAIN out[c] : out[c][i].msg = CallMsg(id))
    => (calls[id] = origin[id] \/ origin[id] \in GoneFromCalls)

\* A call disappears only with a connection: while every peer is connected, a
\* call that was issued is somewhere on its way or answered.
CallConserved ==
  (\A c \in Conn : peer[c] = "open" /\ pc[c] # "done" /\ writer[c] = "writing")
    => \A id \in CallId : origin[id] # Nil => Places(id) # {}

\* The connections that have broken, at either end.
Broken == {c \in Conn : peer[c] = "closed" \/ writer[c] = "stopped" \/ pc[c] = "done"}

\* The state of a call in CallService, which has none for a call in two places.
StateOf(id) ==
  LET places == Places(id)
      state(stage, c) == [stage |-> stage, with |-> c]
  IN IF origin[id] = Nil THEN state("new", Nil)
     ELSE IF places = {} THEN state("lost", Nil)
     ELSE IF Cardinality(places) > 1 THEN state("duplicated", Nil)
     ELSE LET p == CHOOSE q \in places : TRUE IN state(p.stage, p.with)

Abstract == INSTANCE CallService WITH
  Client <- Conn,
  Queues <- Activated # {} \/ Sends["RegisterService"] # {},
  caller <- origin,
  state <- [id \in CallId |-> StateOf(id)],
  gone <- Broken

\* The broker, with its separate critical sections, bounded channels and
\* two-sided disconnections, implements CallService: one execution, one answer,
\* to the caller, and no loss that its own caller or worker did not cause.
CallsServed == Abstract!Spec

\* A call to an object without a service is answered, if the workers answer and
\* nobody disconnects: it is forwarded, or refused with an Error.
EventuallyAnswered ==
  \A id \in CallId :
    (\E c \in Conn : local[c].call = id /\ local[c].object \notin Activated)
      ~> id \in answered

-----------------------------------------------------------------------------
(* Publish and subscribe.                                                  *)

\* Events of one publisher reach a subscriber in the order of publication, each
\* once, although every subscriber has its own channel and every channel many
\* senders.
EventsInOrder ==
  \A c, p \in Conn :
    LET at == {i \in DOMAIN chan[c] : chan[c][i].type = "Event" /\ chan[c][i].from = p}
    IN /\ \A i \in at : chan[c][i].seq > seen[c][p]
       /\ \A i, j \in at : i < j => chan[c][i].seq < chan[c][j].seq

\* An event that handle_publish has addressed to a subscriber is written to it,
\* even if another subscriber is slow or dies with a full channel.  Only the
\* subscriber's own disconnection excuses it, or that the publisher is stuck.
EventDelivered ==
  \A p \in Sends["Publish"], d \in Sends["Subscribe"] : \A n \in 1..MaxReads :
    (\E i \in DOMAIN out[p] : /\ out[p][i].to = d
                              /\ out[p][i].msg.type = "Event"
                              /\ out[p][i].msg.seq = n)
      ~> (seen[d][p] >= n \/ peer[d] = "closed" \/ p \in Stuck)

-----------------------------------------------------------------------------
(* Service activation.                                                     *)

\* A running service belongs to a connection that could still be cleaned up,
\* and no call waits in it: nothing would ever take the call out.
RunningServed ==
  \A o \in Object : services[o].state = "Running" =>
    /\ services[o].pending = {}
    /\ services[o].runner = services[o].owner
    /\ actor[services[o].owner] \notin {"absent", "ended"}

\* The call is handed to the connection that is the service's process from now on.
HandedOver(o, id) ==
  \E c \in Conn : /\ services'[o].runner = c /\ services'[o].owner = c
                  /\ \E i \in DOMAIN out'[c] : out'[c][i] = To(c, CallMsg(id))

\* While everybody is connected a call that waits for a service leaves the queue
\* only for the process that has registered: no competing registration, and no
\* RegisterService that resets a service with calls in its queue, drops it.
QueuesKept ==
  [][Broken = {} => \A o \in Object : \A id \in services[o].pending \ services'[o].pending :
                      HandedOver(o, id)]_vars

\* A call that waits is dropped only if its caller has disappeared, as the comment
\* on that part of cleanup_client says; otherwise its service's process takes it.
DropsOnlyOrphans ==
  [][\A o \in Object : \A id \in services[o].pending \ services'[o].pending :
       HandedOver(o, id) \/ origin[id] \in Broken]_vars

\* Of what a connection has registered, the object and the service, nothing is
\* taken away while its reader runs, unless another connection registers the
\* same: the cleanup of an earlier or of a later owner leaves it alone.
OwnersKept ==
  [][\A o \in Object :
       /\ \/ objects[o] = Nil \/ objects'[o] = objects[o]
          \/ pc[objects[o]] = "done" \/ objects'[o] # Nil
       /\ \/ services[o].owner = Nil \/ services'[o].owner = services[o].owner
          \/ pc[services[o].owner] = "done" \/ services'[o].owner # Nil]_vars

\* A call that waits when a process registers the service is answered, if
\* nobody disconnects.
QueuedAnswered ==
  \A id \in CallId :
    (\E o \in Object : /\ id \in services[o].pending
                       /\ \E c \in Conn : pc[c] = "register_object" /\ local[c].object = o)
      ~> id \in answered

\* A handler that has locked services unlocks it again.
ServicesReleased == servicesHolder # Nil ~> servicesHolder = Nil
=============================================================================
