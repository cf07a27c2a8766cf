----------------------------- MODULE IPCClient -----------------------------
(***************************************************************************)
(* One IPCClient connection (src/client.rs): the handles that user code    *)
(* calls, the client actor that owns the stream, and the receivers of its  *)
(* subscriptions.                                                          *)
(*                                                                         *)
(* The broker is the environment.  It handles the requests of a connection *)
(* in order, answers a call when the worker does, and writes an event      *)
(* whenever another client publishes one.  It writes the length of a       *)
(* packet and its body separately, so the actor can read one without the   *)
(* other.                                                                  *)
(***************************************************************************)
EXTENDS Naturals, Sequences, FiniteSets

CONSTANTS
  Op,         \* the operations that user code performs, each once
  KindOf,     \* which IPCClient method an operation is
  Oversized,  \* operations whose request is over BUF_SIZE
  QueueCap,   \* capacity of the channel from the handles to the actor (64)
  UpdatesCap, \* capacity of a subscription's channel (16)
  MaxEvents,  \* bound: events that other clients publish
  Nil

Methods == {"remote_call", "has_object", "publish", "subscribe"}

ASSUME ClientAssumption ==
  /\ KindOf \in [Op -> Methods] /\ Oversized \subseteq Op
  /\ QueueCap \in Nat \ {0} /\ UpdatesCap \in Nat \ {0} /\ MaxEvents \in Nat
  /\ Nil \notin Op

VARIABLES
  handles,   \* "held" while user code has a clone of the IPCClient
  api,       \* where each operation is: not called, waiting, or returned
  queue,     \* ClientMsg's on their way to the actor
  actor,     \* the actor: in select!, in a reply's read_packet, or gone
  current,   \* the request whose reply the actor awaits
  subs,      \* subscriptions the actor forwards events to
  updates,   \* the channel of each subscription
  listening, \* subscriptions whose receiver has not been dropped
  torn,      \* the next bytes of the stream are not the start of a packet
  toBroker,  \* requests written and not yet handled by the broker
  wire,      \* packets the broker has written and the actor not yet read
  working,   \* calls a worker is executing
  topicOn,   \* the broker has this client in its subscription map
  events,    \* how many events were published
  closed,    \* the broker has closed the connection
  last       \* history: the last event forwarded to each subscription

user   == <<handles, api, listening>>
own    == <<queue, actor, current, subs, updates, torn, last>>
broker == <<toBroker, wire, working, topicOn, events, closed>>
vars   == <<user, own, broker>>

Reply(op)  == [type |-> IF KindOf[op] = "remote_call" THEN "Result" ELSE "HasObjectResult", op |-> op]
Subscribed == [type |-> "Subscribed"]
Event(n)   == [type |-> "Event", n |-> n]
IoError    == [type |-> "Err"]

\* What a method has come to, other than a packet or an error.
NotCalled == [type |-> "NotCalled"]
Waiting   == [type |-> "Waiting"]
Returned  == [type |-> "Returned"]

Packet == [type : {"Result", "HasObjectResult"}, op : Op] \cup {Subscribed}
          \cup [type : {"Event"}, n : 1..MaxEvents]

\* The requests whose reply the actor reads before it does anything else.
ExpectsReply(op) == KindOf[op] \in {"remote_call", "has_object"}

TypeOK ==
  /\ handles \in {"held", "dropped"}
  /\ api \in [Op -> {NotCalled, Waiting, Returned, IoError} \cup Packet]
  /\ queue \in Seq(Op) /\ Len(queue) <= QueueCap
  /\ actor \in {"select", "select_body", "deaf", "reply", "reply_body", "gone"}
  /\ current \in Op \cup {Nil}
  /\ (current # Nil) <=> (actor \in {"reply", "reply_body"})
  /\ subs \subseteq Op /\ listening \subseteq Op
  /\ updates \in [Op -> Seq(1..MaxEvents)]
  /\ \A op \in Op : Len(updates[op]) <= UpdatesCap
  /\ torn \in BOOLEAN /\ topicOn \in BOOLEAN /\ closed \in BOOLEAN
  /\ toBroker \in Seq(Op) /\ wire \in Seq(Packet)
  /\ working \subseteq Op
  /\ events \in 0..MaxEvents
  /\ last \in [Op -> 0..MaxEvents]

Init ==
  /\ handles = "held" /\ api = [op \in Op |-> NotCalled]
  /\ listening = {op \in Op : KindOf[op] = "subscribe"}
  /\ queue = <<>> /\ actor = "select" /\ current = Nil
  /\ subs = {} /\ updates = [op \in Op |-> <<>>] /\ torn = FALSE
  /\ toBroker = <<>> /\ wire = <<>> /\ working = {}
  /\ topicOn = FALSE /\ events = 0 /\ closed = FALSE
  /\ last = [op \in Op |-> 0]

-----------------------------------------------------------------------------
(* User code.                                                              *)

\* The method sends its message to the actor.  publish and subscribe return
\* then; remote_call and has_object wait for the oneshot.  The send cannot
\* fail: the actor ends only when no handle is left.
Issue(op) ==
  /\ handles = "held" /\ api[op] = NotCalled
  /\ Len(queue) < QueueCap
  /\ queue' = Append(queue, op)
  /\ api' = [api EXCEPT ![op] = IF ExpectsReply(op) THEN Waiting ELSE Returned]
  /\ UNCHANGED <<handles, listening, actor, current, subs, updates, torn, last, broker>>

\* The last clone of the handle goes away.
DropHandles ==
  /\ handles = "held" /\ \A op \in Op : api[op] # Waiting
  /\ handles' = "dropped"
  /\ UNCHANGED <<api, listening, own, broker>>

\* The owner of the receiver, or the task of subscribe_async, takes an update.
Receive(op) ==
  /\ updates[op] # <<>>
  /\ updates' = [updates EXCEPT ![op] = Tail(@)]
  /\ UNCHANGED <<user, queue, actor, current, subs, torn, last, broker>>

\* User code drops the receiver; the channel is closed and its updates are lost.
DropReceiver(op) ==
  /\ op \in listening /\ api[op] = Returned
  /\ listening' = listening \ {op}
  /\ updates' = [updates EXCEPT ![op] = <<>>]
  /\ UNCHANGED <<handles, api, queue, actor, current, subs, torn, last, broker>>

-----------------------------------------------------------------------------
(* The actor.                                                              *)

\* write_packet refuses the request, or the stream is broken ...
WriteFails(op) == closed \/ op \in Oversized

\* ... though a socket may still take what is written to it.
Writes(op) == {written \in BOOLEAN : IF written THEN op \notin Oversized ELSE WriteFails(op)}

\* Mutated: has_object is missing from the requests that await a response, and
\* is handed the placeholder that publish discards.
TakeForgetsHasObject ==
  /\ actor \in {"select", "select_body", "deaf"} /\ queue # <<>>
  /\ LET op == Head(queue) IN \E written \in Writes(op) :
     /\ queue' = Tail(queue)
     /\ torn' = (torn \/ actor = "select_body")
     /\ subs' = IF KindOf[op] = "subscribe" THEN subs \cup {op} ELSE subs
     /\ toBroker' = IF written THEN Append(toBroker, op) ELSE toBroker
     /\ IF KindOf[op] = "remote_call" /\ written
        THEN /\ actor' = "reply" /\ current' = op
             /\ UNCHANGED api
        ELSE /\ actor' = "select" /\ UNCHANGED current
             /\ api' = IF ExpectsReply(op) THEN [api EXCEPT ![op] = Returned] ELSE api
  /\ UNCHANGED <<handles, listening, updates, last, wire, working, topicOn, events, closed>>

\* select! takes the receiving branch and drops its read_packet, together with
\* a length that has been read.  The request is written; on an error the
\* method gets it, except that publish and subscribe are not told.
Take ==
  /\ actor \in {"select", "select_body", "deaf"} /\ queue # <<>>
  /\ LET op == Head(queue) IN \E written \in Writes(op) :
     /\ queue' = Tail(queue)
     /\ torn' = (torn \/ actor = "select_body")
     /\ subs' = IF KindOf[op] = "subscribe" THEN subs \cup {op} ELSE subs
     /\ toBroker' = IF written THEN Append(toBroker, op) ELSE toBroker
     /\ IF ExpectsReply(op) /\ written
        THEN /\ actor' = "reply" /\ current' = op
             /\ UNCHANGED api
        ELSE /\ actor' = "select" /\ UNCHANGED current
             /\ api' = IF ExpectsReply(op) THEN [api EXCEPT ![op] = IoError] ELSE api
  /\ UNCHANGED <<handles, listening, updates, last, wire, working, topicOn, events, closed>>

\* read_packet reads the length.
ReadLength ==
  /\ actor \in {"select", "reply"} /\ wire # <<>> /\ ~torn
  /\ actor' = IF actor = "select" THEN "select_body" ELSE "reply_body"
  /\ UNCHANGED <<user, queue, current, subs, updates, torn, last, broker>>

\* The packet that is read while a request waits is its reply, whatever it is.
ReadReply ==
  /\ actor = "reply_body"
  /\ api' = [api EXCEPT ![current] = Head(wire)]
  /\ wire' = Tail(wire)
  /\ actor' = "select" /\ current' = Nil
  /\ UNCHANGED <<handles, listening, queue, subs, updates, torn, last,
                 toBroker, working, topicOn, events, closed>>

\* Mutated forms of ReadUpdate below: a slow subscription is kept; it is sent to
\* although it is full; the packet stays in the buffer.
ReadUpdateKeepsSlow ==
  /\ actor = "select_body"
  /\ LET m    == Head(wire)
         room == {op \in subs \cap listening : m.type = "Event" /\ Len(updates[op]) < UpdatesCap}
     IN /\ updates' = [op \in Op |-> IF op \in room THEN Append(updates[op], m.n) ELSE updates[op]]
        /\ last' = [op \in Op |-> IF op \in room THEN m.n ELSE last[op]]
  /\ wire' = Tail(wire)
  /\ actor' = "select"
  /\ UNCHANGED <<user, queue, current, subs, torn, toBroker, working, topicOn, events, closed>>

ReadUpdateUnbounded ==
  /\ actor = "select_body"
  /\ LET m    == Head(wire)
         room == {op \in subs \cap listening : m.type = "Event"}
     IN /\ updates' = [op \in Op |-> IF op \in room THEN Append(updates[op], m.n) ELSE updates[op]]
        /\ last' = [op \in Op |-> IF op \in room THEN m.n ELSE last[op]]
  /\ wire' = Tail(wire)
  /\ actor' = "select"
  /\ UNCHANGED <<user, queue, current, subs, torn, toBroker, working, topicOn, events, closed>>

ReadUpdateTwice ==
  /\ actor = "select_body"
  /\ LET m    == Head(wire)
         room == {op \in subs \cap listening : m.type = "Event" /\ Len(updates[op]) < UpdatesCap}
     IN /\ updates' = [op \in Op |-> IF op \in room THEN Append(updates[op], m.n) ELSE updates[op]]
        /\ last' = [op \in Op |-> IF op \in room THEN m.n ELSE last[op]]
  /\ wire' \in {wire, Tail(wire)}
  /\ actor' = "select"
  /\ UNCHANGED <<user, queue, current, subs, torn, toBroker, working, topicOn, events, closed>>

\* The packet that select! reads: an event goes to the subscriptions, and one
\* whose channel is full or closed is dropped; anything else is ignored.  (An
\* empty packet would end the actor, but the broker writes none, and no four bytes
\* of what it writes are zero, in or out of step.)
ReadUpdate ==
  /\ actor = "select_body"
  /\ LET m    == Head(wire)
         room == {op \in subs \cap listening : Len(updates[op]) < UpdatesCap}
     IN IF m.type = "Event"
        THEN /\ subs' = room
             /\ updates' = [op \in Op |-> IF op \in room THEN Append(updates[op], m.n)
                                          ELSE updates[op]]
             /\ last' = [op \in Op |-> IF op \in room THEN m.n ELSE last[op]]
        ELSE UNCHANGED <<subs, updates, last>>
  /\ wire' = Tail(wire)
  /\ actor' = "select"
  /\ UNCHANGED <<user, queue, current, torn, toBroker, working, topicOn, events, closed>>

\* Mutated forms of ReadFails: the reply's read is tried again; select! does not
\* disable the branch.
ReadFailsRetries ==
  /\ actor' = IF actor \in {"reply", "reply_body"} THEN "reply" ELSE "deaf"
  /\ UNCHANGED <<api, current>>

ReadFailsLoops ==
  /\ actor' = "select"
  /\ api' = IF actor \in {"reply", "reply_body"} THEN [api EXCEPT ![current] = IoError] ELSE api
  /\ current' = Nil

\* What follows an error of read_packet: the waiting request gets it, and
\* select! disables the branch and listens to the handles only.
ReadFails ==
  /\ IF actor \in {"reply", "reply_body"}
     THEN api' = [api EXCEPT ![current] = IoError] /\ actor' = "select"
     ELSE UNCHANGED api /\ actor' = "deaf"
  /\ current' = Nil

\* The end of the stream, after a whole packet or between a length and its body.
ReadEof ==
  /\ closed
  /\ \/ actor \in {"select", "reply"} /\ wire = <<>>
     \/ actor \in {"select_body", "reply_body"} /\ Len(wire) = 1
  /\ ReadFails
  /\ wire' = <<>>
  /\ UNCHANGED <<handles, listening, queue, subs, updates, torn, last,
                 toBroker, working, topicOn, events, closed>>

\* Bytes of a body taken for a length: mostly over BUF_SIZE, which is an error
\* that may leave the stream inside the packet, inside the next or, by chance,
\* between the two; sometimes a length whose bytes are no JSON, which select!
\* ignores and a reply takes for an error, or that swallows the packets that follow.
ReadTorn ==
  /\ actor \in {"select", "reply"} /\ wire # <<>> /\ torn
  /\ \/ /\ ReadFails \/ (actor = "select" /\ UNCHANGED <<actor, current, api>>)
        /\ \/ UNCHANGED <<wire, torn>>
           \/ wire' = Tail(wire) /\ torn' \in BOOLEAN
     \/ /\ wire' = <<>>
        /\ UNCHANGED <<actor, current, api, torn>>
  /\ UNCHANGED <<handles, listening, queue, subs, updates, last,
                 toBroker, working, topicOn, events, closed>>

\* Both branches are disabled: no handle is left and the read has failed.
ActorEnds ==
  /\ actor = "deaf" /\ handles = "dropped" /\ queue = <<>>
  /\ actor' = "gone"
  /\ UNCHANGED <<user, queue, current, subs, updates, torn, last, broker>>

-----------------------------------------------------------------------------
(* The broker, seen from this connection.                                  *)

\* It handles the next request.
BrokerHandles ==
  /\ toBroker # <<>> /\ ~closed
  /\ LET op == Head(toBroker) IN
     /\ wire' = CASE KindOf[op] = "subscribe"  -> Append(wire, Subscribed)
                  [] KindOf[op] = "has_object" -> Append(wire, Reply(op))
                  [] OTHER                     -> wire
     /\ topicOn' = (topicOn \/ KindOf[op] = "subscribe")
     /\ working' = IF KindOf[op] = "remote_call" THEN working \cup {op} ELSE working
  /\ toBroker' = Tail(toBroker)
  /\ UNCHANGED <<user, own, events, closed>>

\* A worker answers a call.
BrokerResult(op) ==
  /\ op \in working /\ ~closed
  /\ working' = working \ {op}
  /\ wire' = Append(wire, Reply(op))
  /\ UNCHANGED <<user, own, toBroker, topicOn, events, closed>>

\* Another client publishes.
BrokerEvent ==
  /\ events < MaxEvents /\ topicOn /\ ~closed
  /\ events' = events + 1
  /\ wire' = Append(wire, Event(events + 1))
  /\ UNCHANGED <<user, own, toBroker, working, topicOn, closed>>

BrokerCloses ==
  /\ ~closed
  /\ closed' = TRUE
  /\ UNCHANGED <<user, own, toBroker, wire, working, topicOn, events>>

-----------------------------------------------------------------------------
ActorNext == \/ Take \/ ReadLength \/ ReadReply \/ ReadUpdate \/ ReadEof \/ ReadTorn \/ ActorEnds

Next ==
  \/ \E op \in Op : Issue(op) \/ Receive(op) \/ DropReceiver(op) \/ BrokerResult(op)
  \/ DropHandles \/ ActorNext
  \/ BrokerHandles \/ BrokerEvent \/ BrokerCloses

Spec == Init /\ [][Next]_vars

\* Tokio runs the actor; the broker handles requests, and workers answer.
\* User code owes nothing.
FairSpec == /\ Spec
            /\ WF_vars(ActorNext) /\ WF_vars(BrokerHandles)
            /\ \A op \in Op : WF_vars(BrokerResult(op))

-----------------------------------------------------------------------------
(* Properties.                                                             *)

\* User code has not subscribed on this handle.
Unsubscribed == \A op \in Op : KindOf[op] = "subscribe" => api[op] = NotCalled

\* The operation is the only one on the connection so far.
Alone(op) == \A other \in Op \ {op} : api[other] = NotCalled

\* What remote_call's comment says: a method is handed the reply to its own
\* request, or an error if the request could not be sent or the broker closed
\* the connection.
ReplyMatches ==
  \A op \in Op : \/ api[op] \in {NotCalled, Waiting, Returned, Reply(op)}
                 \/ api[op] = IoError /\ WriteFails(op)

\* It does on a handle that has never subscribed, though the actor matches
\* neither call ids nor types and earlier requests may have failed.
RepliesMatch == Unsubscribed => ReplyMatches

\* On such a handle a method returns, whether the broker answers or goes away.
MethodReturns ==
  \A op \in Op : api[op] = Waiting ~> (api[op] # Waiting \/ ~Unsubscribed)

\* A subscription that is alone on its connection misses nothing: as long as it
\* is kept, every event so far was forwarded to it or is still to be read.  A
\* receiver that is too slow loses the subscription, never a single event.
NoGap ==
  \A op \in subs :
    Alone(op) /\ ~closed =>
      last[op] + Cardinality({i \in DOMAIN wire : wire[i].type = "Event"}) = events

\* A subscription is never forwarded an event twice or after a later one, even
\* when the stream is read out of step.
NoRepeat ==
  [][\A op \in Op : Len(updates'[op]) > Len(updates[op]) => last'[op] > last[op]]_vars

\* The actor ends once the broker is gone and no handle is left.
ActorTerminates == (closed /\ handles = "dropped") ~> actor = "gone"
=============================================================================
