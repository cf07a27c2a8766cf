---------------------------- MODULE Backpressure ----------------------------
(***************************************************************************)
(* How full buffers stop one another: the client actors (src/client.rs)    *)
(* and the broker's readers, channels and writers (src/broker.rs) on the   *)
(* path of a published event.  Only the number of packets in each buffer   *)
(* is kept.  A client actor does one thing at a time: while it waits in    *)
(* write_packet it reads nothing.  A reader does one thing at a time too:  *)
(* while it waits for room in a subscriber's channel it reads nothing.     *)
(***************************************************************************)
EXTENDS Naturals, Sequences, FiniteSets

CONSTANTS
  Conn,         \* connections, each of an IPCClient
  Subscribers,  \* who has subscribed to what each client publishes
  StreamCap,    \* packets the kernel buffers in each direction of a stream
  ChanCap,      \* capacity of a connection's outbound channel (64 in the code)
  MaxPublish    \* bound: events each client publishes

ASSUME BackpressureAssumption ==
  /\ IsFiniteSet(Conn)
  /\ Subscribers \in [Conn -> SUBSET Conn]
  /\ StreamCap \in Nat \ {0} /\ ChanCap \in Nat \ {0}
  /\ MaxPublish \in Nat

VARIABLES
  unsent,  \* publish() calls a client has still to make
  actor,   \* the client actor: in its select!, or in write_packet
  up,      \* packets in the stream from client to broker
  out,     \* sends the broker's reader has still to do, in order
  chan,    \* messages in the connection's channel
  down     \* packets in the stream from broker to client

vars == <<unsent, actor, up, out, chan, down>>

TypeOK ==
  /\ unsent \in [Conn -> Nat]
  /\ actor \in [Conn -> {"select", "write"}]
  /\ up \in [Conn -> 0..StreamCap]
  /\ out \in [Conn -> Seq(Conn)]
  /\ chan \in [Conn -> 0..ChanCap]
  /\ down \in [Conn -> 0..StreamCap]

Init ==
  /\ unsent = [c \in Conn |-> MaxPublish]
  /\ actor = [c \in Conn |-> "select"]
  /\ up = [c \in Conn |-> 0]
  /\ out = [c \in Conn |-> <<>>]
  /\ chan = [c \in Conn |-> 0]
  /\ down = [c \in Conn |-> 0]

\* Mutated forms of the actions below: a channel without a bound; a writer that
\* leaves the message in the channel.
SendNextUnbounded(c) ==
  /\ out[c] # <<>>
  /\ chan' = [chan EXCEPT ![Head(out[c])] = @ + 1]
  /\ out' = [out EXCEPT ![c] = Tail(@)]
  /\ UNCHANGED <<unsent, actor, up, down>>

WriterWriteKeeps(c) ==
  /\ chan[c] > 0 /\ down[c] < StreamCap
  /\ down' = [down EXCEPT ![c] = @ + 1]
  /\ UNCHANGED <<unsent, actor, up, out, chan>>

\* The actor takes a Publish from its handles ...
TakePublish(c) ==
  /\ actor[c] = "select" /\ unsent[c] > 0
  /\ unsent' = [unsent EXCEPT ![c] = @ - 1]
  /\ actor' = [actor EXCEPT ![c] = "write"]
  /\ UNCHANGED <<up, out, chan, down>>

\* ... and writes it when the stream has room.
WritePublish(c) ==
  /\ actor[c] = "write" /\ up[c] < StreamCap
  /\ up' = [up EXCEPT ![c] = @ + 1]
  /\ actor' = [actor EXCEPT ![c] = "select"]
  /\ UNCHANGED <<unsent, out, chan, down>>

\* The other branch of its select!: an Event, passed on with try_send.
ReadEvent(c) ==
  /\ actor[c] = "select" /\ down[c] > 0
  /\ down' = [down EXCEPT ![c] = @ - 1]
  /\ UNCHANGED <<unsent, actor, up, out, chan>>

\* The broker's reader takes a Publish and addresses it to the subscribers, in
\* the order of a hash set.
HandlePublish(c) ==
  /\ out[c] = <<>> /\ up[c] > 0
  /\ up' = [up EXCEPT ![c] = @ - 1]
  /\ \E q \in [1..Cardinality(Subscribers[c]) -> Subscribers[c]] :
       /\ \A d \in Subscribers[c] : \E i \in DOMAIN q : q[i] = d
       /\ out' = [out EXCEPT ![c] = q]
  /\ UNCHANGED <<unsent, actor, chan, down>>

\* tx.send(..).await on the next subscriber's channel.
SendNext(c) ==
  /\ out[c] # <<>> /\ chan[Head(out[c])] < ChanCap
  /\ chan' = [chan EXCEPT ![Head(out[c])] = @ + 1]
  /\ out' = [out EXCEPT ![c] = Tail(@)]
  /\ UNCHANGED <<unsent, actor, up, down>>

\* The writer loop writes when the stream has room.
WriterWrite(c) ==
  /\ chan[c] > 0 /\ down[c] < StreamCap
  /\ chan' = [chan EXCEPT ![c] = @ - 1]
  /\ down' = [down EXCEPT ![c] = @ + 1]
  /\ UNCHANGED <<unsent, actor, up, out>>

ClientActor(c) == TakePublish(c) \/ WritePublish(c) \/ ReadEvent(c)
Reader(c) == HandlePublish(c) \/ SendNext(c)

Next == \E c \in Conn : ClientActor(c) \/ Reader(c) \/ WriterWrite(c)

Spec == Init /\ [][Next]_vars

\* Every task runs when it can.
FairSpec ==
  /\ Spec
  /\ \A c \in Conn : WF_vars(ClientActor(c)) /\ WF_vars(Reader(c)) /\ WF_vars(WriterWrite(c))

-----------------------------------------------------------------------------
(* Properties.                                                             *)

\* c's reader waits for room in the channel of d; d's writer waits for room in
\* its stream, d's client for room in the other direction, and so for d's reader.
Held(c, d) ==
  /\ out[c] # <<>> /\ Head(out[c]) = d
  /\ chan[d] = ChanCap /\ down[d] = StreamCap
  /\ actor[d] = "write" /\ up[d] = StreamCap

\* Connections that are held by one another.
Ring(S) == \A c \in S : \E d \in S : Held(c, d)

\* Connections in a ring, or behind one.
Stuck == UNION {S \in SUBSET Conn : Ring(S)}

\* Full channels "slow the publisher", as Architecture.MD says, and stop it in no
\* other way: a client that waits to write a Publish gets to write it, unless it is
\* stuck.
WaitEnds == \A c \in Conn : actor[c] = "write" ~> (actor[c] = "select" \/ c \in Stuck)

\* What a ring means: once it has formed, no other client's events and no reading
\* open it.  Nobody promises that of the code ("slow the publisher" says the
\* opposite): it is why WaitEnds has to leave out who is stuck.
RingsStay == [][\A S \in SUBSET Conn : Ring(S) => Ring(S)']_vars

\* Where a ring can form: only where each of its clients publishes to another one
\* of it, since a reader waits for subscribers only.
RingsAreCircles == \A S \in SUBSET Conn : Ring(S) => \A c \in S : Subscribers[c] \cap S # {}
=============================================================================
