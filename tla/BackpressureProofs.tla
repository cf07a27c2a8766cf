------------------------- MODULE BackpressureProofs -------------------------
(***************************************************************************)
(* Proofs about the event path, for any number of clients, any             *)
(* subscriptions and any sizes of the buffers.                             *)
(***************************************************************************)
EXTENDS Backpressure, FiniteSetTheorems, TLAPS

-----------------------------------------------------------------------------
(* Types, and whom a reader sends to.                                      *)

\* A reader addresses an event to subscribers of its own client only.
AddressInv == \A c \in Conn : out[c] \in Seq(Subscribers[c])

EventInv == TypeOK /\ AddressInv

\* All buffers are empty at the start.
LEMMA EventInit == Init => EventInv
  BY BackpressureAssumption DEF BackpressureAssumption, Init, EventInv, TypeOK, AddressInv

\* The order in which a reader visits the subscribers is a sequence of them.
LEMMA AddressesType ==
  ASSUME NEW c \in Conn, NEW q \in [1..Cardinality(Subscribers[c]) -> Subscribers[c]]
  PROVE  q \in Seq(Subscribers[c]) /\ q \in Seq(Conn)
  <1>1. Subscribers[c] \subseteq Conn /\ IsFiniteSet(Subscribers[c])
    BY FS_Subset, BackpressureAssumption DEF BackpressureAssumption
  <1>2. Cardinality(Subscribers[c]) \in Nat
    BY <1>1, FS_CardinalityType
  <1> QED BY <1>1, <1>2

\* Every step keeps the buffers within their sizes.
LEMMA EventNext == EventInv /\ [Next]_vars => EventInv'
  <1> SUFFICES ASSUME EventInv, [Next]_vars PROVE EventInv'
    OBVIOUS
  <1> USE BackpressureAssumption DEF BackpressureAssumption, EventInv, TypeOK, AddressInv
  <1>1. ASSUME NEW c \in Conn, TakePublish(c) PROVE EventInv'
    BY <1>1 DEF TakePublish
  <1>2. ASSUME NEW c \in Conn, WritePublish(c) PROVE EventInv'
    BY <1>2 DEF WritePublish
  <1>3. ASSUME NEW c \in Conn, ReadEvent(c) PROVE EventInv'
    BY <1>3 DEF ReadEvent
  <1>4. ASSUME NEW c \in Conn, HandlePublish(c) PROVE EventInv'
    <2>1. PICK q \in [1..Cardinality(Subscribers[c]) -> Subscribers[c]] :
            out' = [out EXCEPT ![c] = q]
      BY <1>4 DEF HandlePublish
    <2>2. q \in Seq(Subscribers[c]) /\ q \in Seq(Conn)
      BY <2>1, AddressesType
    <2>3. out' \in [Conn -> Seq(Conn)] /\ \A d \in Conn : out'[d] \in Seq(Subscribers[d])
      BY <2>1, <2>2
    <2> QED BY <1>4, <2>3 DEF HandlePublish
  <1>5. ASSUME NEW c \in Conn, SendNext(c) PROVE EventInv'
    <2>1. Tail(out[c]) \in Seq(Subscribers[c]) /\ Tail(out[c]) \in Seq(Conn)
      BY <1>5 DEF SendNext
    <2>2. out' \in [Conn -> Seq(Conn)] /\ \A d \in Conn : out'[d] \in Seq(Subscribers[d])
      BY <1>5, <2>1 DEF SendNext
    <2>3. chan' \in [Conn -> 0..ChanCap]
      <3>1. out[c] # <<>> /\ out[c] \in Seq(Conn) /\ chan[Head(out[c])] < ChanCap
        BY <1>5 DEF SendNext
      <3>2. Head(out[c]) \in Conn
        BY <3>1
      <3>3. chan[Head(out[c])] + 1 \in 0..ChanCap
        <4>1. \A n \in 0..ChanCap : n < ChanCap => n + 1 \in 0..ChanCap
          OBVIOUS
        <4>2. chan[Head(out[c])] \in 0..ChanCap
          BY <3>2
        <4> QED BY <3>1, <4>1, <4>2
      <3>4. chan' = [chan EXCEPT ![Head(out[c])] = @ + 1] /\ chan \in [Conn -> 0..ChanCap]
        BY <1>5 DEF SendNext
      <3> QED BY <3>2, <3>3, <3>4
    <2> QED BY <1>5, <2>2, <2>3 DEF SendNext
  <1>6. ASSUME NEW c \in Conn, WriterWrite(c) PROVE EventInv'
    BY <1>6 DEF WriterWrite
  <1>7. CASE UNCHANGED vars
    BY <1>7 DEF vars
  <1> QED BY <1>1, <1>2, <1>3, <1>4, <1>5, <1>6, <1>7 DEF Next, ClientActor, Reader

\* The invariant holds throughout.
LEMMA EventInvariant == Spec => []EventInv
  BY EventInit, EventNext, PTL DEF Spec

\* No buffer on the path of an event holds more than its capacity.
THEOREM EventPathTypes == Spec => []TypeOK
  <1>1. EventInv => TypeOK
    BY DEF EventInv
  <1> QED BY <1>1, EventInvariant, PTL

-----------------------------------------------------------------------------
(* Rings.                                                                  *)

\* Whom a connection waits for has subscribed to it.
LEMMA HeldBySubscriber ==
  ASSUME EventInv, NEW c \in Conn, NEW d, Held(c, d)
  PROVE  d \in Subscribers[c]
  <1>1. out[c] \in Seq(Subscribers[c]) /\ out[c] # <<>> /\ Head(out[c]) = d
    BY DEF EventInv, AddressInv, Held
  <1> QED BY <1>1

\* A ring of full buffers needs a circle of subscriptions.
LEMMA Circles == Spec => []RingsAreCircles
  <1>1. ASSUME EventInv, NEW S \in SUBSET Conn, Ring(S), NEW c \in S
        PROVE  Subscribers[c] \cap S # {}
    <2>1. PICK d \in S : Held(c, d)
      BY <1>1 DEF Ring
    <2> QED BY <1>1, <2>1, HeldBySubscriber
  <1>2. EventInv => RingsAreCircles
    BY <1>1 DEF RingsAreCircles
  <1> QED BY <1>2, EventInvariant, PTL

\* No clients publish to one another in a circle: every set of clients has one
\* that nobody in the set has subscribed to.
Acyclic == \A S \in SUBSET Conn \ {{}} : \E c \in S : Subscribers[c] \cap S = {}

\* Then nobody is ever stuck behind full buffers.
THEOREM AcyclicGoesOn ==
  ASSUME Acyclic
  PROVE  Spec => [](Stuck = {})
  <1>1. RingsAreCircles => Stuck = {}
    BY DEF Acyclic, RingsAreCircles, Stuck
  <1> QED BY <1>1, Circles, PTL

\* A member of a ring neither reads, nor writes, nor sends.
LEMMA HeldStops ==
  ASSUME EventInv, NEW c \in Conn, NEW d \in Conn, NEW e \in Conn, Held(c, d), Held(d, e)
  PROVE  /\ ~ClientActor(d) /\ ~Reader(c) /\ ~Reader(d)
         /\ ~WriterWrite(d)
  <1>1. /\ actor[d] = "write" /\ ~(up[d] < StreamCap) /\ ~(down[d] < StreamCap)
        /\ out[c] # <<>> /\ ~(chan[Head(out[c])] < ChanCap)
        /\ out[d] # <<>> /\ ~(chan[Head(out[d])] < ChanCap)
    <2>1. StreamCap \in Nat /\ ChanCap \in Nat
      BY BackpressureAssumption DEF BackpressureAssumption
    <2> QED BY <2>1 DEF Held
  <1>2. ~ClientActor(d)
    BY <1>1 DEF ClientActor, TakePublish, WritePublish, ReadEvent
  <1>3. ~Reader(c) /\ ~Reader(d)
    BY <1>1 DEF Reader, HandlePublish, SendNext
  <1> QED BY <1>1, <1>2, <1>3 DEF WriterWrite

\* A step that none of them takes leaves c waiting for d.
LEMMA HeldStays ==
  ASSUME EventInv, NEW c \in Conn, NEW d \in Conn, NEW e \in Conn, Held(c, d), Held(d, e),
         [Next]_vars
  PROVE  Held(c, d)'
  <1> USE DEF EventInv, TypeOK, Held
  <1>1. ASSUME NEW b \in Conn, ClientActor(b) PROVE Held(c, d)'
    <2>1. b # d
      BY <1>1, HeldStops
    <2> QED BY <1>1, <2>1 DEF ClientActor, TakePublish, WritePublish, ReadEvent
  <1>2. ASSUME NEW b \in Conn, HandlePublish(b) PROVE Held(c, d)'
    <2>1. b \notin {c, d}
      BY <1>2, HeldStops DEF Reader
    <2> QED BY <1>2, <2>1 DEF HandlePublish
  <1>3. ASSUME NEW b \in Conn, SendNext(b) PROVE Held(c, d)'
    <2>1. b \notin {c, d}
      BY <1>3, HeldStops DEF Reader
    <2>2. Head(out[b]) # d
      <3>1. chan[Head(out[b])] < ChanCap
        BY <1>3 DEF SendNext
      <3>2. chan[d] = ChanCap /\ ~(ChanCap < ChanCap)
        BY BackpressureAssumption DEF BackpressureAssumption
      <3> QED BY <3>1, <3>2
    <2> QED BY <1>3, <2>1, <2>2 DEF SendNext
  <1>4. ASSUME NEW b \in Conn, WriterWrite(b) PROVE Held(c, d)'
    BY <1>4, HeldStops DEF WriterWrite
  <1>5. CASE UNCHANGED vars
    BY <1>5 DEF vars
  <1> QED BY <1>1, <1>2, <1>3, <1>4, <1>5 DEF Next, Reader

\* Clients that wait for one another through full buffers do so for ever: the
\* reason why WaitEnds leaves them out, and nothing the code should promise.
THEOREM RingsForEver == Spec => RingsStay
  <1>1. ASSUME EventInv, [Next]_vars PROVE \A S \in SUBSET Conn : Ring(S) => Ring(S)'
    <2> SUFFICES ASSUME NEW S \in SUBSET Conn, Ring(S) PROVE Ring(S)'
      OBVIOUS
    <2>1. ASSUME NEW c \in S PROVE \E d \in S : Held(c, d)'
      <3>1. PICK d \in S : Held(c, d)
        BY DEF Ring
      <3>2. PICK e \in S : Held(d, e)
        BY DEF Ring
      <3> QED BY <1>1, <3>1, <3>2, HeldStays
    <2> QED BY <2>1 DEF Ring
  <1> QED BY <1>1, EventInvariant, PTL DEF Spec, RingsStay

-----------------------------------------------------------------------------
(* What a waiting client waits for.                                        *)

\* A task on c's side of the path can take a step: its client actor, its reader
\* or its writer.
CanMove(c) ==
  \/ actor[c] = "write" /\ up[c] < StreamCap
  \/ actor[c] = "select" /\ down[c] > 0
  \/ out[c] = <<>> /\ up[c] > 0
  \/ out[c] # <<>> /\ chan[Head(out[c])] < ChanCap
  \/ chan[c] > 0 /\ down[c] < StreamCap

\* The connection that c's reader sends to, if it is held by it.
LEMMA SendsTo ==
  ASSUME EventInv, NEW c \in Conn, out[c] # <<>>
  PROVE  Head(out[c]) \in Conn
  <1>1. out[c] \in Seq(Conn)
    BY DEF EventInv, TypeOK
  <1> QED BY <1>1

\* A buffer without room is full, and not empty.
LEMMA NoRoom ==
  ASSUME EventInv, NEW c \in Conn
  PROVE  /\ actor[c] \in {"select", "write"}
         /\ ~(up[c] < StreamCap) => up[c] = StreamCap /\ up[c] > 0
         /\ ~(down[c] < StreamCap) => down[c] = StreamCap /\ down[c] > 0
         /\ ~(chan[c] < ChanCap) => chan[c] = ChanCap /\ chan[c] > 0
  <1>1. \A cap \in Nat \ {0} : \A n \in 0..cap : ~(n < cap) => n = cap /\ n > 0
    OBVIOUS
  <1>2. /\ actor[c] \in {"select", "write"} /\ chan[c] \in 0..ChanCap
        /\ up[c] \in 0..StreamCap /\ down[c] \in 0..StreamCap
    BY DEF EventInv, TypeOK
  <1>3. StreamCap \in Nat \ {0} /\ ChanCap \in Nat \ {0}
    BY BackpressureAssumption DEF BackpressureAssumption
  <1> QED BY <1>1, <1>2, <1>3

\* If a client waits to write and nothing on its side can move, its reader sends
\* to one on whose side something can move, or which waits to write and holds it.
LEMMA WriterHeld ==
  ASSUME EventInv, NEW c \in Conn, actor[c] = "write", ~CanMove(c),
         NEW d, d = Head(out[c]), ~(d \in Conn /\ CanMove(d))
  PROVE  out[c] # <<>> /\ d \in Conn /\ Held(c, d) /\ actor[d] = "write"
  <1>1. up[c] = StreamCap /\ out[c] # <<>>
    BY NoRoom DEF CanMove
  <1>2. d \in Conn
    BY <1>1, SendsTo
  <1>3. chan[d] = ChanCap /\ chan[d] > 0
    BY <1>1, <1>2, NoRoom DEF CanMove
  <1>4. down[d] = StreamCap /\ down[d] > 0
    BY <1>2, <1>3, NoRoom DEF CanMove
  <1>5. actor[d] = "write" /\ up[d] = StreamCap
    BY <1>2, <1>4, NoRoom DEF CanMove
  <1> QED BY <1>1, <1>2, <1>3, <1>4, <1>5 DEF Held

\* The state behind WaitEnds: along the sends that a waiting client waits for,
\* some task can take a step, unless the client is stuck.
WaitsForMover ==
  \A c \in Conn : actor[c] = "write" /\ c \notin Stuck =>
    \A S \in SUBSET Conn :
      c \in S /\ (\A a \in S : out[a] # <<>> => Head(out[a]) \in S) => \E a \in S : CanMove(a)

\* A client that waits to write, and that is not stuck, waits for a task that can
\* take a step: back-pressure has no other deadlock than the rings.
THEOREM MoverExists == Spec => []WaitsForMover
  <1>1. ASSUME EventInv, NEW c \in Conn, actor[c] = "write",
               NEW S \in SUBSET Conn, c \in S,
               \A a \in S : out[a] # <<>> => Head(out[a]) \in S,
               \A a \in S : ~CanMove(a)
        PROVE  c \in Stuck
    <2> DEFINE T == {a \in S : actor[a] = "write"}
    <2>1. ASSUME NEW a \in T PROVE \E d \in T : Held(a, d)
      <3> DEFINE d == Head(out[a])
      <3>1. out[a] # <<>> => d \in S
        BY <1>1, <2>1
      <3>2. ~(d \in Conn /\ CanMove(d))
        <4>1. CASE out[a] # <<>>
          BY <1>1, <3>1, <4>1
        <4>2. CASE out[a] = <<>>
          <5>1. ~CanMove(a) /\ actor[a] = "write" /\ a \in Conn
            BY <1>1, <2>1
          <5> QED BY <1>1, <4>2, <5>1, NoRoom DEF CanMove
        <4> QED BY <4>1, <4>2
      <3>3. out[a] # <<>> /\ Held(a, d) /\ actor[d] = "write"
        BY <1>1, <2>1, <3>2, WriterHeld
      <3> QED BY <3>1, <3>3
    <2>2. T \in SUBSET Conn /\ c \in T
      BY <1>1
    <2> QED BY <2>1, <2>2 DEF Stuck, Ring
  <1>2. EventInv => WaitsForMover
    BY <1>1 DEF WaitsForMover
  <1> QED BY <1>2, EventInvariant, PTL
=============================================================================
