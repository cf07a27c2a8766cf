# A TLA+ model of ipc-broker

ipc-broker is a broker process that lets other processes call each other's
objects and publish events, over TCP, Unix sockets or Windows named pipes. This
directory holds a TLA+ model of it: the broker's per-connection actors and
shared maps, the client library's actor, the worker library, the life of the
broker process, the back-pressure between them, and the `rob` command line. TLC
checks the model on small instances, the broker against an abstract
specification among other things; TLAPS proves the refinement and nearly all of
the safety properties for every instance. Paths below are relative to the
repository; lines are those of the modelled commit.

## The system

| Part | Code | State it keeps | Operations |
|---|---|---|---|
| Client actor of the broker | `src/broker.rs` `ClientActor` | reader task, writer loop, a bounded channel (64) into the writer, a shutdown oneshot | `run`, `reader_loop`, `writer_loop`, `cleanup_client` |
| Routing | `src/broker.rs` `ServerState` | `clients`, `objects`, `calls`, each a map behind a tokio mutex | `handle_register_object`, `handle_call`, `handle_response`, `HasObject`, `send_to_client` |
| Publish/subscribe | `src/broker.rs` | `subscriptions` | `handle_subscribe`, `handle_publish` |
| Service activation | `src/broker.rs`, `src/activate.rs` | `services`: state, running client, owner and queued calls of each service | `handle_register_service`, the second half of `handle_call`, `spawn_service`, `load_service_activations` |
| Packet framing | `src/broker.rs` `read_packet`, `write_packet` | none (4-byte length, then body, at most `BUF_SIZE`) | |
| Client library | `src/client.rs` `IPCClient` | a channel (64) from the handles to the actor, the actor's `subs`, a channel (16) per subscription | `remote_call`, `publish`, `subscribe`, `subscribe_async`, `wait_for_object`, `has_object` |
| Worker library | `src/worker.rs` | its objects, an optional shutdown watch channel | `run_worker`, `worker_supervisor` |
| Listeners, start-up | `src/broker.rs`, `src/main.rs` | none | `start_*_listener`, `spawn_client`, `run_broker` |
| `rob` | `src/bin/rob.rs`, `ListObjects` in `src/broker.rs` | none | `parse_signature`, `main`, `listObjects` |
| Logger, examples, installation | `src/logger.rs`, `src/bin/example_*`, `linux/`, `windows/` | none | |

How they interact. A process connects; a listener accepts the stream and
`spawn_client` puts its sender into `clients` and starts an actor. The actor's
reader handles one packet at a time and, inside the handler, locks maps and
awaits sends on channels *of other connections*; the writer of each connection
drains its channel to the stream. When the reader ends it tells the writer, and
`run` joins both and removes the connection from the five maps, one after the
other. Workers are connections that registered an object, callers are those that
send `Call`; nothing else tells them apart.

What is hard here, and what must hold nevertheless:

* *Interleaving.* Handlers take their locks one at a time, so every handler can
  be overtaken between two of them. Replies must reach the caller, no call may
  be executed twice, and none may vanish.
* *Disconnection.* A peer can die at any point of any handler, its own or
  another's. Cleanup must happen, and nothing may bring the connection back.
* *Back-pressure.* Every channel is bounded, readers wait for room in the
  channels of others and in their own. Nobody may wait for ever, and no lock may
  be kept while waiting.
* *Service activation.* Calls wait for a process that may never come, may come
  twice, or be reconfigured on the way.
* *Cancellation.* The client's `select!` drops a half-done read; every `select!`
  that loses a race drops a Ctrl-C.
* *Outages.* A worker outlives its broker, reconnects and registers again; calls
  and answers must not cross from one stream to the next.

`PROJECT.json` lists the hazards with their lines.

## The modules

**`Broker`** models `src/broker.rs` with the service table of `src/activate.rs`.
An action is one critical section (from `lock().await` to the guard's drop) or
one send on a channel, so every point where tokio may switch tasks between two
effects lies between two actions. A handler whose critical sections are separate
is a chain of actions held together by the reader's program counter `pc[c]` and
locals `local[c]`:

| Code | Actions |
|---|---|
| `spawn_client` | `SpawnClient` |
| `handle_register_object` | `RegisterObject`, `RegisterObjectServices`, `SendNext`... |
| `handle_register_service` | `RegisterService`, `RegisterServiceEntry` |
| `handle_call` | `Call`, `CallInsert`, then `SendNext` or one of `CallAutoStart`, `CallQueue`, `CallRunning`, `CallUnknown` |
| `handle_response` | `Response`, `SendNext` |
| `handle_subscribe`, `HasObject` | `Subscribe`, `HasObject`, `SendNext` |
| `handle_publish` | `Publish`, `PublishSenders`, `SendNext`... |
| `reader_loop` on an error | `ReadError` |
| `writer_loop` | `WriterWrite`, `WriterFail`, `WriterShutdown` |
| `run`, `cleanup_client` | `CleanupClients`, `CleanupObjects`, `CleanupSubscriptions`, `CleanupCalls`, `CleanupActiveCalls`, `CleanupServices` |
| `spawn_service` | `SpawnService` |

`out[c]` holds the sends a handler has still to do: each waits for room in its
channel, and fails once the receiver is gone. `servicesHolder` is a variable
because `handle_call` keeps the `services` guard while it sends the Error of an
unknown object; no other guard is kept across a wait for a channel. The
environment is in the same module: `PeerClose`, and `todo[c]`, the calls a peer
has been written as a worker and has not answered. `origin`, `answered` and
`seen` are history variables that only properties read.

Abstractions. Payloads and method names are left out. An `(object, topic)` pair
is one element of `Topic`. An event is its publisher and the number of the
publisher's packet. The order of `pending_calls` is left open (`pending` is a
set); what is shown holds for every order. The lengths of packets come in as the
packet kind `Oversized` (a length over `BUF_SIZE` on the read side) and as
`LongNames` (the names with which an Error, a `HasObjectResult` or a
`Subscribed` is over it on the write side, though the request was not: an Error
contains the name twice). JSON that does not parse is skipped by the
reader without an effect and is left out. Client ids and call ids are UUIDs and
taken to be unique.

**`BrokerProperties`** states what the broker promises, and how it implements
**`CallService`**, the abstract specification of calls: a call is made, given to
one worker, replied to and delivered to its caller, each once, or refused by the
broker, or lost. It may be lost only when its caller or the worker that has it
is `gone`; while it waits for a service (`Queues`) it may also be dropped, which
the code does (see below). The refinement mapping `StateOf` finds the place
where a call, or the answer to it, is: in a handler or a service's queue
(`accepted`), in the sends, channel or hands of a worker (`assigned`), on its
way back (`replied`). A call in two places maps to no state of `CallService`, so
the refinement contains the at-most-once property; a connection counts as gone
when its peer has closed, its writer has stopped or its reader has ended.

`BrokerProperties` also says who waits for whom. A reader waits for room in the
channel of a connection (`SendWaits`), a reader or a cleanup waits for the
`services` guard (`LockWaits`), and nothing else in the broker waits for another
connection. `Held(c, d)` is a wait that the reader of `d` has to end: nobody
drains `d`'s channel any more because its writer has stopped, or `d` has the
guard while it waits to send. Connections that hold one another are a *ring*;
the smallest is a reader that waits for room in its own channel after its writer
has stopped. A connection whose writer has failed while its peer is still there
and silent is *deaf*: `run` waits for the reader, the reader for the peer.
`Stuck` are the connections in or behind a ring or a deaf connection.
`NoGridlock` says that everything else that waits does so for a task that can
take a step now (`CanMove`); `DisconnectCleaned` and `EventDelivered` excuse the
stuck connections. `RingsStay`, that a ring never opens, says how real that
excuse is. It is a theorem and no run checks it: it is nothing the broker should
promise.

**`Worker`** models `src/worker.rs` with the broker as environment:

| Code | Actions |
|---|---|
| connection and registration in `run_worker` | `Connect`, `Register`, `RegisterFails`, `Serve` |
| the `select!` loop | `ReadCall`, `ReadOther`, `ReadFails`, `Answer`, `AnswerFails`, `ShutdownBranch`, `CtrlCBranch` |
| `worker_supervisor` | `Fail` leads to its `select!`: `Retry`, `ShutdownBranch`, `CtrlCBranch`; `End` leaves it |
| outside | `RequestShutdown`, `Interrupt`, `SendCall`, `BrokerStops`, `BrokerStarts` |

`ctrlC` is the state of the `ctrl_c()` future of the current `select!`: a signal
makes it ready, leaving the `select!` by another branch loses it, and so does a
signal that arrives outside a `select!`. `handler` says whether tokio has
installed its handler; before that a Ctrl-C kills the process. `stop` needs no
such care, because each `select!` clones a receiver that has not seen the
change; dropping the `Sender` counts as a change. Data the broker wrote before
it went is read before the end of the stream, and a write to a stream whose
other end is gone fails or, as TCP allows, disappears. The branch for an object
the worker does not have is left out: the broker forwards a call only to the
connection that registered the object.

**`BrokerProcess`** composes that worker, as the broker's own worker `rob`, with
`run_broker` and the listener tasks: binding (TCP first, in debug mode),
`accept`, Ctrl-C, and the `join!` at the end. A signal makes every `ctrl_c()`
future ready that exists (`ready`, `ctrlC`). The worker's broker is this
process: it cannot connect any more when the Unix listener has ended, and loses
a connection that had not been accepted. `Listener` is the Unix listener, and
the TCP listener when `Debug` (`APP_MODE`) says so.

**`Backpressure`** composes the client actors, the streams, and the broker's
readers, channels and writers on the path of an event, and keeps only how many
packets each buffer holds. Here `Held(c, d)` goes once around: the reader of `c`
waits for room in the channel of `d`, the writer of `d` for room in its stream,
the client `d` for room in the other direction, which the reader of `d` has to
make. Nobody disconnects: what disconnection does to channels is in `Broker`.

**`Rob`** models `src/bin/rob.rs`. `Parse`, `ParseMap` and `ParseList` are the
recursive function and its two loops; `main` is a small state machine around
them. The reference goes the other way: it enumerates the shapes (trees of `s`,
`i`, `n`, lists and maps) with their text and the number of words each needs, so
that a signature's meaning and each word's place follow from the shape. It says
what is to happen where the signature is the text of a shape and there are not
too many words. What the code accepts beyond that is listed below.

**`IPCClient`** models one connection of `src/client.rs`: the handles (`Issue`,
`DropHandles`, `Receive`, `DropReceiver`), the actor's `select!` loop (`Take`,
`ReadLength`, `ReadReply`, `ReadUpdate`, `ReadEof`, `ReadTorn`, `ActorEnds`) and
the broker as its environment (`BrokerHandles`, `BrokerResult`, `BrokerEvent`,
`BrokerCloses`). A read takes two steps, length and body, because `select!` may
take the other branch in between and drop a length that has been read; the
stream is then `torn`. A torn read takes body bytes for a length. That is JSON
text, so it is mostly over `BUF_SIZE` and an error; the model also lets it
swallow what follows, or by chance end at a packet boundary, and lets what is
read be no JSON, which `select!` ignores and a waiting request gets as an error.
A write to a stream that the broker has closed may fail or be taken (`Writes`).
A failed read disables its branch and leaves the actor listening to the handles
only (`actor = "deaf"`). `wait_for_object` repeats `has_object` and adds no
state. The code's `else` branch, which its comment says "should never trigger",
is how the actor normally ends: no handle is left and the read has failed.

The theorems are in modules of their own: **`BrokerProofs`** (types, cleanup,
services, routes of replies), **`CallProofs`** (calls and the refinement of
`CallService`; extends `BrokerProofs`), **`EventProofs`** (events; extends
`CallProofs`), **`StallProofs`** (waiting; extends `BrokerProofs`),
**`WorkerProofs`**, **`IPCClientProofs`**, **`BackpressureProofs`** and
**`BrokerProcessProofs`**. The modules named `MC...` instantiate the others for
TLC.

Each passing property has a *mutated form* of an action it depends on, such as
`CallUnknownSilent` before `CallUnknown`: the action with a plausible bug. They
are not part of `Next`; `PROJECT.json` pairs them with the properties that
detect them.

## The runs

`Sends` says which connections may send which packet, and `MaxReads` how many; a
connection is one of `Conn` and is not used again after it ended. TLC explores
every order. The instances end when the packets are used up, so deadlock is not
checked; being stuck is what the liveness properties are about. `ChanCap = 1`
(64 in the code) makes every channel full after one message, so blocking sends
happen in every run; `pubsub` has 2, so that events can overtake each other in a
channel if the code lets them. The code does nothing that depends on the
capacity other than wait.

| Run | Shows |
|---|---|
| `activation` | Two processes compete for an activated object, one also sends `RegisterService`, calls queue up, processes die. `AtMostOnce`: a call is in one place at a time. `RunningServed`: nothing waits in a running service and its owner has not ended. `OwnersKept`: no cleanup but its own takes away what a connection has registered. `QueuesKept`: while everybody is connected, a queued call leaves the queue only for the process that registers. `NoResidue`: what cleanup has removed stays removed. `ReplyToOrigin`: replies travel only to the caller. `RoutableWhileServed`: a call that is still to be executed has its entry in `calls`. `TypeOK`: channels keep their bound. |
| `pubsub` | A publisher and two subscribers, one of which leaves, with full channels. `EventsInOrder`, `NoResidue` for subscriptions, and `EventDelivered`: a dead subscriber with a full channel does not keep an event from a live one. |
| `stalls` | Two clients that publish to each other, call an object that one of them may register, whose "No such object" Error cannot be written, and leave. `NoGridlock`: whoever waits, waits for a task that can take a step, unless it is stuck. `CallsServed`: the broker implements `CallService`, without services. `DisconnectCleaned`: a connection whose peer has gone is cleaned up or stuck. |
| `answering` | Liveness with nobody leaving: `EventuallyAnswered`, `QueuedAnswered`, `ServicesReleased`; and `CallsServed` with service activation. One object is activated, one is not. |
| `client` | A client that calls, asks for an object, subscribes and sends a request that is too large. `RepliesMatch` and `MethodReturns` before it subscribes, `NoGap` for a subscription alone, `NoRepeat`, `ActorTerminates`, `TypeOK`. |
| `worker` | Two objects, three calls, one with a result over `BUF_SIZE`, two outages of the broker, two interrupts. `GracefulShutdown`: a change of the watch channel ends the worker wherever it is, `EndsOnRequest`: nothing else but Ctrl-C does. `RegisteredAgain`: once the broker stays, all objects are registered for good. `AnswersInOrder`: a stream carries the answers to its own calls, in order, none left out. |
| `circle` | Two clients that publish to each other, often enough to fill every buffer between them. `WaitEnds`: a client that waits to write gets to write, or is stuck in a ring. `TypeOK`: the buffers keep their bounds. |
| `rob` | Every signature of at most 4 of the characters `s i n ( ) { }` with at most 3 words out of a number, a non-number and a flag. `ParsesReference`: where the signature is the text of a shape, words that fit it are accepted and become its value, and too few words or wrong ones are refused. |

Why the bounds are enough for the cases that matter: three connections give a
worker, a caller and a bystander (or two competitors and a caller), two packets
each give every handler a successor, two calls overlap or queue, and two events
show order and loss. A third call or connection repeats a role. In `worker` two
outages let the broker be lost during the reconnection after a loss, and a
second interrupt comes after a lost one. In `stalls` two clients with two
packets each reach a ring of one (a reader and its own channel), a ring of two,
rings that a `services` guard is part of, and connections stuck behind them or
behind a deaf one. In `circle` it takes five packets of each client to fill the
buffers between two (one in each client, each stream, each reader's hands and
each channel); six or seven leave some to wait. `CallsServed` needs two runs:
`stalls` has the disconnections, stopped writers and full channels, `answering`
the service. In `rob` four characters give a container in a container and a map
with two entries (with `n`, three words are enough for a repeated key with
different values).

Exceptions that the properties state openly: `DisconnectCleaned`,
`EventDelivered` and `WaitEnds` except the stuck connections, which `NoGridlock`
and `MoverExists` show to be the only ones; `RepliesMatch` and `MethodReturns`
speak of handles that have not subscribed, `NoGap` of subscriptions that are
alone on their connection; `QueuesKept` speaks of the time before anybody has
left, because cleanup drops calls it should keep (`orphan_dropped`, and an
observation below); and `CallService` lets calls be dropped while they wait for
a service (`Queues`), because of that and of `call_lost`. Without services
`CallsServed` allows no such loss.

### Where the code and its documentation disagree

Four runs check a statement of the repository that the code does not keep; TLC's
trace shows how.

| Run | Statement | What happens |
|---|---|---|
| `call_lost` | `README.md:62`, calls "are queued until the worker registers" | A call looks up `objects`, the worker registers, the call looks up `services` and finds `Running`: the catch-all arm drops it without an answer. |
| `orphan_dropped` | the comment at `src/broker.rs:279`, cleanup removes queued calls "whose callers disappeared" | A client leaves and its cleanup copies the ids of the active calls (`src/broker.rs:258`). Another client's call is inserted into `calls` and queued. The cleanup gets the `services` lock, does not find the call in its copy and drops it; its caller is connected and never hears of it. |
| `client_reply` | the comment on `remote_call`, `src/client.rs:258` | After `subscribe` on the same handle, `remote_call` is handed the `Subscribed` confirmation, or an event, which the subscription then misses. |
| `interrupt` | the comment at `src/broker.rs:1139`, `run_broker` waits for Ctrl-C "to gracefully shut down" | A Ctrl-C reaches every task while it waits for it. The Unix listener ends. The broker's own worker has another branch of its `select!` ready too and takes that one, which drops the signal: a packet that has arrived, after which it waits for the next Ctrl-C, or the end of its stream, which the listener closes if it has not accepted it yet, after which it reconnects for ever to a socket nobody serves. `run_broker` waits for it, with no listener left. |

Observations without a run of their own. The first four are named by a passing
property as an exception or are outside its precondition; TLC finds each of them
when that is taken away:

* `src/broker.rs:64` says to avoid holding a lock across an await, and
  `handle_call` sends the Error of an unknown object with `services` locked
  (`src/broker.rs:688`). The caller's peer has gone, the writer has failed, the
  channel is full: the guard is kept for ever, and so are all registrations,
  activations and cleanups that need it. (`ServicesReleased` holds in
  `answering`, where nobody leaves, and fails on the instance of `stalls`.)
* `Architecture.MD:110` says write errors "trigger connection cleanup for the
  affected client". A client asks for three subscriptions and leaves. The write
  of the first confirmation fails and the writer ends. The second fills the
  channel, and the reader waits for room to send the third, which nobody makes:
  `run` waits for the reader and the cleanup never comes. (`DisconnectCleaned`
  excepts the stuck connections.) Without a failed write, too, clients that only
  publish to each other and then leave can hold each other: rings of two and
  more in `stalls`.
* `Architecture.MD:102` says a full channel will "slow the publisher". Two
  clients publish to each other. Each client actor waits to write and does not
  read; each of the broker's readers waits for room in the other's channel; each
  writer waits for its client to read. (`WaitEnds` excepts the stuck clients.)
* A process registers an object, `RegisterService` of another connection resets
  the service, calls queue up for the new process, and the first one leaves: its
  cleanup finds itself as the owner and clears the queue (`src/broker.rs:275`),
  although `README.md:62` says queued calls wait for the worker. (`QueuesKept`
  is about the time while everybody is connected.)
* Two processes register the same object at the same time: the second wins in
  `objects`, the first wins in `services`, because the two maps are locked one
  after the other. When the second leaves, `objects` has no entry and the
  service is `Running` for the first, which lives: every later call to the
  object meets the catch-all arm of `call_lost`, not just one.
* The comment at `src/broker.rs:301` leaves a service in `Starting` to a
  "watchdog". There is none: a start that fails leaves the service in
  `Starting`, and the calls that arrive are queued until a process registers the
  object or their caller leaves.
* A call answered with "No such object" stays in `calls` until its caller
  disconnects, although `src/broker.rs:53` calls it the map of in-flight calls.
* A call forwarded to a worker that dies is never answered, and neither is one
  whose result is over `BUF_SIZE`; no document promises an Error.
* `src/bin/rob.rs:98-106` gives `"{s(i)}" "profile" "hello" 42` as an example.
  The parser takes `42` for the next key and fails for want of an integer. And
  although `src/bin/rob.rs:123-124` says that malformed signatures are reported
  and that mismatches of signature and arguments return `InvalidInput`, a
  missing closing bracket, what follows a complete signature and surplus words
  are accepted; a flag among the words turns any command into `--version`.

### Fairness

Liveness is checked under `FairSpec`, weak fairness of: each reader's handler
once it has a packet, each reader's noticing the end of its stream, each writer,
each cleanup, and `SpawnService`. Tokio polls every task that can go on, and its
mutexes and channels are first-come first-served, so none of these is passed
over for ever. `Writer` being fair also says that a peer that is connected keeps
reading. `Response` is fair too: workers are assumed to answer (`answering` is
about the broker, not about them). Nothing makes a peer send a request, close,
or a listener accept. In `IPCClient` the actor, the broker's handling and the
workers' answers are fair; user code owes nothing, and in particular need not
receive from its subscriptions.

In `Worker` the worker's own steps are weakly fair: its task runs, its methods
return and the broker takes what is written. The watch branch is strongly fair:
`select!` polls its branches from a random start, and the receiver is ready in
every round once the channel has changed. Neither Ctrl-C nor the broker's coming
back is assumed; `RegisteredAgain` has the broker's staying as its hypothesis.
In `BrokerProcess` and `Backpressure` every task is weakly fair: tokio polls it
when it can go on, and the kernel takes and delivers what a stream has room for.
Weak fairness of a sender is enough although others may fill the channel before
it, because each client publishes a bounded number of times.

## What is proved

Every safety invariant and every action property that a passing run checks is
also a theorem, except `ParsesReference`, and so is the refinement. The theorems
hold for all values of the constants that satisfy the named assumptions of the
modules (`ConstantAssumption`, `WorkerAssumption`, `ClientAssumption`,
`BackpressureAssumption`), which only say what kind of value a constant is: any
finite number of connections and calls, any capacity, any number of packets,
outages, interrupts and requests. No proof assumes fairness. Each inductive
invariant was model-checked on the runs' instances before it was proved.

### The broker

`BrokerProofs`:

* `TypeCorrect`: `Spec => []TypeOK`, with it the bound of every channel.
  `TypeOK` is not inductive: the head of `out[c]` exists only because `pc[c]` is
  `"send"`, the object of a handler only because of its stage. `TypeInv` adds
  `ReaderInv`, which says what `pc[c]` implies for `local[c]` and `out[c]`.
* `Disconnection`: `Spec => []NoResidue`, and `RunningServices`:
  `Spec => []RunningServed`. Both follow from `LifeInv`. Its `Clean(c)` lists,
  per stage of the cleanup, the maps in which `c` no longer occurs;
  `ReaderStage(c)` says that the reader of a connection in cleanup is done,
  which is why nobody puts `c` back; `ServiceInv` says that a running service is
  owned by its runner and has no waiting call. `HandlersStep` reduces the
  handlers to one shape: a reader that is not done changes only its own entries.
* `ReplyRouting`: `Spec => []ReplyToOrigin`. `ReplyToOrigin` says nothing of
  `calls`, so `RouteInv` adds that an entry of `calls` names the connection that
  sent the call, and that a handler holding a call holds one of its own.

`CallProofs` follows each call through the broker:

* `OnceAtMost`: `Spec => []AtMostOnce`. Counting the places of a call is not
  something an action can be checked against, so the places become *cells*: a
  kind (`handler`, `pending`, `todo`, `chan`, `out`, `caller`), the connection
  or object it belongs to, and a position. `PlacesAreCells` says that these are
  the places of `BrokerProperties`. `Once(id)`, the call is in one cell at most,
  is inductive together with `OriginInv` (a call that was not made is in none),
  `HandlerInv` (a handler has sends only in `"send"`, and a call only in
  `handle_call`) and `QueueInv` (nothing waits for an object without a service).
* The heart of the proof is the *fate* of a call in a step: it stays in its cell
  (which may move up one position in a channel), it moves to the next cell, it
  leaves, or it enters. There is one lemma per action, and from the fates follow
  both `Once` and the steps of `CallService`.
* `Routable`: `Spec => []RoutableWhileServed`. Its invariant `Routed(id)` also
  covers a call in the handler between its two critical sections.
* `QueueKeeping`: `Spec => QueuesKept`, an action property: who takes a call out
  of a queue is the registration, which sends it to the process, or a cleanup,
  which takes somebody's leaving; a reset by `RegisterServiceEntry` keeps the
  queue.
* `Ownership`: `Spec => OwnersKept`, an action property (`ObjectKept`,
  `ServiceKept`): a cleanup clears only the entries that name its own
  connection, and its reader is done by then (`ReaderStage`).
* `Implements`: `Spec => CallsServed`. Initial states map to initial states, and
  with `CallInvariant` (`Spec => []Inv`, all of the above together) each fate
  maps to `Accept`, `Assign`, `Reply`, `Deliver`, `Lose` or a stutter of that
  call. That a call is lost only with a connection that is `gone` is where the
  two-sided disconnections come in: a channel is given up, a send fails or a
  write fails only after a peer, a writer or a reader has ended.

`EventProofs`:

* `EventOrdering`: `Spec => []EventsInOrder`. The number of an event is the
  count of packets its publisher had sent, so a new one is above everything the
  publisher sent before, in whatever channel that is. `ChannelInv` bounds the
  events in the channels by that count, strictly while a publication is being
  handled; `SendsInv` says that the sends of a publication carry the current
  count and no two of them go to the same channel, so a send never meets its own
  event. It needs `HandlerInv`, that a reader finishes its sends before it
  reads.

`StallProofs`, about who waits for whom:

* `Gridlock`: `Spec => []NoGridlock`. Take a connection that has something to do
  and a set that contains it and all that its members wait for, and suppose that
  no task of the set can move. Whoever needs the guard is held by the one that
  has it, which is sending (`LockHeld`). Whoever waits for a channel is held by
  the channel's owner, because the channel is full and a writer that had not
  stopped would move (`SendHeld`). The holder has something to do itself or is
  deaf. So the members that have something to do or are deaf satisfy the
  definition of `Stuck` (`GridlockStuck`). The argument needs that a handler has
  the guard only while it sends (`GuardInv`), that the writer of a connection in
  cleanup has stopped and a running one has a reader (`LoopsInv`), and that
  every send is addressed to a connection that has an actor (`TargetInv`);
  `StallInv` is their conjunction, inductive with `TypeInv` and `LifeInv`.
* `Rings`: `Spec => RingsStay`, so the waits that `NoGridlock` leaves out do not
  end. In a ring everybody is held and holds somebody, so no reader of it can
  take a step and no connection of it can finish its cleanup (`HeldReader`); and
  no step of anybody else makes room in a channel whose writer has stopped, or
  takes the guard away (`HeldStays`).

### Back-pressure

`BackpressureProofs`, for any clients, subscriptions and sizes of the buffers:

* `EventPathTypes`: `Spec => []TypeOK`, from `EventInv`, which adds that a
  reader sends to subscribers of its client only.
* `AcyclicGoesOn`: where the subscriptions have no circle (`Acyclic`), nobody is
  ever stuck. Whoever holds a client in a ring has subscribed to it
  (`HeldBySubscriber`), so a ring needs a circle of subscriptions (`Circles`).
* `RingsForEver`: `Spec => RingsStay`, as in `StallProofs`: what `WaitEnds`
  leaves out are waits that do not end.
* `MoverExists`: a client that waits to write and is not stuck waits for a task
  that can take a step. It is the safety half of `WaitEnds`.

### The broker process

`BrokerProcessProofs`: `CleanReturn`, `ProcessRuns => []ReturnsClean`: when
`run_broker` returns there has been a Ctrl-C, its listeners and its worker have
ended and no socket is open. (Not that it does return: see `interrupt`; and the
client actors, which nobody joins, run until the process exits.) `ProcessInv`
says that a future is ready and a task has ended only after a signal, that the
socket is open only while its task lives, and that a worker that has ended has
no stream.

### The worker

`WorkerProofs`, from `WorkerInv`:

* `WorkerTypes`: `Spec => []TypeOK`. `OnlyRequestsEnd`: `Spec =>
  []EndsOnRequest`, with the additional fact that a `ctrl_c()` future is ready
  only after a signal.
* `OrderOfAnswers`: `Spec => []AnswersInOrder`. As long as the stream is open,
  the calls the broker has sent on it are those answered, then the one in
  execution, then those in the inbox, in that order (`OpenInv`), and no call is
  sent twice (`SentOnce`). A closed stream gets no further answers that count,
  and a new one starts empty (`StreamInv`).

### The client

`IPCClientProofs`, from `ClientInv`:

* `ClientTypes`: `Spec => []TypeOK`, with the two capacities. `ActorInv` adds
  that a length that was read has its packet behind it.
* `OwnReply`: `Spec => []RepliesMatch`. The actor never looks at what it reads,
  so that it hands out the right reply rests on there being no other: `StepInv`
  says that on a handle without subscriptions the stream is in step and exactly
  one reply is due while the actor waits for one, none otherwise.
* `NoEventMissed`: `Spec => []NoGap`. `AloneInv` describes the whole stream of a
  subscription that is alone: `Subscribed`, unless it was read, then every event
  that was not forwarded. `FeedIsComplete` counts them.
* `NoEventRepeated`: `Spec => NoRepeat`, an action property, from `EventOrder`:
  what is still to be read is later than all that was forwarded, torn or not.

### Only model-checked

* Liveness, that is `EventuallyAnswered`, `QueuedAnswered`, `ServicesReleased`,
  `DisconnectCleaned`, `EventDelivered`, `MethodReturns`, `ActorTerminates`,
  `GracefulShutdown`, `RegisteredAgain`, `WaitEnds`: the prover has no rules for
  fairness and `ENABLED`. For waiting in the broker and for back-pressure the
  safety half, that there is always a task that can take a step, is proved
  (`Gridlock`, `MoverExists`).
* `ParsesReference` of `Rob`: `Parse` and the reference
  are recursive on signature and shape, and a proof needs induction over them,
  which is out of the provers' reach.
* The violations, which are traces of the model.

## What is not modelled

* Byte-level framing, apart from the split of length and body and the size
  limit; JSON; time.
* The transports: Windows named pipes (`start_named_pipe_listener` and the retry
  loops of `connect` on Windows), the file type of a stale Unix socket,
  `BROKER_ADDR`. They are operating system calls around `SpawnClient` and
  `Connect`, which succeed or fail.
* The value `listObjects` returns, the contents of the activation files (they
  are the initial value of `services`), printing and logging.
* The examples, which hold no logic of the system, and the installation scripts.
* The broker's state across its own restart: it has none.

## Plan

1. A topic as an ordered log per publisher, of which each subscriber reads a
   subsequence, and `Broker` shown to implement it, from `EventInv`.
2. Framing on a stream of chunks, to derive `IPCClient`'s `ReadTorn` from
   `read_packet`.
