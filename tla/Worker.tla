------------------------------- MODULE Worker -------------------------------
(***************************************************************************)
(* A worker process (src/worker.rs): worker_supervisor, which runs         *)
(* run_worker again until it is told to stop, and run_worker, which        *)
(* connects to the broker, registers the objects and serves calls, one at  *)
(* a time.  The broker is the environment; it can go away and come back.   *)
(*                                                                         *)
(* Two things can stop a worker.  A change of the watch channel of         *)
(* with_graceful_shutdown stays visible, because every select! waits on a  *)
(* fresh clone of a receiver that has never seen it.  A Ctrl-C is only     *)
(* seen by a ctrl_c() future that exists when the signal arrives, and such *)
(* a future lives as long as one select!: when another branch is taken, or *)
(* while the worker is outside select!, the signal is gone.                *)
(*                                                                         *)
(* Grain.  One action is one branch of a select!, one connect, or one      *)
(* write_packet; a method call is merged with the write of its result.     *)
(***************************************************************************)
EXTENDS Naturals, Sequences

CONSTANTS
  Object,        \* names of the objects the worker was built with
  CallId,        \* calls the broker may send it, each once
  ObjectOf,      \* the object of each call
  Large,         \* calls whose Result is over BUF_SIZE
  Nil,           \* Option::None
  Graceful,      \* built with with_graceful_shutdown
  MaxOutages,    \* bound: how often the broker goes away
  MaxInterrupts  \* bound: how often Ctrl-C is pressed

ASSUME WorkerAssumption ==
  /\ ObjectOf \in [CallId -> Object]
  /\ Large \subseteq CallId /\ Nil \notin CallId
  /\ Graceful \in BOOLEAN
  /\ MaxOutages \in Nat /\ MaxInterrupts \in Nat

VARIABLES
  pc,          \* where the supervisor and run_worker are
  toRegister,  \* objects that the registration loop has not come to
  current,     \* the call being executed
  ctrlC,       \* the ctrl_c() future of the current select! is ready
  handler,     \* tokio has replaced the default action of SIGINT
  stop,        \* the watch channel has changed, or its Sender is gone
  listening,   \* the broker accepts connections
  link,        \* the stream: "none", "open", or "closed" by the broker
  inbox,       \* packets the broker has written to the stream
  registered,  \* history: objects registered on this stream
  received,    \* history: calls sent on this stream, in order
  answers,     \* history: calls answered on this stream, in order
  sent,        \* history: calls the broker has sent
  outages,
  interrupts

code   == <<pc, toRegister, current>>
signal == <<ctrlC, handler, stop, interrupts>>
stream == <<link, inbox, registered, received, answers>>
broker == <<listening, sent, outages>>
workerVars == <<code, signal, stream, broker>>

Over == pc \in {"ended", "killed"}

\* Waiting in a select!, of run_worker or of the supervisor.
Selecting == pc \in {"select", "retry"}

Packet == [type : {"Registered"}, object : Object] \cup [type : {"Call"}, call : CallId]

\* A call is in execution exactly when the code is in obj.call or the write of
\* its result, and there is a stream exactly while run_worker has connected.
TypeOK ==
  /\ pc \in {"connect", "register", "select", "call", "retry", "ended", "killed"}
  /\ toRegister \subseteq Object
  /\ current \in CallId \cup {Nil} /\ (current # Nil <=> pc = "call")
  /\ ctrlC \in BOOLEAN /\ (ctrlC => Selecting)
  /\ handler \in BOOLEAN /\ (Selecting => handler)
  /\ stop \in BOOLEAN /\ listening \in BOOLEAN
  /\ link \in {"none", "open", "closed"}
  /\ link # "none" <=> pc \in {"register", "select", "call"}
  /\ inbox \in Seq(Packet)
  /\ registered \subseteq Object
  /\ received \in Seq(CallId) /\ answers \in Seq(CallId)
  /\ sent \subseteq CallId
  /\ outages \in 0..MaxOutages /\ interrupts \in 0..MaxInterrupts

NoStream ==
  /\ link = "none" /\ inbox = <<>>
  /\ registered = {} /\ received = <<>> /\ answers = <<>>

Init ==
  /\ pc = "connect" /\ toRegister = {} /\ current = Nil
  /\ ctrlC = FALSE /\ handler = FALSE /\ stop = FALSE
  /\ NoStream
  /\ listening \in BOOLEAN
  /\ sent = {} /\ outages = 0 /\ interrupts = 0

-----------------------------------------------------------------------------
(* Helpers.                                                                *)

\* A select! is entered: its ctrl_c() future is new, and polling it installs
\* the handler.
EnterSelect(label) ==
  /\ pc' = label
  /\ ctrlC' = FALSE
  /\ handler' = TRUE
  /\ UNCHANGED <<stop, interrupts>>

\* run_worker returns and drops the stream.
DropStream ==
  /\ link' = "none" /\ inbox' = <<>>
  /\ registered' = {} /\ received' = <<>> /\ answers' = <<>>

\* run_worker returns an error and the supervisor goes to its own select!.
\* Mutated first: the error is not recorded, so run_worker returns Ok.
FailUnrecorded ==
  /\ pc' = "ended" /\ ctrlC' = FALSE
  /\ DropStream
  /\ toRegister' = {} /\ current' = Nil
  /\ UNCHANGED <<handler, stop, interrupts>>

Fail ==
  /\ EnterSelect("retry")
  /\ DropStream
  /\ toRegister' = {} /\ current' = Nil

\* run_worker returns Ok or the supervisor breaks out of its loop.
End ==
  /\ pc' = "ended" /\ ctrlC' = FALSE
  /\ DropStream
  /\ UNCHANGED <<toRegister, current, handler, stop, interrupts, broker>>

-----------------------------------------------------------------------------
(* run_worker: connect and register.                                       *)

\* Mutated: a connection after the first one does not register the objects.
ConnectOnce ==
  /\ pc = "connect"
  /\ IF listening
     THEN /\ pc' = "register" /\ link' = "open"
          /\ toRegister' = IF outages = 0 THEN Object ELSE {}
          /\ UNCHANGED <<current, signal, inbox, registered, received, answers>>
     ELSE Fail
  /\ UNCHANGED broker

Connect ==
  /\ pc = "connect"
  /\ IF listening
     THEN /\ pc' = "register" /\ link' = "open" /\ toRegister' = Object
          /\ UNCHANGED <<current, signal, inbox, registered, received, answers>>
     ELSE Fail
  /\ UNCHANGED broker

\* write_packet of a RegisterObject.  The broker answers Registered.
Register(o) ==
  /\ pc = "register" /\ o \in toRegister
  /\ toRegister' = toRegister \ {o}
  /\ IF link = "open"
     THEN /\ registered' = registered \cup {o}
          /\ inbox' = Append(inbox, [type |-> "Registered", object |-> o])
     ELSE UNCHANGED <<registered, inbox>>
  /\ UNCHANGED <<pc, current, signal, link, received, answers, broker>>

\* It fails when the broker is gone; a TCP stream may take the data all the
\* same, which is Register on a closed stream.
RegisterFails ==
  /\ pc = "register" /\ toRegister # {} /\ link = "closed"
  /\ Fail
  /\ UNCHANGED broker

\* The registration loop is over.
Serve ==
  /\ pc = "register" /\ toRegister = {}
  /\ EnterSelect("select")
  /\ UNCHANGED <<toRegister, current, stream, broker>>

-----------------------------------------------------------------------------
(* run_worker: the select! loop.                                           *)

\* read_packet returns a Call of a registered object ...
ReadCall ==
  /\ pc = "select" /\ inbox # <<>> /\ Head(inbox).type = "Call"
  /\ pc' = "call" /\ current' = Head(inbox).call
  /\ inbox' = Tail(inbox)
  /\ ctrlC' = FALSE
  /\ UNCHANGED <<toRegister, handler, stop, interrupts, link, registered, received,
                 answers, broker>>

\* ... or a response, which is logged.
ReadOther ==
  /\ pc = "select" /\ inbox # <<>> /\ Head(inbox).type # "Call"
  /\ inbox' = Tail(inbox)
  /\ EnterSelect("select")
  /\ UNCHANGED <<toRegister, current, link, registered, received, answers, broker>>

\* read_packet fails: the data written before the broker went is read first.
ReadFails ==
  /\ pc = "select" /\ inbox = <<>> /\ link = "closed"
  /\ Fail
  /\ UNCHANGED broker

\* obj.call returns and its Result is written.
Answer ==
  /\ pc = "call" /\ current \notin Large
  /\ answers' = IF link = "open" THEN Append(answers, current) ELSE answers
  /\ current' = Nil
  /\ EnterSelect("select")
  /\ UNCHANGED <<toRegister, link, inbox, registered, received, broker>>

\* write_packet fails, on a broken stream or a Result over BUF_SIZE: the
\* connection is given up.  Mutated first: the failure is only logged.
AnswerFailsLogged ==
  /\ pc = "call" /\ (link = "closed" \/ current \in Large)
  /\ current' = Nil
  /\ EnterSelect("select")
  /\ UNCHANGED <<toRegister, stream, broker>>

AnswerFailsKeeps ==
  /\ pc = "call" /\ (link = "closed" \/ current \in Large)
  /\ EnterSelect("retry")
  /\ DropStream
  /\ UNCHANGED <<toRegister, current, broker>>

AnswerFails ==
  /\ pc = "call" /\ (link = "closed" \/ current \in Large)
  /\ Fail
  /\ UNCHANGED broker

-----------------------------------------------------------------------------
(* Stopping.                                                               *)

\* Mutated: only run_worker looks at the watch channel.
ShutdownBranchOnce ==
  /\ pc = "select" /\ Graceful /\ stop
  /\ End

\* The watch branch of either select!.
ShutdownBranch ==
  /\ Selecting /\ Graceful /\ stop
  /\ End

\* The ctrl_c() branch of either select!.
CtrlCBranch ==
  /\ Selecting /\ ctrlC
  /\ End

\* The supervisor's two seconds are over.
Retry ==
  /\ pc = "retry"
  /\ pc' = "connect" /\ ctrlC' = FALSE
  /\ UNCHANGED <<toRegister, current, handler, stop, interrupts, stream, broker>>

\* The owner of the watch::Sender sends on it, or drops it.
RequestShutdown ==
  /\ Graceful /\ ~stop
  /\ stop' = TRUE
  /\ UNCHANGED <<code, ctrlC, handler, interrupts, stream, broker>>

\* SIGINT: the default action kills the process; tokio's handler completes the
\* ctrl_c() futures there are.
Interrupt ==
  /\ ~Over /\ interrupts < MaxInterrupts
  /\ interrupts' = interrupts + 1
  /\ IF handler
     THEN ctrlC' = Selecting /\ UNCHANGED <<code, stream>>
     ELSE /\ pc' = "killed" /\ DropStream
          /\ toRegister' = {} /\ current' = Nil /\ UNCHANGED ctrlC
  /\ UNCHANGED <<handler, stop, broker>>

-----------------------------------------------------------------------------
(* The broker.                                                             *)

\* It forwards a call to the connection that registered the object.
SendCall(id) ==
  /\ link = "open" /\ id \notin sent /\ ObjectOf[id] \in registered
  /\ inbox' = Append(inbox, [type |-> "Call", call |-> id])
  /\ received' = Append(received, id)
  /\ sent' = sent \cup {id}
  /\ UNCHANGED <<code, signal, link, registered, answers, listening, outages>>

BrokerStops ==
  /\ listening /\ outages < MaxOutages
  /\ listening' = FALSE /\ outages' = outages + 1
  /\ link' = IF link = "open" THEN "closed" ELSE link
  /\ UNCHANGED <<code, signal, inbox, registered, received, answers, sent>>

BrokerStarts ==
  /\ ~listening
  /\ listening' = TRUE
  /\ UNCHANGED <<code, signal, stream, sent, outages>>

-----------------------------------------------------------------------------
Step ==
  \/ Connect \/ (\E o \in Object : Register(o)) \/ RegisterFails \/ Serve
  \/ ReadCall \/ ReadOther \/ ReadFails
  \/ Answer \/ AnswerFails
  \/ Retry

Environment ==
  \/ RequestShutdown \/ Interrupt
  \/ (\E id \in CallId : SendCall(id)) \/ BrokerStops \/ BrokerStarts

Next == Step \/ ShutdownBranch \/ CtrlCBranch \/ Environment

Spec == Init /\ [][Next]_workerVars

\* The worker's task runs, its methods return, and the broker takes what is
\* written to it.  select! starts at a random branch, so a branch that is ready
\* again and again is taken; the watch channel is ready for good once it is.
FairSpec ==
  /\ Spec
  /\ WF_workerVars(Step)
  /\ SF_workerVars(ShutdownBranch)

-----------------------------------------------------------------------------
\* A worker built with graceful shutdown ends when the watch channel changes,
\* whether it serves, reconnects or waits for a broker that never comes.
GracefulShutdown == stop ~> Over

\* Losing the broker, however and whenever it happens, never ends the worker:
\* that takes a change of the watch channel or a Ctrl-C.
EndsOnRequest == Over => stop \/ interrupts > 0

\* Once the broker stays, every object is registered with it again for good,
\* unless the worker was told to stop.
RegisteredAgain ==
  <>[]listening => <>[](Over \/ (link = "open" /\ registered = Object))

\* A stream carries the answers to its own calls in the order of the calls,
\* with none left out: a call that cannot be answered takes the stream down
\* rather than let a later answer pass it, and no answer moves to the stream
\* after a reconnection.
AnswersInOrder ==
  /\ Len(answers) <= Len(received)
  /\ \A i \in DOMAIN answers : answers[i] = received[i]
=============================================================================
