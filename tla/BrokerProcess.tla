---------------------------- MODULE BrokerProcess ----------------------------
(***************************************************************************)
(* The life of the broker process (run_broker): it binds its listeners,    *)
(* spawns a task for each and one for its own worker, which serves the     *)
(* object rob (ListObjects), and returns when all of them have ended.  The *)
(* worker is the one of module Worker; its broker is this process, so      *)
(* listening is the state of the Unix listener.  Each task waits for       *)
(* Ctrl-C with a ctrl_c() of its own in every round of its select!.        *)
(*                                                                         *)
(* What an accepted connection then does is module Broker; backlog counts  *)
(* the connections of other processes that wait to be accepted.            *)
(***************************************************************************)
EXTENDS Worker, FiniteSets

CONSTANTS
  Debug,        \* whether APP_MODE is "debug"
  MaxConnects   \* bound: connections made to each listener

\* The TCP listener is for debugging only.
Listener == IF Debug THEN {"unix", "tcp"} ELSE {"unix"}

VARIABLES
  main,     \* where run_broker is
  task,     \* the listener tasks
  ready,    \* the ctrl_c() future of a listener's select! is ready
  backlog,  \* connections waiting for accept
  connects  \* connections made so far

listeners == <<task, ready, backlog, connects>>
processVars == <<main, listeners, workerVars>>

ProcessInit ==
  /\ Init /\ listening = FALSE
  /\ main = "starting"
  /\ task = [l \in Listener |-> "unbound"]
  /\ ready = [l \in Listener |-> FALSE]
  /\ backlog = [l \in Listener |-> 0]
  /\ connects = [l \in Listener |-> 0]

-----------------------------------------------------------------------------
\* A listener binds and its task is spawned, or run_broker returns the error.
Bind(l) ==
  /\ task[l] = "unbound"
  /\ \/ /\ task' = [task EXCEPT ![l] = "spawned"]
        /\ listening' = (listening \/ l = "unix")
        /\ UNCHANGED main
     \/ main' = "failed" /\ UNCHANGED <<task, listening>>
  /\ UNCHANGED <<ready, backlog, connects, code, signal, stream, sent, outages>>

\* The TCP listener comes first, in debug mode.
StartTcpListener ==
  /\ main = "starting" /\ "tcp" \in Listener
  /\ Bind("tcp")

\* A stale socket at UNIX_PATH is removed first; bind fails if the file there
\* is something else, or cannot be removed.
StartUnixListener ==
  /\ main = "starting" /\ \A l \in Listener \ {"unix"} : task[l] # "unbound"
  /\ Bind("unix")

\* The worker is spawned and run_broker waits in join!.
SpawnRob ==
  /\ main = "starting" /\ \A l \in Listener : task[l] # "unbound"
  /\ main' = "joining"
  /\ UNCHANGED <<listeners, workerVars>>

Join ==
  /\ main = "joining" /\ pc = "ended" /\ \A l \in Listener : task[l] = "ended"
  /\ main' = "returned"
  /\ UNCHANGED <<listeners, workerVars>>

Alive == main \in {"starting", "joining"}

\* A listener's task runs for the first time.
FirstPoll(l) ==
  /\ Alive /\ task[l] = "spawned"
  /\ task' = [task EXCEPT ![l] = "select"]
  /\ handler' = TRUE
  /\ UNCHANGED <<main, ready, backlog, connects, code, ctrlC, stop, interrupts, stream, broker>>

\* The accept branch: spawn_client, and the next round of the loop.
Accept(l) ==
  /\ Alive /\ task[l] = "select" /\ backlog[l] > 0
  /\ backlog' = [backlog EXCEPT ![l] = @ - 1]
  /\ ready' = [ready EXCEPT ![l] = FALSE]
  /\ UNCHANGED <<main, task, connects, workerVars>>

\* The ctrl_c() branch: the task ends and closes its socket, and with it the
\* worker's connection if it has not been accepted yet: nothing the worker has
\* written to it is answered then.
ListenerCtrlC(l) ==
  /\ Alive /\ task[l] = "select" /\ ready[l]
  /\ task' = [task EXCEPT ![l] = "ended"]
  /\ ready' = [ready EXCEPT ![l] = FALSE]
  /\ listening' = (listening /\ l # "unix")
  /\ \/ UNCHANGED <<link, inbox>>
     \/ /\ l = "unix" /\ link = "open"
        /\ received = <<>> /\ Len(inbox) = Cardinality(registered)
        /\ link' = "closed" /\ inbox' = <<>>
  /\ UNCHANGED <<main, backlog, connects, code, signal, registered, received, answers,
                 sent, outages>>

\* The worker's task.
Rob ==
  /\ main = "joining"
  /\ Step \/ CtrlCBranch
  /\ UNCHANGED <<main, listeners>>

\* Another process connects, or calls listObjects.
ClientConnects(l) ==
  /\ Alive /\ task[l] \in {"spawned", "select"} /\ connects[l] < MaxConnects
  /\ connects' = [connects EXCEPT ![l] = @ + 1]
  /\ backlog' = [backlog EXCEPT ![l] = @ + 1]
  /\ UNCHANGED <<main, task, ready, workerVars>>

ClientCalls(id) ==
  /\ Alive
  /\ SendCall(id)
  /\ UNCHANGED <<main, listeners>>

\* The signal reaches every ctrl_c() future that exists at that moment; before
\* there is one it kills the process.
ProcessInterrupt ==
  /\ Alive /\ interrupts < MaxInterrupts
  /\ interrupts' = interrupts + 1
  /\ IF handler
     THEN /\ ctrlC' = Selecting
          /\ ready' = [l \in Listener |-> task[l] = "select"]
          /\ UNCHANGED main
     ELSE main' = "killed" /\ UNCHANGED <<ctrlC, ready>>
  /\ UNCHANGED <<task, backlog, connects, code, handler, stop, stream, broker>>

ProcessNext ==
  \/ StartTcpListener \/ StartUnixListener
  \/ \E l \in Listener :
       FirstPoll(l) \/ Accept(l) \/ ListenerCtrlC(l) \/ ClientConnects(l)
  \/ SpawnRob \/ Join \/ Rob \/ ProcessInterrupt
  \/ \E id \in CallId : ClientCalls(id)

ProcessRuns == ProcessInit /\ [][ProcessNext]_processVars

\* Every task runs when it can.
ProcessSpec ==
  /\ ProcessRuns
  /\ WF_processVars(SpawnRob) /\ WF_processVars(Join) /\ WF_processVars(Rob)
  /\ WF_processVars(StartTcpListener) /\ WF_processVars(StartUnixListener)
  /\ \A l \in Listener : /\ WF_processVars(FirstPoll(l))
                         /\ WF_processVars(Accept(l) \/ ListenerCtrlC(l))

-----------------------------------------------------------------------------
\* Every task waits for Ctrl-C, and the signal has arrived at each of them.
Interrupted ==
  /\ main = "joining"
  /\ ctrlC \/ pc = "ended"
  /\ \A l \in Listener : ready[l] \/ task[l] = "ended"

\* "Waits for Ctrl+C to gracefully shut down the broker", says run_broker's
\* comment: a Ctrl-C that reaches all of the tasks while they wait for it makes
\* run_broker return.  The code does not keep that.  A task whose select! has
\* another branch ready may take that one, and waits for the next signal then.  And
\* the Unix listener may end first: it closes the worker's link if that has not
\* been accepted, the worker takes the read error for its ctrl_c() branch, and
\* reconnects for ever to a socket that nobody serves.
InterruptHeeded == Interrupted ~> main = "returned"

\* When run_broker returns, there has been a Ctrl-C, no listener accepts
\* connections, and the worker has dropped its stream.  (The actors of the clients
\* are not joined: they run until the process exits.)
ReturnsClean ==
  main = "returned" =>
    /\ interrupts > 0
    /\ ~listening /\ link = "none"
    /\ \A l \in Listener : task[l] = "ended" /\ ~ready[l]
=============================================================================
