------------------------- MODULE BrokerProcessProofs -------------------------
(***************************************************************************)
(* A proof about the end of the broker process, in either mode, and for    *)
(* any number of connections, calls and interrupts.                        *)
(***************************************************************************)
EXTENDS BrokerProcess, TLAPS

\* The listener tasks and what they wait for.
ListenerTypes ==
  /\ task \in [Listener -> {"unbound", "spawned", "select", "ended"}]
  /\ ready \in [Listener -> BOOLEAN]
  /\ interrupts \in Nat

\* A ctrl_c() future is ready, and a task has ended, only after a signal.
SignalInv ==
  /\ ctrlC \/ pc = "ended" => interrupts > 0
  /\ \A l \in Listener : ready[l] => task[l] = "select" /\ interrupts > 0
  /\ \A l \in Listener : task[l] = "ended" => interrupts > 0

\* The socket is open only while its task lives, and so is the worker's stream.
SocketInv ==
  /\ listening \in BOOLEAN
  /\ listening => task["unix"] \in {"spawned", "select"}
  /\ pc = "ended" => link = "none"

\* run_broker returns after all of its tasks.
JoinInv == main = "returned" => pc = "ended" /\ \A l \in Listener : task[l] = "ended"

ProcessInv == ListenerTypes /\ SignalInv /\ SocketInv /\ JoinInv

\* Nothing is bound, and nobody has pressed Ctrl-C, at the start.
LEMMA ProcessInitially == ProcessInit => ProcessInv
  BY DEF Listener, ProcessInit, Init, NoStream, ProcessInv, ListenerTypes, SignalInv,
         SocketInv, JoinInv

\* The worker goes on, or ends by a signal and drops its stream.
LEMMA RobEnds ==
  ASSUME ProcessInv, Rob
  PROVE  /\ UNCHANGED <<main, listeners, interrupts, listening>>
         /\ ctrlC' => ctrlC
         /\ pc' = "ended" => interrupts > 0 /\ link' = "none"
  <1> USE DEF code, signal, stream, broker
  <1>1. CASE Step
    <2>1. pc' # "ended"
      BY <1>1 DEF Step, Connect, Register, RegisterFails, Serve, ReadCall, ReadOther, ReadFails,
                  Answer, AnswerFails, Retry, Fail, EnterSelect
    <2>2. ctrlC' = FALSE \/ ctrlC' = ctrlC
      BY <1>1 DEF Step, Connect, Register, RegisterFails, Serve, ReadCall, ReadOther, ReadFails,
                  Answer, AnswerFails, Retry, Fail, EnterSelect
    <2>3. UNCHANGED <<interrupts, listening>>
      BY <1>1 DEF Step, Connect, Register, RegisterFails, Serve, ReadCall, ReadOther, ReadFails,
                  Answer, AnswerFails, Retry, Fail, EnterSelect
    <2> QED BY <2>1, <2>2, <2>3 DEF Rob
  <1>2. CASE CtrlCBranch
    BY <1>2 DEF Rob, CtrlCBranch, End, DropStream, ProcessInv, SignalInv
  <1> QED BY <1>1, <1>2 DEF Rob

\* A listener is bound by its own task, which has not run yet.
LEMMA BindKeeps ==
  ASSUME ProcessInv, NEW l \in Listener, Bind(l), main = "starting"
  PROVE  ProcessInv'
  <1> USE DEF ProcessInv, Bind, code, signal, stream
  <1>1. ListenerTypes' /\ SignalInv'
    BY DEF ListenerTypes, SignalInv
  <1>2. SocketInv'
    <2>1. CASE /\ task' = [task EXCEPT ![l] = "spawned"]
               /\ listening' = (listening \/ l = "unix")
      <3>1. task'["unix"] = IF l = "unix" THEN "spawned" ELSE task["unix"]
        BY <2>1 DEF Listener, ListenerTypes
      <3> QED BY <2>1, <3>1 DEF SocketInv
    <2>2. CASE UNCHANGED <<task, listening>>
      BY <2>2 DEF SocketInv
    <2> QED BY <2>1, <2>2
  <1>3. main' # "returned"
    OBVIOUS
  <1> QED BY <1>1, <1>2, <1>3 DEF JoinInv

\* Every action keeps the invariant.
LEMMA ProcessStep == ProcessInv /\ [ProcessNext]_processVars => ProcessInv'
  <1> SUFFICES ASSUME ProcessInv, [ProcessNext]_processVars PROVE ProcessInv'
    OBVIOUS
  <1> USE DEF listeners, workerVars, code, signal, stream, broker, Alive
  <1>1. CASE StartTcpListener \/ StartUnixListener
    BY <1>1, BindKeeps DEF StartTcpListener, StartUnixListener, Listener
  <1>2. ASSUME NEW l \in Listener, FirstPoll(l) PROVE ProcessInv'
    BY <1>2 DEF FirstPoll, ProcessInv, ListenerTypes, SignalInv, SocketInv, JoinInv
  <1>3. ASSUME NEW l \in Listener, Accept(l) PROVE ProcessInv'
    BY <1>3 DEF Accept, ProcessInv, ListenerTypes, SignalInv, SocketInv, JoinInv
  <1>4. ASSUME NEW l \in Listener, ListenerCtrlC(l) PROVE ProcessInv'
    <2>1. ListenerTypes'
      BY <1>4 DEF ListenerCtrlC, ProcessInv, ListenerTypes
    <2>2. SignalInv'
      BY <1>4 DEF ListenerCtrlC, ProcessInv, ListenerTypes, SignalInv
    <2>3. SocketInv'
      BY <1>4 DEF ListenerCtrlC, ProcessInv, ListenerTypes, SocketInv, Listener
    <2> QED BY <1>4, <2>1, <2>2, <2>3 DEF ListenerCtrlC, ProcessInv, JoinInv
  <1>5. ASSUME NEW l \in Listener, ClientConnects(l) PROVE ProcessInv'
    BY <1>5 DEF ClientConnects, ProcessInv, ListenerTypes, SignalInv, SocketInv, JoinInv
  <1>6. CASE SpawnRob
    BY <1>6 DEF SpawnRob, ProcessInv, ListenerTypes, SignalInv, SocketInv, JoinInv
  <1>7. CASE Join
    BY <1>7 DEF Join, ProcessInv, ListenerTypes, SignalInv, SocketInv, JoinInv
  <1>8. CASE Rob
    <2>1. main = "joining"
      BY <1>8 DEF Rob
    <2> QED BY <1>8, <2>1, RobEnds DEF ProcessInv, ListenerTypes, SignalInv, SocketInv, JoinInv
  <1>9. CASE ProcessInterrupt
    <2>1. interrupts' > 0 /\ interrupts' \in Nat
      BY <1>9 DEF ProcessInterrupt, ProcessInv, ListenerTypes
    <2>2. ListenerTypes' /\ SignalInv'
      BY <1>9, <2>1 DEF ProcessInterrupt, ProcessInv, ListenerTypes, SignalInv
    <2> QED BY <1>9, <2>2 DEF ProcessInterrupt, ProcessInv, SocketInv, JoinInv
  <1>10. ASSUME NEW id \in CallId, ClientCalls(id) PROVE ProcessInv'
    BY <1>10 DEF ClientCalls, SendCall, ProcessInv, ListenerTypes, SignalInv, SocketInv, JoinInv
  <1>11. CASE UNCHANGED processVars
    BY <1>11 DEF processVars, ProcessInv, ListenerTypes, SignalInv, SocketInv, JoinInv
  <1> QED BY <1>1, <1>2, <1>3, <1>4, <1>5, <1>6, <1>7, <1>8, <1>9, <1>10, <1>11 DEF ProcessNext

\* run_broker returns only because of a Ctrl-C, and when it does the tasks it joins
\* have ended, no socket accepts connections and the worker has dropped its stream.
THEOREM CleanReturn == ProcessRuns => []ReturnsClean
  <1>1. ProcessInv => ReturnsClean
    BY DEF Listener, ProcessInv, ListenerTypes, SignalInv, SocketInv, JoinInv, ReturnsClean
  <1> QED BY <1>1, ProcessInitially, ProcessStep, PTL DEF ProcessRuns
=============================================================================
