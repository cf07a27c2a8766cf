---------------------------- MODULE CallService ----------------------------
(***************************************************************************)
(* What the broker promises about calls, without its maps, channels, locks *)
(* and tasks: a call is given to at most one worker, answered at most once *)
(* and to its caller only, and lost only with a connection it depends on.  *)
(* Calls do not depend on each other, so a step may move several of them.  *)
(***************************************************************************)
CONSTANTS
  Client,  \* connections
  CallId,  \* calls
  Nil,     \* no connection
  Queues   \* calls may wait for a service, and be dropped while they wait

VARIABLES
  caller,  \* the connection that made each call
  state,   \* how far each call has come, and the connection it was handed to
  gone     \* connections that have broken

serviceVars == <<caller, state, gone>>

At(stage, c) == [stage |-> stage, with |-> c]

Init ==
  /\ caller = [id \in CallId |-> Nil]
  /\ state = [id \in CallId |-> At("new", Nil)]
  /\ gone = {}

\* A connection makes the call.
Accept(id, from, to) ==
  /\ from = At("new", Nil) /\ to = At("accepted", Nil)
  /\ caller'[id] \in Client

\* The call is given to a worker: once, and not after an answer.
Assign(from, to) ==
  /\ from = At("accepted", Nil)
  /\ to \in {At("assigned", w) : w \in Client}

\* The worker's Result, or an Error of the broker, is sent to the caller ...
Reply(id, from, to) ==
  /\ from.stage \in {"accepted", "assigned"}
  /\ to = At("replied", caller[id])

\* ... and arrives.
Deliver(id, from, to) ==
  /\ from = At("replied", caller[id])
  /\ to = At("answered", Nil)

\* The call is lost with its caller or the worker that has it, or while it
\* waits for a service.
Lose(id, from, to) ==
  /\ \/ from.stage = "accepted" /\ Queues
     \/ /\ from.stage \in {"accepted", "assigned", "replied"}
        /\ {from.with, caller[id]} \cap gone' # {}
  /\ to = At("lost", Nil)

CallStep(id, from, to) ==
  \/ Accept(id, from, to)
  \/ /\ caller'[id] = caller[id]
     /\ \/ to = from \/ Assign(from, to)
        \/ Reply(id, from, to) \/ Deliver(id, from, to) \/ Lose(id, from, to)

Next ==
  /\ gone \subseteq gone'
  /\ \A id \in CallId : CallStep(id, state[id], state'[id])

Spec == Init /\ [][Next]_serviceVars
=============================================================================
