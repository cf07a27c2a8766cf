---------------------------- MODULE MCIPCClient ----------------------------
(* Instances of the client for TLC.                                        *)
EXTENDS IPCClient

CONSTANTS call1, call2, big, has, pub, sub

AllKinds == [op \in {call1, call2, big, has, pub, sub} |->
               CASE op \in {call1, call2, big} -> "remote_call"
                 [] op = has -> "has_object"
                 [] op = pub -> "publish"
                 [] op = sub -> "subscribe"]

Kinds == [op \in Op |-> AllKinds[op]]
=============================================================================
