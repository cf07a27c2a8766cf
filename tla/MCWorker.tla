------------------------------ MODULE MCWorker ------------------------------
(* Instances of the worker for TLC.                                        *)
EXTENDS Worker

CONSTANTS o1, o2, k1, k2, k3

\* Two calls of one object and one of another.
Objects == [id \in CallId |-> IF id = k3 THEN o2 ELSE o1]
=============================================================================
