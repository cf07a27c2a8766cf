--------------------------- MODULE MCBackpressure ---------------------------
(* An instance of the event path for TLC.                                  *)
EXTENDS Backpressure

\* Clients that publish to each other.
EachOther == [c \in Conn |-> Conn \ {c}]
=============================================================================
