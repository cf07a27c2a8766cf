------------------------------- MODULE MCRob -------------------------------
(* An instance of the command line for TLC.                                *)
EXTENDS Rob

Chars == {"s", "i", "n", "(", ")", "{", "}"}
Args == {"a", "7", "-v"}
Numbers == [x \in {"7"} |-> 7]
=============================================================================
