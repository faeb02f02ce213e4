------------------------------- MODULE MCUrcu -------------------------------
EXTENDS Urcu

CONSTANTS Ops0, Ops1, Ops2   \* operations of each thread

Ops == [t \in Threads |-> CASE t = 0 -> Ops0 [] t = 1 -> Ops1 [] OTHER -> Ops2]
=============================================================================
