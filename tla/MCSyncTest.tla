----------------------------- MODULE MCSyncTest -----------------------------
(* Values for the constants of SyncTest that a configuration file cannot   *)
(* write.                                                                  *)
EXTENDS SyncTest

CONSTANTS Ops0, Ops1, Ops2   \* operations of each thread

AllThreads == 0 .. threads_nb - 1

AllKeys == 0 .. range - 1

Before == -1

After == range

Ops == [t \in Threads |-> CASE t = 0 -> Ops0 [] t = 1 -> Ops1 [] OTHER -> Ops2]
=============================================================================
