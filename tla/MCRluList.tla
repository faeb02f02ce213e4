----------------------------- MODULE MCRluList -----------------------------
(* Values for the constants of RluList that a configuration file cannot    *)
(* write: thread 0 updates the list, thread 1 too or it only reads.        *)
EXTENDS RluList, TLC

CONSTANTS Node1, Node2, Node3, Updates0, Updates1, Reads1

NoLock == [o \in Objs |-> NULL]

ThreeNodes == Node1 :> 1 @@ Node2 :> 2 @@ Node3 :> 3

UpdaterAndReader ==
    [t \in Threads |-> IF t \in Writers THEN {"add", "remove"} ELSE {"contains"}]

Removers == [t \in Threads |-> {"remove"}]

Calls == [t \in Threads |-> IF t = 0 THEN Updates0 ELSE Updates1 + Reads1]

\* With one updater a call restarts once at most.
Sections == [t \in Threads |-> 2 * Calls[t]]
=============================================================================
