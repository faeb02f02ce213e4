-------------------------------- MODULE Urcu --------------------------------
(***************************************************************************)
(* new-urcu.c: the userspace RCU that the rcu_* hash list uses, with the   *)
(* pattern of its client, hash-list.c: readers walk the list in a section, *)
(* writers change a bucket under its spin lock, and a removed node goes to *)
(* urcu_free once the lock is released.                                    *)
(*                                                                         *)
(* A bucket is the set of nodes that its list links.  What a section can   *)
(* have its hands on is every node that was linked at some instant since   *)
(* it started: it may hold a node, or follow the p_next of one, after the  *)
(* node was unlinked.                                                      *)
(*                                                                         *)
(* A step is one access to shared memory, which is sequentially            *)
(* consistent: the fetch-and-add of urcu_reader_lock is a full barrier, a  *)
(* delay of the store in urcu_reader_unlock only makes a section longer.   *)
(***************************************************************************)
EXTENDS Integers, Sequences

CONSTANTS
    threads,             \* number of threads, all known to urcu_init
    Buckets,
    Nodes,               \* blocks that malloc hands out
    URCU_MAX_FREE_PTRS,
    NULL,
    MaxOps               \* bound: operations of each thread

ASSUME UrcuAssumption ==
    /\ threads \in Nat \ {0}
    /\ URCU_MAX_FREE_PTRS \in Nat \ {0}
    /\ MaxOps \in [0 .. threads - 1 -> Nat]
    /\ NULL \notin Nodes \cup Buckets \cup (0 .. threads - 1)

VARIABLES
    time,         \* rcu_node.time of each thread: even inside a section
    free_ptrs,    \* rcu_node.free_ptrs, f_size of them
    urcu_spin,    \* owner of the writer lock of each bucket
    linked,       \* the nodes of each bucket
    free,         \* the blocks that are free
    pc,
    times,        \* the counters that urcu_synchronize read
    i,            \* its loop index
    bucket,
    victim,       \* the node that a remove found
    n_ops,
    reach         \* history: what was linked at some instant of the section

urcuVars == <<time, free_ptrs, urcu_spin>>
listVars == <<linked, free>>
syncVars == <<times, i>>
opVars   == <<bucket, victim>>
vars == <<urcuVars, listVars, pc, syncVars, opVars, n_ops, reach>>

Threads == 0 .. threads - 1

AllLinked == UNION {linked[b] : b \in Buckets}

Odd(n) == n % 2 = 1

Init ==
    /\ time = [t \in Threads |-> 1]
    /\ free_ptrs = [t \in Threads |-> <<>>]
    /\ urcu_spin = [b \in Buckets |-> NULL]
    /\ linked \in [Buckets -> SUBSET Nodes]
    /\ \A b, c \in Buckets : b # c => linked[b] \cap linked[c] = {}
    /\ free = Nodes \ AllLinked
    /\ pc = [t \in Threads |-> "idle"]
    /\ times = [t \in Threads |-> [u \in Threads |-> 0]]
    /\ i = [t \in Threads |-> 0]
    /\ bucket = [t \in Threads |-> NULL]
    /\ victim = [t \in Threads |-> NULL]
    /\ n_ops = [t \in Threads |-> 0]
    /\ reach = [t \in Threads |-> {}]

Goto(t, label) == pc' = [pc EXCEPT ![t] = label]

StartOp(t) ==
    /\ pc[t] = "idle"
    /\ n_ops[t] < MaxOps[t]
    /\ n_ops' = [n_ops EXCEPT ![t] = @ + 1]

-----------------------------------------------------------------------------
(* rcu_list_contains *)

\* urcu_reader_lock
ReaderLock(t) ==
    /\ StartOp(t)
    /\ time' = [time EXCEPT ![t] = @ + 1]
    /\ reach' = [reach EXCEPT ![t] = AllLinked]
    /\ Goto(t, "section")
    /\ UNCHANGED <<free_ptrs, urcu_spin, listVars, syncVars, opVars>>

\* Mutant of ReaderUnlock: the bit is not set.
MutReaderUnlock(t) ==
    /\ pc[t] = "section"
    /\ reach' = [reach EXCEPT ![t] = {}]
    /\ Goto(t, "idle")
    /\ UNCHANGED <<urcuVars, listVars, syncVars, opVars, n_ops>>

\* urcu_reader_unlock: set bit 0.
ReaderUnlock(t) ==
    /\ pc[t] = "section"
    /\ time' = [time EXCEPT ![t] = IF Odd(@) THEN @ ELSE @ + 1]
    /\ reach' = [reach EXCEPT ![t] = {}]
    /\ Goto(t, "idle")
    /\ UNCHANGED <<free_ptrs, urcu_spin, listVars, syncVars, opVars, n_ops>>

-----------------------------------------------------------------------------
(* rcu_list_add, rcu_list_remove *)

\* Mutant of WriterLock: no exclusion.
MutWriterLock(t, b) ==
    /\ StartOp(t)
    /\ urcu_spin' = [urcu_spin EXCEPT ![b] = t]
    /\ bucket' = [bucket EXCEPT ![t] = b]
    /\ Goto(t, "locked")
    /\ UNCHANGED <<time, free_ptrs, listVars, syncVars, victim, reach>>

\* urcu_writer_lock
WriterLock(t, b) ==
    /\ StartOp(t)
    /\ urcu_spin[b] = NULL
    /\ urcu_spin' = [urcu_spin EXCEPT ![b] = t]
    /\ bucket' = [bucket EXCEPT ![t] = b]
    /\ Goto(t, "locked")
    /\ UNCHANGED <<time, free_ptrs, listVars, syncVars, victim, reach>>

\* An add of a new key links a block from malloc.
Insert(t, n) ==
    /\ pc[t] = "locked"
    /\ n \in free
    /\ free' = free \ {n}
    /\ linked' = [linked EXCEPT ![bucket[t]] = @ \cup {n}]
    /\ reach' = [u \in Threads |->
                    IF pc[u] = "section" THEN reach[u] \cup {n} ELSE reach[u]]
    /\ Goto(t, "unlock")
    /\ UNCHANGED <<urcuVars, syncVars, opVars, n_ops>>

\* A remove looks its node up, then unlinks it.
Find(t, n) ==
    /\ pc[t] = "locked"
    /\ n \in linked[bucket[t]]
    /\ victim' = [victim EXCEPT ![t] = n]
    /\ Goto(t, "found")
    /\ UNCHANGED <<urcuVars, listVars, syncVars, bucket, n_ops, reach>>

Unlink(t) ==
    /\ pc[t] = "found"
    /\ linked' = [linked EXCEPT ![bucket[t]] = @ \ {victim[t]}]
    /\ Goto(t, "unlock")
    /\ UNCHANGED <<urcuVars, free, syncVars, opVars, n_ops, reach>>

\* An add of a key that is there, or a remove of one that is not.
NoChange(t) ==
    /\ pc[t] = "locked"
    /\ Goto(t, "unlock")
    /\ UNCHANGED <<urcuVars, listVars, syncVars, opVars, n_ops, reach>>

\* urcu_writer_unlock
WriterUnlock(t) ==
    /\ pc[t] = "unlock"
    /\ urcu_spin' = [urcu_spin EXCEPT ![bucket[t]] = NULL]
    /\ bucket' = [bucket EXCEPT ![t] = NULL]
    /\ Goto(t, IF victim[t] = NULL THEN "idle" ELSE "free")
    /\ UNCHANGED <<time, free_ptrs, listVars, syncVars, victim, n_ops, reach>>

-----------------------------------------------------------------------------
(* urcu_free and urcu_synchronize *)

\* Mutant of Free: full only when one more pointer is added.
MutFree(t) ==
    /\ pc[t] = "free"
    /\ free_ptrs' = [free_ptrs EXCEPT ![t] = Append(@, victim[t])]
    /\ victim' = [victim EXCEPT ![t] = NULL]
    /\ i' = [i EXCEPT ![t] = 0]
    /\ Goto(t, IF Len(free_ptrs[t]) = URCU_MAX_FREE_PTRS THEN "read" ELSE "idle")
    /\ UNCHANGED <<time, urcu_spin, listVars, times, bucket, n_ops, reach>>

Free(t) ==
    /\ pc[t] = "free"
    /\ free_ptrs' = [free_ptrs EXCEPT ![t] = Append(@, victim[t])]
    /\ victim' = [victim EXCEPT ![t] = NULL]
    /\ i' = [i EXCEPT ![t] = 0]
    /\ Goto(t, IF Len(free_ptrs[t]) + 1 = URCU_MAX_FREE_PTRS THEN "read" ELSE "idle")
    /\ UNCHANGED <<time, urcu_spin, listVars, times, bucket, n_ops, reach>>

Last(t) == i[t] = threads - 1

\* Read the old counters, one by one.
ReadTime(t) ==
    /\ pc[t] = "read"
    /\ times' = [times EXCEPT ![t][i[t]] = time[i[t]]]
    /\ i' = [i EXCEPT ![t] = IF Last(t) THEN 0 ELSE @ + 1]
    /\ Goto(t, IF Last(t) THEN "wait" ELSE "read")
    /\ UNCHANGED <<urcuVars, listVars, opVars, n_ops, reach>>

\* Mutant of Passed: the old counter itself is late enough.
MutPassed(t, u) == Odd(times[t][u]) \/ time[u] >= times[t][u]

\* The thread was in no section, or is in none, or is in a later one.
Passed(t, u) == Odd(times[t][u]) \/ Odd(time[u]) \/ time[u] > times[t][u]

\* Wait for one thread after the other.
Wait(t) ==
    /\ pc[t] = "wait"
    /\ Passed(t, i[t])
    /\ i' = [i EXCEPT ![t] = IF Last(t) THEN 0 ELSE @ + 1]
    /\ Goto(t, IF Last(t) THEN "release" ELSE "wait")
    /\ UNCHANGED <<urcuVars, listVars, times, opVars, n_ops, reach>>

\* free() the pointers of the buffer, one by one.
Release(t) ==
    /\ pc[t] = "release"
    /\ IF free_ptrs[t] = <<>>
       THEN Goto(t, "idle") /\ UNCHANGED <<free, free_ptrs>>
       ELSE /\ free' = free \cup {free_ptrs[t][1]}
            /\ free_ptrs' = [free_ptrs EXCEPT ![t] = Tail(@)]
            /\ UNCHANGED pc
    /\ UNCHANGED <<time, urcu_spin, linked, syncVars, opVars, n_ops, reach>>

-----------------------------------------------------------------------------
Running(t) ==
    \/ ReaderUnlock(t)
    \/ \E n \in Nodes : Insert(t, n) \/ Find(t, n)
    \/ Unlink(t) \/ NoChange(t) \/ WriterUnlock(t)
    \/ Free(t) \/ ReadTime(t) \/ Wait(t) \/ Release(t)

Terminated ==
    /\ \A t \in Threads : pc[t] = "idle" /\ n_ops[t] = MaxOps[t]
    /\ UNCHANGED vars

Next ==
    \/ Terminated
    \/ \E t \in Threads : \/ ReaderLock(t) \/ Running(t)
                          \/ \E b \in Buckets : WriterLock(t, b)

Spec == Init /\ [][Next]_vars

\* A thread that is in an operation goes on with it.
FairSpec == Spec /\ \A t \in Threads : WF_vars(Running(t))

-----------------------------------------------------------------------------
(* Properties *)

Labels == {"idle", "section", "locked", "found", "unlock", "free", "read",
           "wait", "release"}

\* The types of the variables; free_ptrs never overflows.
TypeOK ==
    /\ time \in [Threads -> Nat]
    /\ free_ptrs \in [Threads -> Seq(Nodes)]
    /\ \A t \in Threads : Len(free_ptrs[t]) <= URCU_MAX_FREE_PTRS
    /\ urcu_spin \in [Buckets -> Threads \cup {NULL}]
    /\ linked \in [Buckets -> SUBSET Nodes]
    /\ free \in SUBSET Nodes
    /\ pc \in [Threads -> Labels]
    /\ times \in [Threads -> [Threads -> Nat]]
    /\ i \in [Threads -> Threads]
    /\ bucket \in [Threads -> Buckets \cup {NULL}]
    /\ victim \in [Threads -> Nodes \cup {NULL}]
    /\ n_ops \in [Threads -> Nat]
    /\ reach \in [Threads -> SUBSET Nodes]

\* The grace period: no node that a section can reach is free, so none is used
\* after free(), nor handed out by malloc again, while the section lasts.  The
\* counters are read, and waited for, one thread at a time, while sections end
\* and start and other nodes are unlinked.
NoUseAfterFree == \A t \in Threads : reach[t] \cap free = {}

Unlinked(t) == pc[t] \in {"unlock", "free"} /\ victim[t] # NULL

\* Every removed node is freed once: a node is in one place only, a bucket, the
\* hands of the thread that unlinked it, one entry of one buffer, or malloc's.
FreedOnce ==
    /\ free \cap AllLinked = {}
    /\ \A t, u \in Threads :
          /\ \A m \in DOMAIN free_ptrs[t] :
                /\ free_ptrs[t][m] \notin free \cup AllLinked
                /\ \A n \in DOMAIN free_ptrs[u] :
                      free_ptrs[t][m] = free_ptrs[u][n] => t = u /\ m = n
                /\ Unlinked(u) => victim[u] # free_ptrs[t][m]
          /\ Unlinked(t) => /\ victim[t] \notin free \cup AllLinked
                            /\ Unlinked(u) /\ u # t => victim[u] # victim[t]

\* urcu_synchronize returns: it never waits for a section that starts after it,
\* nor for the thread that calls it.
SyncReturns == \A t \in Threads : pc[t] = "read" ~> pc[t] = "release"
=============================================================================
