------------------------------ MODULE RcuList ------------------------------
(***************************************************************************)
(* The sorted list of the kernel benchmark under the kernel's RCU:         *)
(* rcu_list_contains / add / remove of kernel-bench/rcu-hash-list.c.       *)
(* set_contains / add / remove of intset.c are the same functions, with    *)
(* one spin lock for all the buckets; there is one bucket here, which is   *)
(* what both build by default.                                             *)
(*                                                                         *)
(* The kernel is external: a spin lock excludes, kfree_rcu gives a block   *)
(* back when every section that was under way has ended, and kmalloc may   *)
(* hand it out again.  A step has one access to shared memory; the val of  *)
(* a node does not change while the node is in use.                        *)
(***************************************************************************)
EXTENDS Integers, FiniteSets

CONSTANTS
    Threads,
    Keys,
    LIST_VAL_MIN, LIST_VAL_MAX,
    Nodes,                      \* blocks of memory
    p_min_node, p_max_node,     \* those of the two nodes of an empty list
    NULL

ASSUME ListAssumption ==
    /\ p_min_node \in Nodes /\ p_max_node \in Nodes \ {p_min_node}
    /\ NULL \notin Nodes \cup Threads
    /\ NULL \notin [op : {"contains", "add", "remove"}, key : Keys]
    /\ LIST_VAL_MIN \in Int /\ LIST_VAL_MAX \in Int /\ LIST_VAL_MIN < LIST_VAL_MAX
    /\ \A k \in Keys : k \in Int /\ LIST_VAL_MIN < k /\ k < LIST_VAL_MAX

VARIABLES
    node,       \* what each block holds: val and p_next
    free,       \* the blocks that kmalloc may hand out
    retired,    \* [node, sections]: given to kfree_rcu, and whom it waits for
    readers,    \* the threads in a section of rcu_read_lock
    rcuspin,    \* owner of the lock of the list
    call,       \* per thread: NULL, or the operation and the key
    pc, p_prev, p_next, result,
    ret,        \* what the last call returned
    seen        \* history: was the key in the list, at each instant of the call

memVars  == <<node, free, retired>>
lockVars == <<readers, rcuspin>>
walkVars == <<p_prev, p_next, result>>
listVars == <<memVars, lockVars, call, pc, walkVars, ret, seen>>

\* Every block of a list that holds these nodes: those that no set leaves out
\* which contains the first node and, with a node, its p_next.
Chain(mem) ==
    {m \in Nodes : \A S \in SUBSET (Nodes \ {m}) :
        p_min_node \in S => \E n \in S : mem[n].p_next \notin S \cup {NULL}}

Members == {node[m].val : m \in Chain(node) \ {p_min_node, p_max_node}}

\* rcu_new_list; nothing is known of what is in the other blocks.
ListInit ==
    /\ node = [m \in Nodes |-> IF m = p_max_node
                               THEN [val |-> LIST_VAL_MAX, p_next |-> NULL]
                               ELSE [val |-> LIST_VAL_MIN, p_next |-> p_max_node]]
    /\ free = Nodes \ {p_min_node, p_max_node}
    /\ retired = {}
    /\ readers = {}
    /\ rcuspin = NULL
    /\ call = [t \in Threads |-> NULL]
    /\ pc = [t \in Threads |-> "idle"]
    /\ p_prev = [t \in Threads |-> NULL]
    /\ p_next = [t \in Threads |-> NULL]
    /\ result = [t \in Threads |-> FALSE]
    /\ ret = [t \in Threads |-> FALSE]
    /\ seen = [t \in Threads |-> {}]

Goto(t, label) == pc' = [pc EXCEPT ![t] = label]

-----------------------------------------------------------------------------
\* The benchmark calls an operation.
Call(t, op, key) ==
    /\ call[t] = NULL
    /\ call' = [call EXCEPT ![t] = [op |-> op, key |-> key]]
    /\ seen' = [seen EXCEPT ![t] = {(key \in Members)}]
    /\ Goto(t, "lock")
    /\ UNCHANGED <<memVars, lockVars, walkVars, ret>>

Move(t, m) ==
    /\ p_prev' = [p_prev EXCEPT ![t] = m]
    /\ p_next' = [p_next EXCEPT ![t] = node[m].p_next]

\* rcu_read_lock, and the load of the first p_next.
ReaderLock(t) ==
    /\ pc[t] = "lock"
    /\ call[t].op = "contains"
    /\ readers' = readers \cup {t}
    /\ Move(t, p_min_node)
    /\ Goto(t, "walk")
    /\ UNCHANGED <<memVars, rcuspin, call, result, ret, seen>>

\* Mutant of WriterLock: no exclusion.
MutWriterLock(t) ==
    /\ pc[t] = "lock"
    /\ call[t].op \in {"add", "remove"}
    /\ rcuspin' = t
    /\ Move(t, p_min_node)
    /\ Goto(t, "walk")
    /\ UNCHANGED <<memVars, readers, call, result, ret, seen>>

\* spin_lock, and the first p_next: an update does not enter a section.
WriterLock(t) ==
    /\ pc[t] = "lock"
    /\ call[t].op \in {"add", "remove"}
    /\ rcuspin = NULL
    /\ rcuspin' = t
    /\ Move(t, p_min_node)
    /\ Goto(t, "walk")
    /\ UNCHANGED <<memVars, readers, call, result, ret, seen>>

Val(t) == node[p_next[t]].val

\* One turn of the loop ...
Advance(t) ==
    /\ pc[t] = "walk"
    /\ Val(t) < call[t].key
    /\ Move(t, p_next[t])
    /\ UNCHANGED <<memVars, lockVars, call, pc, result, ret, seen>>

\* ... and the last one.
Stop(t) ==
    LET found == Val(t) = call[t].key
        r     == IF call[t].op = "add" THEN ~found ELSE found
    IN  /\ pc[t] = "walk"
        /\ Val(t) >= call[t].key
        /\ result' = [result EXCEPT ![t] = r]
        /\ Goto(t, IF call[t].op = "contains" \/ ~r THEN "unlock" ELSE "update")
        /\ UNCHANGED <<memVars, lockVars, call, p_prev, p_next, ret, seen>>

\* An operation under way on this key may answer from now on what is true now.
Notice(key, member) ==
    seen' = [t \in Threads |-> IF call[t] # NULL /\ call[t].key = key
                               THEN seen[t] \cup {member} ELSE seen[t]]

\* The new node is filled in before it is published.
Link(t) ==
    LET key == call[t].key
    IN  /\ pc[t] = "update"
        /\ call[t].op = "add"
        /\ \E m \in free :
              /\ free' = free \ {m}
              /\ node' = [node EXCEPT ![m] = [val |-> key, p_next |-> p_next[t]],
                                      ![p_prev[t]].p_next = m]
        /\ Notice(key, TRUE)
        /\ Goto(t, "unlock")
        /\ UNCHANGED <<retired, lockVars, call, walkVars, ret>>

Unlink(t) ==
    /\ pc[t] = "update"
    /\ call[t].op = "remove"
    /\ node' = [node EXCEPT ![p_prev[t]].p_next = node[p_next[t]].p_next]
    /\ Notice(call[t].key, FALSE)
    /\ Goto(t, "unlock")
    /\ UNCHANGED <<free, retired, lockVars, call, walkVars, ret>>

Return(t) ==
    /\ ret' = [ret EXCEPT ![t] = result[t]]
    /\ call' = [call EXCEPT ![t] = NULL]
    /\ seen' = [seen EXCEPT ![t] = {}]
    /\ p_prev' = [p_prev EXCEPT ![t] = NULL]
    /\ p_next' = [p_next EXCEPT ![t] = NULL]
    /\ result' = [result EXCEPT ![t] = FALSE]
    /\ Goto(t, "idle")

\* rcu_read_unlock, and the call returns; nobody waits for this section now.
ReaderUnlock(t) ==
    /\ pc[t] = "unlock"
    /\ call[t].op = "contains"
    /\ readers' = readers \ {t}
    /\ retired' = {[r EXCEPT !.sections = @ \ {t}] : r \in retired}
    /\ Return(t)
    /\ UNCHANGED <<node, free, rcuspin>>

\* spin_unlock: the node that was removed is freed after it, and is the only one
\* that is still in hand.
WriterUnlock(t) ==
    /\ pc[t] = "unlock"
    /\ call[t].op \in {"add", "remove"}
    /\ rcuspin' = NULL
    /\ IF call[t].op = "remove" /\ result[t]
       THEN /\ p_prev' = [p_prev EXCEPT ![t] = NULL]
            /\ Goto(t, "free")
            /\ UNCHANGED <<call, p_next, result, ret, seen>>
       ELSE Return(t)
    /\ UNCHANGED <<memVars, readers>>

\* Mutant of FreeNode: kfree, as node_free does for a caller without thread data.
MutFreeNode(t) ==
    /\ pc[t] = "free"
    /\ free' = free \cup {p_next[t]}
    /\ Return(t)
    /\ UNCHANGED <<node, retired, lockVars>>

\* kfree_rcu, and the call returns.
FreeNode(t) ==
    /\ pc[t] = "free"
    /\ retired' = retired \cup {[node |-> p_next[t], sections |-> readers]}
    /\ Return(t)
    /\ UNCHANGED <<node, free, lockVars>>

\* The end of a grace period of the kernel.
Reclaim ==
    \E r \in retired :
        /\ r.sections = {}
        /\ retired' = retired \ {r}
        /\ free' = free \cup {r.node}
        /\ UNCHANGED <<node, lockVars, call, pc, walkVars, ret, seen>>

InCall(t) ==
    \/ ReaderLock(t) \/ WriterLock(t) \/ Advance(t) \/ Stop(t)
    \/ Link(t) \/ Unlink(t) \/ ReaderUnlock(t) \/ WriterUnlock(t) \/ FreeNode(t)

-----------------------------------------------------------------------------
(* Properties *)

\* The types of the variables.
ListTypeOK ==
    /\ node \in [Nodes -> [val : Keys \cup {LIST_VAL_MIN, LIST_VAL_MAX},
                           p_next : Nodes \cup {NULL}]]
    /\ free \in SUBSET Nodes
    /\ retired \in SUBSET [node : Nodes, sections : SUBSET Threads]
    /\ readers \in SUBSET Threads
    /\ rcuspin \in Threads \cup {NULL}
    /\ \A t \in Threads : call[t] # NULL =>
          call[t] \in [op : {"contains", "add", "remove"}, key : Keys]
    /\ pc \in [Threads -> {"idle", "lock", "walk", "update", "unlock", "free"}]
    /\ p_prev \in [Threads -> Nodes \cup {NULL}]
    /\ p_next \in [Threads -> Nodes \cup {NULL}]
    /\ result \in [Threads -> BOOLEAN]
    /\ ret \in [Threads -> BOOLEAN]

\* No node is freed under a walk (rcu-hash-list.c:279, a node that is unlinked
\* goes to kfree_rcu after the lock is given back): a reader that waits on an
\* unlinked node, or an update that has its neighbours in hand, finds it as it
\* was, and no block is free and in the list.
NoUseAfterFree ==
    /\ \A t \in Threads : {p_prev[t], p_next[t]} \cap free = {}
    /\ Chain(node) \cap free = {}

Set == INSTANCE ConcurrentSet WITH
    set     <- Members,
    updated <- [t \in Threads |->
                    /\ pc[t] \in {"unlock", "free"}
                    /\ result[t]
                    /\ call[t].op \in {"add", "remove"}],
    result  <- ret

\* The list is a linearizable set, although the readers take no lock and walk on
\* through nodes that were unlinked meanwhile.
ImplementsSet == Set!Spec
=============================================================================
