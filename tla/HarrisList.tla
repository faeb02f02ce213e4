----------------------------- MODULE HarrisList -----------------------------
(***************************************************************************)
(* The lock-free lists of hash-list.c: harris_list_* and hp_harris_list_*. *)
(* A step is one access to a p_next that another thread can change.        *)
(*                                                                         *)
(* Nodes are never freed (harris_free_node leaks, and the hazard-pointer   *)
(* variant frees nothing either), so an address is never reused, and the   *)
(* hazard pointers, which nobody reads, have no effect but for the         *)
(* variable they made the search use: my_left_node.  A node that loses its *)
(* insertion is leaked unseen: only linked nodes are numbered.             *)
(***************************************************************************)
EXTENDS Integers, Sequences

CONSTANTS
    Threads,
    Solo,          \* the threads that fairness is about
    Keys,
    LIST_VAL_MIN, LIST_VAL_MAX,
    Initial,       \* the keys in the list at the start, in order
    Variants,      \* which lists: a subset of {"harris", "hp_harris"}
    MaxOps,        \* bound: operations per thread
    MaxNodes,      \* bound: nodes that are ever linked
    NULL

ASSUME KeysAssumption ==
    /\ LIST_VAL_MIN \in Int /\ LIST_VAL_MAX \in Int
    /\ LIST_VAL_MIN < LIST_VAL_MAX
    /\ \A k \in Keys : k \in Int /\ LIST_VAL_MIN < k /\ k < LIST_VAL_MAX
    /\ NULL \notin [op : {"contains", "add", "remove"}, key : Keys]

ASSUME InitialAssumption ==
    /\ Initial \in Seq(Keys)
    /\ \A m, n \in DOMAIN Initial : m < n => Initial[m] < Initial[n]
    /\ MaxNodes \in Nat /\ Len(Initial) + 2 <= MaxNodes
    /\ Variants \subseteq {"harris", "hp_harris"} /\ Variants # {}
    /\ MaxOps \in Nat
    /\ Solo \subseteq Threads

VARIABLES
    variant,
    val, p_next,   \* of each node; p_next is a node and a mark
    n_nodes,       \* nodes linked so far
    pc,
    op, key,       \* the operation in progress
    cleanup,       \* it is in the second search of a remove
    t_node,        \* t, and right_node once the walk is over
    t_next,
    left_node,     \* *left_node (harris), my_left_node (hp_harris)
    left_node_next,
    right_node_next,
    result,
    n_ops,
    seen           \* history: was the key a member, at each instant since the call

listVars   == <<val, p_next, n_nodes>>
callVars   == <<op, key>>
walkVars   == <<t_node, t_next, left_node, left_node_next>>
returnVars == <<result, n_ops>>
vars == <<variant, listVars, pc, callVars, cleanup, walkVars, right_node_next,
          returnVars, seen>>

Nodes == 0 .. MaxNodes - 1
HeadNode  == 0
TailNode  == 1

Linked == 0 .. n_nodes - 1

Link(n, mark) == [node |-> n, mark |-> mark]

\* The set that the list stands for: what is linked and not marked.
Members == {val[n] : n \in {m \in Linked \ {HeadNode, TailNode} : ~p_next[m].mark}}

-----------------------------------------------------------------------------
(* pure_new_list, and the keys that bench.c adds before the threads run. *)

InitialVal(n) ==
    CASE n = HeadNode -> LIST_VAL_MIN
      [] n - 1 \in DOMAIN Initial -> Initial[n - 1]
      [] OTHER -> LIST_VAL_MAX

\* Node n + 1 follows node n, from the first key (node 2) to the last one.
InitialNext(n) ==
    CASE n = HeadNode -> IF Initial = <<>> THEN TailNode ELSE 2
      [] n - 1 \in 1 .. Len(Initial) - 1 -> n + 1
      [] OTHER -> TailNode

Init ==
    /\ variant \in Variants
    /\ val = [n \in Nodes |-> InitialVal(n)]
    /\ p_next = [n \in Nodes |-> Link(InitialNext(n), FALSE)]
    /\ n_nodes = 2 + Len(Initial)
    /\ pc = [t \in Threads |-> "idle"]
    /\ op = [t \in Threads |-> "contains"]
    /\ key = [t \in Threads |-> LIST_VAL_MIN]
    /\ cleanup = [t \in Threads |-> FALSE]
    /\ t_node = [t \in Threads |-> HeadNode]
    /\ t_next = [t \in Threads |-> Link(HeadNode, FALSE)]
    /\ left_node = [t \in Threads |-> HeadNode]
    /\ left_node_next = [t \in Threads |-> HeadNode]
    /\ right_node_next = [t \in Threads |-> HeadNode]
    /\ result = [t \in Threads |-> FALSE]
    /\ n_ops = [t \in Threads |-> 0]
    /\ seen = [t \in Threads |-> {}]

Goto(t, label) == pc' = [pc EXCEPT ![t] = label]

\* The set has just gained or lost k.
Notice(t, k, member) ==
    seen' = [u \in Threads |->
                IF u # t /\ pc[u] # "idle" /\ key[u] = k THEN seen[u] \cup {member}
                ELSE IF u = t /\ pc'[t] = "idle" THEN {}
                ELSE IF u = t THEN seen[t] \cup {member} ELSE seen[u]]

-----------------------------------------------------------------------------
Call(t) ==
    /\ pc[t] = "idle"
    /\ n_ops[t] < MaxOps
    /\ n_ops' = [n_ops EXCEPT ![t] = @ + 1]
    /\ \E o \in {"contains", "add", "remove"}, k \in Keys :
          /\ op' = [op EXCEPT ![t] = o]
          /\ key' = [key EXCEPT ![t] = k]
          /\ seen' = [seen EXCEPT ![t] = {(k \in Members)}]
    /\ Goto(t, "start")
    /\ UNCHANGED <<variant, listVars, cleanup, walkVars, right_node_next, result>>

\* The operation is over; its locals are gone.
Return(t, r) ==
    /\ Goto(t, "idle")
    /\ result' = [result EXCEPT ![t] = r]
    /\ op' = [op EXCEPT ![t] = "contains"]
    /\ key' = [key EXCEPT ![t] = LIST_VAL_MIN]
    /\ cleanup' = [cleanup EXCEPT ![t] = FALSE]
    /\ t_node' = [t_node EXCEPT ![t] = HeadNode]
    /\ t_next' = [t_next EXCEPT ![t] = Link(HeadNode, FALSE)]
    /\ left_node' = [left_node EXCEPT ![t] = HeadNode]
    /\ left_node_next' = [left_node_next EXCEPT ![t] = HeadNode]
    /\ right_node_next' = [right_node_next EXCEPT ![t] = HeadNode]

Stay == UNCHANGED <<callVars, cleanup, walkVars, right_node_next, result>>

-----------------------------------------------------------------------------
(* harris_list_search, hp_harris_list_search *)

Start(t) ==
    /\ pc[t] = "start"
    /\ t_node' = [t_node EXCEPT ![t] = HeadNode]
    /\ t_next' = [t_next EXCEPT ![t] = p_next[HeadNode]]
    /\ left_node_next' = [left_node_next EXCEPT ![t] = HeadNode]
    /\ Goto(t, "walk")
    /\ UNCHANGED <<variant, listVars, callVars, cleanup, left_node,
                   right_node_next, returnVars, seen>>

\* One turn of the inner loop: remember the last unmarked link, go to the next
\* node and read its p_next; the walk stops at an unmarked node that is not
\* below the key, or at the tail.
Walk(t) ==
    LET n     == t_next[t].node
        lnext == IF t_next[t].mark THEN left_node_next[t] ELSE n
        stop  == n = TailNode \/ (~p_next[n].mark /\ val[n] >= key[t])
    IN  /\ pc[t] = "walk"
        /\ t_node' = [t_node EXCEPT ![t] = n]
        /\ t_next' = [t_next EXCEPT ![t] = IF n = TailNode THEN @ ELSE p_next[n]]
        /\ left_node' = [left_node EXCEPT ![t] = IF t_next[t].mark THEN @ ELSE t_node[t]]
        /\ left_node_next' = [left_node_next EXCEPT ![t] = lnext]
        /\ Goto(t, IF ~stop THEN "walk" ELSE IF lnext = n THEN "check" ELSE "unlink")
        /\ UNCHANGED <<variant, listVars, callVars, cleanup, right_node_next,
                       returnVars, seen>>

\* Mutant of UnlinkTarget: the list's head.
MutUnlinkTarget(t) == HeadNode

\* The node whose p_next the search swings past the marked ones: *left_node, in
\* which hp_harris_list_search still has what its caller put there, the head.
UnlinkTarget(t) ==
    IF variant = "hp_harris" /\ ~cleanup[t] THEN HeadNode ELSE left_node[t]

\* Mutant of Unlink: a store instead of the CAS.
MutUnlink(t) ==
    /\ pc[t] = "unlink"
    /\ p_next' = [p_next EXCEPT ![UnlinkTarget(t)] = Link(t_node[t], FALSE)]
    /\ Goto(t, "check")
    /\ Stay
    /\ UNCHANGED <<variant, val, n_nodes, n_ops, seen>>

Unlink(t) ==
    LET l == UnlinkTarget(t)
    IN  /\ pc[t] = "unlink"
        /\ IF p_next[l] = Link(left_node_next[t], FALSE)
           THEN /\ p_next' = [p_next EXCEPT ![l] = Link(t_node[t], FALSE)]
                /\ Goto(t, "check")
           ELSE /\ Goto(t, "start")
                /\ UNCHANGED p_next
        /\ Stay
        /\ UNCHANGED <<variant, val, n_nodes, n_ops, seen>>

\* What the callers of the search do with the node it returns.
Found(t) ==
    LET equal == val[t_node[t]] = key[t]
    IN  \/ cleanup[t] /\ Return(t, TRUE)
        \/ op[t] = "contains" /\ Return(t, t_node[t] # TailNode /\ equal)
        \/ op[t] = "add" /\ equal /\ Return(t, FALSE)
        \/ op[t] = "add" /\ ~equal /\ Goto(t, "insert") /\ Stay
        \/ op[t] = "remove" /\ ~cleanup[t] /\ ~equal /\ Return(t, FALSE)
        \/ op[t] = "remove" /\ ~cleanup[t] /\ equal /\ Goto(t, "read_next") /\ Stay

\* Adjacent, or made so: the search is over unless right_node is marked by now.
Check(t) ==
    LET again == t_node[t] # TailNode /\ p_next[t_node[t]].mark
    IN  /\ pc[t] = "check"
        /\ \/ again /\ Goto(t, "start") /\ Stay
           \/ ~again /\ Found(t)
        /\ seen' = [seen EXCEPT ![t] = IF pc'[t] = "idle" THEN {} ELSE @]
        /\ UNCHANGED <<variant, listVars, n_ops>>

-----------------------------------------------------------------------------
(* harris_list_add, hp_harris_list_add *)

\* Mutant of Insert: every new node is the same block of memory.
MutInsert(t) ==
    /\ pc[t] = "insert"
    /\ p_next[left_node[t]] = Link(t_node[t], FALSE)
    /\ val' = [val EXCEPT ![n_nodes] = key[t]]
    /\ p_next' = [p_next EXCEPT ![n_nodes] = Link(t_node[t], FALSE),
                                ![left_node[t]] = Link(n_nodes, FALSE)]
    /\ Return(t, TRUE)
    /\ Notice(t, key[t], TRUE)
    /\ UNCHANGED <<variant, n_nodes, n_ops>>

Insert(t) ==
    LET l == left_node[t]
    IN  /\ pc[t] = "insert"
        /\ IF p_next[l] = Link(t_node[t], FALSE)
           THEN /\ n_nodes < MaxNodes
                /\ val' = [val EXCEPT ![n_nodes] = key[t]]
                /\ p_next' = [p_next EXCEPT ![n_nodes] = Link(t_node[t], FALSE),
                                            ![l] = Link(n_nodes, FALSE)]
                /\ n_nodes' = n_nodes + 1
                /\ Return(t, TRUE)
                /\ Notice(t, key[t], TRUE)
           ELSE /\ Goto(t, "start")
                /\ Stay
                /\ UNCHANGED <<listVars, seen>>
        /\ UNCHANGED <<variant, n_ops>>

-----------------------------------------------------------------------------
(* harris_list_remove, hp_harris_list_remove *)

ReadNext(t) ==
    LET n == p_next[t_node[t]]
    IN  /\ pc[t] = "read_next"
        /\ right_node_next' = [right_node_next EXCEPT ![t] = n.node]
        /\ Goto(t, IF n.mark THEN "start" ELSE "mark")
        /\ UNCHANGED <<variant, listVars, callVars, cleanup, walkVars,
                       returnVars, seen>>

\* Mutant of Mark: the mark is set without a CAS.
MutMark(t) ==
    /\ pc[t] = "mark"
    /\ p_next' = [p_next EXCEPT ![t_node[t]].mark = TRUE]
    /\ Goto(t, "splice")
    /\ Notice(t, key[t], FALSE)
    /\ Stay
    /\ UNCHANGED <<variant, val, n_nodes, n_ops>>

\* The remove takes effect here.
Mark(t) ==
    LET r == t_node[t]
    IN  /\ pc[t] = "mark"
        /\ IF p_next[r] = Link(right_node_next[t], FALSE)
           THEN /\ p_next' = [p_next EXCEPT ![r] = Link(right_node_next[t], TRUE)]
                /\ Goto(t, "splice")
                /\ Notice(t, key[t], FALSE)
           ELSE /\ Goto(t, "start")
                /\ UNCHANGED <<p_next, seen>>
        /\ Stay
        /\ UNCHANGED <<variant, val, n_nodes, n_ops>>

\* Mutant of Splice: no second search.
MutSplice(t) ==
    LET l == left_node[t]
    IN  /\ pc[t] = "splice"
        /\ p_next' = IF p_next[l] = Link(t_node[t], FALSE)
                     THEN [p_next EXCEPT ![l] = Link(right_node_next[t], FALSE)]
                     ELSE p_next
        /\ Return(t, TRUE)
        /\ seen' = [seen EXCEPT ![t] = {}]
        /\ UNCHANGED <<variant, val, n_nodes, n_ops>>

\* The node is taken out here, or else by one more search.
Splice(t) ==
    LET l == left_node[t]
    IN  /\ pc[t] = "splice"
        /\ IF p_next[l] = Link(t_node[t], FALSE)
           THEN /\ p_next' = [p_next EXCEPT ![l] = Link(right_node_next[t], FALSE)]
                /\ Return(t, TRUE)
                /\ seen' = [seen EXCEPT ![t] = {}]
           ELSE /\ Goto(t, "start")
                /\ cleanup' = [cleanup EXCEPT ![t] = TRUE]
                /\ UNCHANGED <<p_next, callVars, walkVars, right_node_next,
                               result, seen>>
        /\ UNCHANGED <<variant, val, n_nodes, n_ops>>

-----------------------------------------------------------------------------
Step(t) ==
    \/ Start(t) \/ Walk(t) \/ Unlink(t) \/ Check(t)
    \/ Insert(t) \/ ReadNext(t) \/ Mark(t) \/ Splice(t)

\* Every thread has used its operations up.
Terminated ==
    /\ \A t \in Threads : pc[t] = "idle" /\ n_ops[t] = MaxOps
    /\ UNCHANGED vars

Next == Terminated \/ \E t \in Threads : Call(t) \/ Step(t)

Spec == Init /\ [][Next]_vars

\* Only the solo threads are sure to be scheduled: the others may stop anywhere.
SoloSpec == Spec /\ \A t \in Solo : WF_vars(Step(t))

-----------------------------------------------------------------------------
(* Properties *)

Labels == {"idle", "start", "walk", "unlink", "check", "insert", "read_next",
           "mark", "splice"}

Links == [node : Nodes, mark : BOOLEAN]
Vals  == Keys \cup {LIST_VAL_MIN, LIST_VAL_MAX}

\* The types of the nodes and of the locals of the operations, whose pointers are
\* to nodes that were linked.
TypeOK ==
    /\ variant \in Variants
    /\ val \in [Nodes -> Vals] /\ p_next \in [Nodes -> Links]
    /\ n_nodes \in 2 .. MaxNodes
    /\ pc \in [Threads -> Labels]
    /\ op \in [Threads -> {"contains", "add", "remove"}]
    /\ key \in [Threads -> Keys \cup {LIST_VAL_MIN}]
    /\ cleanup \in [Threads -> BOOLEAN]
    /\ t_node \in [Threads -> Linked] /\ t_next \in [Threads -> Links]
    /\ left_node \in [Threads -> Linked] /\ left_node_next \in [Threads -> Linked]
    /\ right_node_next \in [Threads -> Linked]
    /\ result \in [Threads -> BOOLEAN]
    /\ n_ops \in [Threads -> 0 .. MaxOps]
    /\ seen \in [Threads -> SUBSET BOOLEAN]

\* The nodes that a walk from the head meets: those that no set leaves out which
\* contains the head and, with a node, its p_next.
Reachable ==
    {m \in Linked : \A S \in SUBSET (Linked \ {m}) :
        HeadNode \in S => \E n \in S : p_next[n].node \notin S}

\* No insertion is lost and no key is there twice: keys go up strictly along
\* every link, those of marked and of unlinked nodes included (a thread may be
\* walking there), and what is not marked is reached from the head, whichever
\* CAS of an add, a remove or a search came between the reads of another one.
ListSorted ==
    /\ \A n \in Linked \ {TailNode} :
          p_next[n].node \in Linked /\ val[n] < val[p_next[n].node]
    /\ \A n \in Linked : ~p_next[n].mark => n \in Reachable

\* Marked nodes do not pile up: each remove sees to it that its node is taken
\* out, by its own CAS or by a search.  So hash_list_size, which counts nodes
\* whether marked or not, is right once the threads have joined (bench.c:570).
NoMarkedLeft ==
    (\A t \in Threads : pc[t] = "idle") => \A n \in Reachable : ~p_next[n].mark

Set == INSTANCE ConcurrentSet WITH
    set     <- Members,
    call    <- [t \in Threads |-> IF pc[t] = "idle" THEN NULL
                                  ELSE [op |-> op[t], key |-> key[t]]],
    updated <- [t \in Threads |-> pc[t] = "splice" \/ cleanup[t]]

\* The lists are linearizable sets: each result is right at an instant between
\* the call and the return.
ImplementsSet == Set!Spec

\* The operations of a solo thread end although the others may stop anywhere: a
\* node that a stopped thread marked is taken out by the search that meets it.
SoloCompletes == \A t \in Solo : pc[t] # "idle" ~> pc[t] = "idle"

\* "Remove one or more marked nodes" (hash-list.c:311 and 395): the marked nodes
\* that a search met after left_node are removed by its CAS, if nobody changed
\* the link from left_node since the walk.
SearchRemovesMarked ==
    [][\A t \in Threads :
          (Unlink(t) /\ p_next[left_node[t]] = Link(left_node_next[t], FALSE))
             => p_next'[left_node[t]] = Link(t_node[t], FALSE)]_vars
=============================================================================
