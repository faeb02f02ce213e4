------------------------------ MODULE RluList ------------------------------
(***************************************************************************)
(* The sorted list of RLU objects, rlu_list_contains / add / remove of     *)
(* hash-list.c (kernel-bench/rlu-hash-list.c has the same functions), on   *)
(* top of Rlu, with the part of rlu.c that gives blocks out and takes them *)
(* back: rlu_alloc, rlu_free and rlu_process_free.  The threads call the   *)
(* list as test() of bench.c does after its barrier, and finish.           *)
(*                                                                         *)
(* Rlu knows the contents of an object as a set of updates; mem says what  *)
(* node such contents are.  A block that is freed may be handed out again  *)
(* by the next rlu_alloc, as another node.                                 *)
(*                                                                         *)
(* A step of the walk is the load of a p_next and the deref of what it     *)
(* points to, up to the first shared access of that deref.                 *)
(***************************************************************************)
EXTENDS Rlu, FiniteSets, FiniteSetsExt

CONSTANTS
    Keys,
    CallKeys,                 \* the keys that the calls are about
    LIST_VAL_MIN, LIST_VAL_MAX,
    p_min_node, p_max_node,   \* the blocks of these nodes
    Initial,                  \* the other nodes of the list at the start: block |-> key
    Ops,                      \* the operations that each thread may call
    MaxOps                    \* bound: calls of each thread

ASSUME ListAssumption ==
    /\ p_min_node \in Objs /\ p_max_node \in Objs \ {p_min_node}
    /\ DOMAIN Initial \subseteq Objs \ {p_min_node, p_max_node} /\ IsFiniteSet(DOMAIN Initial)
    /\ \A o \in DOMAIN Initial : Initial[o] \in Keys
    /\ \A o, p \in DOMAIN Initial : Initial[o] = Initial[p] => o = p
    /\ LIST_VAL_MIN \in Int /\ LIST_VAL_MAX \in Int /\ LIST_VAL_MIN < LIST_VAL_MAX
    /\ \A k \in Keys : k \in Int /\ LIST_VAL_MIN < k /\ k < LIST_VAL_MAX
    /\ CallKeys \subseteq Keys
    /\ \A t \in Threads : Ops[t] \subseteq {"contains", "add", "remove"}
    /\ MaxOps \in [Threads -> Nat]
    /\ \A op \in {"contains", "add", "remove"}, key \in Keys : NULL # [op |-> op, key |-> key]
    /\ ~Coarse

VARIABLES
    mem,          \* of each block: its contents (a set of updates) |-> node
    free,         \* the blocks malloc may hand out
    free_nodes,   \* per thread, the blocks given to rlu_free
    call,         \* per thread: NULL, or the operation and the key
    step,         \* where in the operation it is
    p_prev, p_next,
    n,
    result,
    diff,         \* insertions less removals of each thread (bench.c)
    n_ops,
    \* history variables, functions of the others at each instant
    set,          \* the keys in the list that is published
    view,         \* the keys in the list that each thread would walk
    seen          \* was the key of the call in it, at each instant since the call

blockVars == <<mem, free, free_nodes>>
walkVars  == <<p_prev, p_next, n>>
benchVars == <<diff, n_ops>>
listVars  == <<blockVars, call, step, walkVars, result, benchVars>>
viewVars  == <<set, view, seen>>
allVars   == <<vars, listVars, viewVars>>

-----------------------------------------------------------------------------
(* Nodes behind pointers, and the list as a set of keys. *)

\* FORCE_ACTUAL
Actual(p) == IF p \in Objs THEN p ELSE At(p).obj

Node(p) == mem[Actual(p)][Contents(p)]

\* The blocks that are nodes, and those on the list, when every object o has the
\* contents c[o]: a set of nodes without one of these, but with the head, has a
\* link out of it.
Nodes(c) == {o \in Objs : c[o] \in DOMAIN mem[o]}

Chain(c) ==
    {o \in Nodes(c) :
        \A S \in SUBSET (Nodes(c) \ {o}) : p_min_node \in S =>
            \E q \in S : mem[q][c[q]].p_next \notin S \cup {NULL}}

Members(c) == {mem[o][c[o]].val : o \in Chain(c) \ {p_min_node, p_max_node}}

\* What a section that starts now reads: what is published, or what a finished
\* section of the same thread wrote and has not published yet.
PublishedContents == [o \in Objs |-> Published(o)]

Mine(t, o) ==
    LET c == p_obj_copy[o]
    IN  c # NULL /\ c.th = t /\ c.ws # WsCurId(t) /\ Complete(c)

OwnContents(t) ==
    [o \in Objs |-> IF Mine(t, o) THEN At(p_obj_copy[o]).val ELSE Published(o)]

-----------------------------------------------------------------------------
(* rlu_new_list, and the nodes that were added before the barrier *)

InitialNode(o) ==
    LET key(p)   == IF p = p_min_node THEN LIST_VAL_MIN ELSE
                    IF p = p_max_node THEN LIST_VAL_MAX ELSE Initial[p]
        later    == {p \in {p_max_node} \cup DOMAIN Initial : key(p) > key(o)}
    IN  [val    |-> key(o),
         p_next |-> IF o = p_max_node THEN NULL
                    ELSE CHOOSE p \in later : \A q \in later : key(p) <= key(q)]

ListInit ==
    /\ Init
    /\ LET used == {p_min_node, p_max_node} \cup DOMAIN Initial
       IN  /\ mem = [o \in Objs |-> [v \in IF o \in used THEN {{}} ELSE {} |-> InitialNode(o)]]
           /\ free = Objs \ used
    /\ free_nodes = [t \in Threads |-> <<>>]
    /\ call = [t \in Threads |-> NULL]
    /\ step = [t \in Threads |-> "out"]
    /\ p_prev = [t \in Threads |-> NULL]
    /\ p_next = [t \in Threads |-> NULL]
    /\ n = [t \in Threads |-> NULL]
    /\ result = [t \in Threads |-> FALSE]
    /\ diff = [t \in Threads |-> 0]
    /\ n_ops = [t \in Threads |-> 0]
    /\ set = Members(PublishedContents)
    /\ view = [t \in Threads |-> Members(OwnContents(t))]
    /\ seen = [t \in Threads |-> {}]

GotoStep(t, label) == step' = [step EXCEPT ![t] = label]

-----------------------------------------------------------------------------
(* A call from the loop of test(), and the start of its first section. *)

StartOp(t) ==
    /\ step[t] = "out"
    /\ n_ops[t] < MaxOps[t]
    /\ \E op \in Ops[t], key \in CallKeys :
           call' = [call EXCEPT ![t] = [op |-> op, key |-> key]]
    /\ n_ops' = [n_ops EXCEPT ![t] = @ + 1]
    /\ GotoStep(t, "head")
    /\ ReaderLock(t)
    /\ UNCHANGED <<blockVars, walkVars, result, diff>>

\* goto restart, after an abort.
Restart(t) ==
    /\ step[t] = "restart"
    /\ ReaderLock(t)
    /\ GotoStep(t, "head")
    /\ UNCHANGED <<blockVars, call, walkVars, result, benchVars>>

-----------------------------------------------------------------------------
(* The walk *)

\* The block that the next RLU_DEREF is about.
DerefTarget(t) ==
    CASE step[t] = "head" -> p_min_node
      [] step[t] = "walk" -> Node(p_prev[t]).p_next
      [] step[t] = "succ" -> Node(p_next[t]).p_next

\* What comes after the loop, which stopped at a node with value v.
AfterWalk(t, v) ==
    CASE call[t].op = "add"    /\ v # call[t].key -> "lock_prev"
      [] call[t].op = "remove" /\ v = call[t].key -> "succ"
      [] OTHER                                    -> "unlock"

\* The deref gave p.
Arrive(t, p) ==
    LET v == Node(p).val
    IN  /\ \/ /\ step[t] = "head"
              /\ p_prev' = [p_prev EXCEPT ![t] = p]
              /\ GotoStep(t, "walk")
              /\ UNCHANGED <<p_next, n, result>>
           \/ /\ step[t] = "walk"
              /\ v < call[t].key
              /\ p_prev' = [p_prev EXCEPT ![t] = p]
              /\ UNCHANGED <<p_next, n, result, step>>
           \/ /\ step[t] = "walk"
              /\ v >= call[t].key
              /\ p_next' = [p_next EXCEPT ![t] = p]
              /\ result' = [result EXCEPT ![t] = (v = call[t].key) # (call[t].op = "add")]
              /\ GotoStep(t, AfterWalk(t, v))
              /\ UNCHANGED <<p_prev, n>>
           \/ /\ step[t] = "succ"
              /\ n' = [n EXCEPT ![t] = p]
              /\ GotoStep(t, "lock_prev")
              /\ UNCHANGED <<p_prev, p_next, result>>
        /\ UNCHANGED <<blockVars, call, benchVars>>

Walking(t) == pc[t] = "section" /\ step[t] \in {"head", "walk", "succ"}

\* RLU_DEREF without a look at the owner of a lock: the object, or the copy of
\* this thread ...
WalkDeref(t) ==
    /\ Walking(t)
    /\ LET o == DerefTarget(t)
           c == p_obj_copy[o]
       IN  /\ Deref(t, o)
           /\ Arrive(t, IF is_check_locks[t] /\ c # NULL /\ c.th = t THEN c ELSE o)

\* ... and with one.
WalkDerefLocked(t) ==
    /\ Walking(t)
    /\ DerefLocked(t, DerefTarget(t))
    /\ UNCHANGED listVars

WalkSteal(t) ==
    /\ Steal(t)
    /\ Arrive(t, IF MaySteal(t, cur_copy[t].th) THEN cur_copy[t] ELSE cur_obj[t])

-----------------------------------------------------------------------------
(* RLU_TRY_LOCK of p_prev, then of p_next *)

LockTarget(t) == Actual(IF step[t] = "lock_prev" THEN p_prev[t] ELSE p_next[t])

LockStep(t) == pc[t] = "section" /\ step[t] \in {"lock_prev", "lock_next"}

ListTryLock(t) ==
    /\ LockStep(t)
    /\ TryLock(t, LockTarget(t)) \/ TryLockFail(t, LockTarget(t))
    /\ UNCHANGED listVars

\* The copy starts as a copy of the node, and the local pointer now is to it.
ListTryLockCopy(t) ==
    LET o == cur_obj[t]
        v == data[o] \cup {<<t, n_starts[t]>>}
    IN  /\ TryLockCopy(t)
        /\ mem' = [mem EXCEPT ![o] = [u \in DOMAIN @ \cup {v} |->
                                        @[IF u = v THEN data[o] ELSE u]]]
        /\ \/ /\ step[t] = "lock_prev"
              /\ p_prev' = [p_prev EXCEPT ![t] = cur_copy[t]]
              /\ GotoStep(t, "lock_next")
              /\ UNCHANGED p_next
           \/ /\ step[t] = "lock_next"
              /\ p_next' = [p_next EXCEPT ![t] = cur_copy[t]]
              /\ GotoStep(t, "assign")
              /\ UNCHANGED p_prev
        /\ UNCHANGED <<free, free_nodes, call, n, result, benchVars>>

\* Mutant of ListAbort: without the goto restart.
MutListAbort(t) ==
    /\ Abort(t)
    /\ GotoStep(t, "return")
    /\ UNCHANGED <<blockVars, call, walkVars, result, benchVars>>

ListAbort(t) ==
    /\ Abort(t)
    /\ GotoStep(t, "restart")
    /\ UNCHANGED <<blockVars, call, walkVars, result, benchVars>>

-----------------------------------------------------------------------------
(* The update *)

\* RLU_ASSIGN_PTR(&(p_prev->p_next), o), in the copy of p_prev.
AssignNext(t, m, o) ==
    [m EXCEPT ![Actual(p_prev[t])][Contents(p_prev[t])].p_next = o]

\* rlu_alloc: a block with an unlocked header.
Alloc(o) ==
    /\ free' = free \ {o}
    /\ p_obj_copy' = [p_obj_copy EXCEPT ![o] = NULL]

\* rlu_free: the block of the object is noted, for rlu_process_free.
Free(t, p) == free_nodes' = [free_nodes EXCEPT ![t] = Append(@, Actual(p))]

UnchangedRlu == UNCHANGED <<data, versionVars, joinVars, g_rlu_writer_locks,
                            peerVars, ownVars, pc, ctlVars, clientVars>>

\* Mutant of AddNode: the pointer in the new node is stored without FORCE_ACTUAL.
MutAddNode(t) ==
    /\ pc[t] = "section"
    /\ step[t] = "assign"
    /\ call[t].op = "add"
    /\ \E o \in free :
          LET node == [val |-> call[t].key, p_next |-> p_next[t]]
          IN  /\ Alloc(o)
              /\ mem' = AssignNext(t, [mem EXCEPT ![o] = [v \in {data[o]} |-> node]], o)
    /\ GotoStep(t, "unlock")
    /\ UnchangedRlu
    /\ UNCHANGED <<free_nodes, call, walkVars, result, benchVars>>

\* A new node, filled in and linked.
AddNode(t) ==
    /\ pc[t] = "section"
    /\ step[t] = "assign"
    /\ call[t].op = "add"
    /\ \E o \in free :
          LET node == [val |-> call[t].key, p_next |-> Actual(p_next[t])]
          IN  /\ Alloc(o)
              /\ mem' = AssignNext(t, [mem EXCEPT ![o] = [v \in {data[o]} |-> node]], o)
    /\ GotoStep(t, "unlock")
    /\ UnchangedRlu
    /\ UNCHANGED <<free_nodes, call, walkVars, result, benchVars>>

\* Mutant of RemoveNode: the block of the successor is given to rlu_free.
MutRemoveNode(t) ==
    /\ pc[t] = "section"
    /\ step[t] = "assign"
    /\ call[t].op = "remove"
    /\ mem' = AssignNext(t, mem, Actual(n[t]))
    /\ free' = free \cup {Actual(p_next[t])}
    /\ GotoStep(t, "unlock")
    /\ UnchangedRlu
    /\ UNCHANGED <<p_obj_copy, free_nodes, call, walkVars, result, benchVars>>

\* The node is unlinked and freed.
RemoveNode(t) ==
    /\ pc[t] = "section"
    /\ step[t] = "assign"
    /\ call[t].op = "remove"
    /\ mem' = AssignNext(t, mem, Actual(n[t]))
    /\ Free(t, p_next[t])
    /\ GotoStep(t, "unlock")
    /\ UnchangedRlu
    /\ UNCHANGED <<p_obj_copy, free, call, walkVars, result, benchVars>>

\* RLU_READER_UNLOCK
ListUnlock(t) ==
    /\ step[t] = "unlock"
    /\ ReaderUnlock(t) \/ CommitUnlock(t)
    /\ GotoStep(t, "return")
    /\ UNCHANGED <<blockVars, call, walkVars, result, benchVars>>

\* The call returns and test() counts.
Return(t) ==
    LET change == IF ~result[t] THEN 0 ELSE
                  IF call[t].op = "add" THEN 1 ELSE
                  IF call[t].op = "remove" THEN -1 ELSE 0
    IN  /\ pc[t] = "idle"
        /\ step[t] = "return"
        /\ diff' = [diff EXCEPT ![t] = @ + change]
        /\ call' = [call EXCEPT ![t] = NULL]
        /\ p_prev' = [p_prev EXCEPT ![t] = NULL]
        /\ p_next' = [p_next EXCEPT ![t] = NULL]
        /\ n' = [n EXCEPT ![t] = NULL]
        /\ GotoStep(t, "out")
        /\ UNCHANGED <<vars, blockVars, result, n_ops>>

-----------------------------------------------------------------------------
(* The rest of rlu.c, which runs inside the calls *)

\* Mutant of ListSyncEnd: free_nodes_size is not set back to zero.
MutListSyncEnd(t) ==
    /\ SyncEnd(t)
    /\ free' = free \cup {free_nodes[t][k] : k \in DOMAIN free_nodes[t]}
    /\ UNCHANGED <<mem, free_nodes, call, step, walkVars, result, benchVars>>

\* rlu_process_free ends a synchronisation.
ListSyncEnd(t) ==
    /\ SyncEnd(t)
    /\ free' = free \cup {free_nodes[t][k] : k \in DOMAIN free_nodes[t]}
    /\ free_nodes' = [free_nodes EXCEPT ![t] = <<>>]
    /\ UNCHANGED <<mem, call, step, walkVars, result, benchVars>>

Library(t) ==
    /\ \/ Register(t) \/ ReadVersion(t) \/ ReadCommitVersion(t)
       \/ TryLockCas(t) \/ SendSyncRequest(t) \/ UnlockObjs(t) \/ ReleaseEnd(t)
       \/ SyncLoad(t) \/ SyncStore(t) \/ SyncBump(t) \/ Scan(t) \/ ScanEnd(t)
       \/ Wait(t) \/ ResetWriteSets(t) \/ Writeback(t) \/ Unlock(t)
       \/ SyncUnstamp(t) \/ SyncCommit(t) \/ ThreadFinish2(t)
    /\ UNCHANGED listVars

\* stop is set at any time: the thread leaves the loop after its call.
Finish(t) ==
    /\ step[t] = "out"
    /\ ThreadFinish(t)
    /\ UNCHANGED listVars

-----------------------------------------------------------------------------
Notice ==
    /\ set' = Members(PublishedContents)'
    /\ view' = [t \in Threads |-> Members(OwnContents(t))']
    /\ seen' = [t \in Threads |-> IF call'[t] = NULL THEN {}
                                  ELSE seen[t] \cup {call'[t].key \in view'[t]}]

Inside(t) ==
    \/ Restart(t) \/ WalkDeref(t) \/ WalkDerefLocked(t) \/ WalkSteal(t)
    \/ ListTryLock(t) \/ ListTryLockCopy(t) \/ ListAbort(t)
    \/ AddNode(t) \/ RemoveNode(t) \/ ListUnlock(t) \/ Return(t)
    \/ ListSyncEnd(t) \/ Library(t)

Done == \A t \in Threads : pc[t] = "done"

ListNext ==
    \/ Done /\ UNCHANGED allVars
    \/ \E t \in Threads : (StartOp(t) \/ Inside(t) \/ Finish(t)) /\ Notice

ListSpec == ListInit /\ [][ListNext]_allVars

\* A thread that is in a call goes on.
ListFairSpec == ListSpec /\ \A t \in Threads : WF_<<vars, listVars>>(Inside(t))

-----------------------------------------------------------------------------
(* Properties *)

Steps == {"out", "restart", "head", "walk", "succ", "lock_prev", "lock_next",
          "assign", "unlock", "return"}

NodeType == [val : Keys \cup {LIST_VAL_MIN, LIST_VAL_MAX}, p_next : Objs \cup {NULL}]

\* The types of the variables of the list.
ListTypeOK ==
    /\ DOMAIN mem = Objs
    /\ \A o \in Objs : \A v \in DOMAIN mem[o] : v \in Value /\ mem[o][v] \in NodeType
    /\ free \in SUBSET Objs
    /\ free_nodes \in [Threads -> Seq(Objs)]
    /\ step \in [Threads -> Steps]
    /\ \A t \in Threads : call[t] # NULL => call[t].op \in Ops[t] /\ call[t].key \in CallKeys
    /\ p_prev \in [Threads -> Ptr \cup {NULL}]
    /\ p_next \in [Threads -> Ptr \cup {NULL}]
    /\ n \in [Threads -> Ptr \cup {NULL}]
    /\ result \in [Threads -> BOOLEAN]

\* rlu_process_free gives back a block only when no section that may still use it
\* is left (rlu.c:583): no pointer of a section is to a free block or to a copy
\* of one, and no free block is on the list that any thread would walk, although
\* the sections that started after the stamp were not waited for, and although
\* the list may be in deferred write-sets.
NoUseAfterFree ==
    /\ \A t \in Threads : \A r \in refs[t] : r[1] \notin free
    /\ \A t \in Threads : Chain(OwnContents(t)) \cap free = {}

\* The assertion of rlu_process_free (rlu.c:450), at the instant it is made, and
\* rlu_free's (rlu.c:737): the buffer holds one block at most for each write-set
\* that is not written back, so a synchronisation of these leaves none behind.
FreeBuffer ==
    \A t \in Threads :
        /\ pc[t] = "sync_end" =>
              \A k \in DOMAIN free_nodes[t] : p_obj_copy[free_nodes[t][k]] = NULL
        /\ Len(free_nodes[t]) <= max_write_sets
        /\ pc[t] = "idle" => Len(free_nodes[t]) <= ws_tail_counter[t] - ws_wb_counter[t]

\* The final check of bench.c:570: when all the threads have finished, the number
\* of nodes in the list is the initial one and the insertions less the removals.
ExpectedSize ==
    Done => Cardinality(Chain(data) \ {p_min_node, p_max_node})
                = Cardinality(DOMAIN Initial) + MapThenSumSet(LAMBDA t : diff[t], Threads)

\* Every block that is not in the list is free again once all have finished.
NothingLeaked == Done => free = Objs \ Chain(data)

\* The write-sets of each thread that the others do not see.
Backlog == [t \in Threads |-> IF Publishing(t) THEN 0 ELSE ws_tail_counter[t] - ws_wb_counter[t]]

\* Its call has committed a change.
Changed == [t \in Threads |-> step[t] = "return" /\ result[t] /\ call[t].op # "contains"]

Answers == [t \in Threads |-> IF call[t] = NULL THEN result[t] ELSE NULL]

Deferred == INSTANCE DeferredSet WITH deferred <- Backlog, updated <- Changed, result <- Answers

\* The list is a set with deferred updates: what a call answers is right, for its
\* thread, at an instant of the call, through walks that read half-written-back
\* lists and copies in the logs of others, failed locks and restarts; the updates
\* of a thread reach the others all at once, and in time.
ImplementsDeferredSet == Deferred!Spec

\* The loop of restarts ends: a call returns.
CallReturns == \A t \in Threads : call[t] # NULL ~> call[t] = NULL
=============================================================================
