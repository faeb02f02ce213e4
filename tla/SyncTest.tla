------------------------------ MODULE SyncTest ------------------------------
(***************************************************************************)
(* The kernel benchmark, kernel-bench/sync_test.c, with its barrier        *)
(* (barrier.c) and the RCU list.  Thread 0 is the one that loads the       *)
(* module: it fills half of the set, starts the others, works as they do,  *)
(* waits for their completions, adds up what they counted, deletes every   *)
(* key and gives the thread data back.                                     *)
(***************************************************************************)
EXTENDS RcuList

CONSTANTS
    threads_nb,
    range,          \* the keys are 0 .. range - 1
    MaxOps          \* bound: operations of each thread before its time is up

ASSUME BenchAssumption ==
    /\ threads_nb \in Nat \ {0}
    /\ Threads = 0 .. threads_nb - 1
    /\ range \in Nat
    /\ Keys = 0 .. range - 1
    /\ MaxOps \in [Threads -> Nat \ {0}]

VARIABLES
    stage,          \* where each thread is in sync_test_init / sync_test_thread
    i,              \* loop index of sync_test_init
    crossing,       \* threads that arrived at sync_test_barrier
    completions,    \* of sync_test_working, not waited for yet
    ops,            \* the operations that each thread counted
    nb,             \* what the main thread added up
    rlu             \* the threads whose rlu_thread_data_t is allocated

benchVars == <<stage, i, crossing, completions, ops, nb, rlu>>
vars == <<listVars, benchVars>>

Main == 0

Init ==
    /\ ListInit
    /\ stage = [t \in Threads |-> IF t = Main THEN "fill" ELSE "new"]
    /\ i = 0
    /\ crossing = 0
    /\ completions = 0
    /\ ops = [t \in Threads |-> 0]
    /\ nb = 0
    /\ rlu = Threads

GotoStage(t, label) == stage' = [stage EXCEPT ![t] = label]

-----------------------------------------------------------------------------
(* Half fill the set *)

\* One insertion of a random key ...
Draw(key) ==
    /\ stage[Main] = "fill"
    /\ i < range \div 2
    /\ Call(Main, "add", key)
    /\ GotoStage(Main, "filling")
    /\ UNCHANGED <<i, crossing, completions, ops, nb, rlu>>

\* ... which is tried again, with another key, as long as it fails.
Filled ==
    /\ stage[Main] = "filling"
    /\ pc[Main] = "idle"
    /\ i' = IF ret[Main] THEN i + 1 ELSE i
    /\ GotoStage(Main, "fill")
    /\ UNCHANGED <<listVars, crossing, completions, ops, nb, rlu>>

-----------------------------------------------------------------------------
(* Start the others, and meet them *)

StartCreating ==
    /\ stage[Main] = "fill"
    /\ i = range \div 2
    /\ i' = 1
    /\ GotoStage(Main, "create")
    /\ UNCHANGED <<listVars, crossing, completions, ops, nb, rlu>>

\* Mutant of Create: one thread too few.
MutCreate ==
    /\ stage[Main] = "create"
    /\ IF i < threads_nb - 1
       THEN i' = i + 1 /\ GotoStage(i, "arrive")
       ELSE i' = 0 /\ GotoStage(Main, "arrive")
    /\ UNCHANGED <<listVars, crossing, completions, ops, nb, rlu>>

\* kthread_create and wake_up_process; then the main thread works too.
Create ==
    /\ stage[Main] = "create"
    /\ IF i < threads_nb
       THEN i' = i + 1 /\ GotoStage(i, "arrive")
       ELSE i' = 0 /\ GotoStage(Main, "arrive")
    /\ UNCHANGED <<listVars, crossing, completions, ops, nb, rlu>>

\* barrier_cross: the atomic increment ...
Arrive(t) ==
    /\ stage[t] = "arrive"
    /\ crossing' = crossing + 1
    /\ GotoStage(t, "barrier")
    /\ UNCHANGED <<listVars, i, completions, ops, nb, rlu>>

\* Mutant of Cross: one thread too few.
MutCross(t) ==
    /\ stage[t] = "barrier"
    /\ crossing + 1 >= threads_nb
    /\ GotoStage(t, "loop")
    /\ UNCHANGED <<listVars, i, crossing, completions, ops, nb, rlu>>

\* ... and the loop that reads the number until all are there.
Cross(t) ==
    /\ stage[t] = "barrier"
    /\ crossing = threads_nb
    /\ GotoStage(t, "loop")
    /\ UNCHANGED <<listVars, i, crossing, completions, ops, nb, rlu>>

-----------------------------------------------------------------------------
(* The loop of sync_test_thread *)

Operate(t) ==
    /\ stage[t] = "loop"
    /\ \E op \in {"contains", "add", "remove"}, key \in Keys : Call(t, op, key)
    /\ GotoStage(t, "operation")
    /\ UNCHANGED <<i, crossing, completions, ops, nb, rlu>>

\* The operation is counted; the time may be up, or not.
Count(t) ==
    /\ stage[t] = "operation"
    /\ pc[t] = "idle"
    /\ ops' = [ops EXCEPT ![t] = @ + 1]
    /\ \/ ops'[t] < MaxOps[t] /\ GotoStage(t, "loop")
       \/ GotoStage(t, "complete")
    /\ UNCHANGED <<listVars, i, crossing, completions, nb, rlu>>

\* complete(&sync_test_working)
Complete(t) ==
    /\ stage[t] = "complete"
    /\ completions' = completions + 1
    /\ GotoStage(t, "finish")
    /\ UNCHANGED <<listVars, i, crossing, ops, nb, rlu>>

\* Mutant of Finish: a second complete().
MutFinish(t) ==
    /\ stage[t] = "finish"
    /\ completions' = completions + 1
    /\ GotoStage(t, IF t = Main THEN "wait" ELSE "done")
    /\ UNCHANGED <<listVars, i, crossing, ops, nb, rlu>>

\* The last thing a thread does is rlu_thread_finish.
Finish(t) ==
    /\ stage[t] = "finish"
    /\ GotoStage(t, IF t = Main THEN "wait" ELSE "done")
    /\ UNCHANGED <<listVars, i, crossing, completions, ops, nb, rlu>>

-----------------------------------------------------------------------------
(* The end of sync_test_init *)

\* Mutant of WaitForCompletion: as if the main thread did not complete.
MutWaitForCompletion ==
    /\ stage[Main] = "wait"
    /\ IF i < threads_nb - 1
       THEN /\ completions > 0
            /\ completions' = completions - 1
            /\ i' = i + 1
            /\ UNCHANGED stage
       ELSE /\ i' = 0
            /\ GotoStage(Main, "sum")
            /\ UNCHANGED completions
    /\ UNCHANGED <<listVars, crossing, ops, nb, rlu>>

\* wait_for_completion for each thread, itself included, then rlu_thread_init
\* of its own data.
WaitForCompletion ==
    /\ stage[Main] = "wait"
    /\ IF i < threads_nb
       THEN /\ completions > 0
            /\ completions' = completions - 1
            /\ i' = i + 1
            /\ UNCHANGED stage
       ELSE /\ i' = 0
            /\ GotoStage(Main, "sum")
            /\ UNCHANGED completions
    /\ UNCHANGED <<listVars, crossing, ops, nb, rlu>>

Sum ==
    /\ stage[Main] = "sum"
    /\ IF i < threads_nb
       THEN i' = i + 1 /\ nb' = nb + ops[i] /\ UNCHANGED stage
       ELSE i' = 0 /\ GotoStage(Main, "empty") /\ UNCHANGED nb
    /\ UNCHANGED <<listVars, crossing, completions, ops, rlu>>

\* Delete all possible keys, one after the other ...
Empty ==
    /\ stage[Main] = "empty"
    /\ i < range
    /\ Call(Main, "remove", i)
    /\ GotoStage(Main, "emptying")
    /\ UNCHANGED <<i, crossing, completions, ops, nb, rlu>>

Emptied ==
    /\ stage[Main] = "emptying"
    /\ pc[Main] = "idle"
    /\ i' = i + 1
    /\ GotoStage(Main, "empty")
    /\ UNCHANGED <<listVars, crossing, completions, ops, nb, rlu>>

\* ... and finish the thread once more.
FinishAgain ==
    /\ stage[Main] = "empty"
    /\ i = range
    /\ i' = 0
    /\ GotoStage(Main, "kfree")
    /\ UNCHANGED <<listVars, crossing, completions, ops, nb, rlu>>

Kfree ==
    /\ stage[Main] = "kfree"
    /\ IF i < threads_nb
       THEN i' = i + 1 /\ rlu' = rlu \ {i} /\ UNCHANGED stage
       ELSE GotoStage(Main, "done") /\ UNCHANGED <<i, rlu>>
    /\ UNCHANGED <<listVars, crossing, completions, ops, nb>>

-----------------------------------------------------------------------------
Loading ==
    \/ Filled \/ StartCreating \/ Create
    \/ WaitForCompletion \/ Sum \/ Empty \/ Emptied \/ FinishAgain \/ Kfree

Working(t) ==
    \/ Arrive(t) \/ Cross(t) \/ Operate(t) \/ Count(t) \/ Complete(t) \/ Finish(t)
    \/ InCall(t) /\ UNCHANGED benchVars

Done == \A t \in Threads : stage[t] = "done"

Next ==
    \/ Loading
    \/ \E key \in Keys : Draw(key)
    \/ \E t \in Threads : Working(t)
    \/ Reclaim /\ UNCHANGED benchVars
    \/ Done /\ retired = {} /\ UNCHANGED vars

Spec == Init /\ [][Next]_vars

(* Threads are scheduled (each turn of the barrier's loop calls schedule), *)
(* an RCU grace period ends, and random numbers leave out no key forever.  *)
Fairness ==
    /\ WF_vars(Loading)
    /\ \A key \in Keys : SF_vars(Draw(key))
    /\ \A t \in Threads : WF_vars(Working(t))
    /\ WF_vars(Reclaim /\ UNCHANGED benchVars)

FairSpec == Spec /\ Fairness

-----------------------------------------------------------------------------
(* Properties *)

\* The types of the variables of the benchmark.
TypeOK ==
    /\ ListTypeOK
    /\ stage \in [Threads -> {"fill", "filling", "create", "new", "arrive", "barrier",
                              "loop", "operation", "complete", "finish", "wait", "sum",
                              "empty", "emptying", "kfree", "done"}]
    /\ i \in 0 .. threads_nb + range
    /\ crossing \in 0 .. threads_nb
    /\ completions \in 0 .. threads_nb
    /\ ops \in [Threads -> Nat]
    /\ nb \in Nat
    /\ rlu \in SUBSET Threads

\* The barrier (barrier.c:14-26) separates the filling of the set from the
\* measured work: when any thread works all have arrived, and the first of their
\* operations starts from a set with half of the keys.
WorkTogether ==
    \A t \in Threads :
        stage[t] \in {"loop", "operation"} =>
            /\ \A u \in Threads : stage[u] \notin {"fill", "filling", "new", "arrive"}
            /\ (\A u \in Threads : stage[u] \in {"barrier", "loop"} /\ ops[u] = 0) =>
                   Cardinality(Members) = range \div 2

\* What the main thread adds up (sync_test.c:241-246) is everything that the
\* threads have done, and will ever do.
StatisticsComplete ==
    stage[Main] \in {"empty", "emptying", "kfree", "done"} =>
        \E sum \in [0 .. threads_nb -> 0 .. nb] :
            /\ sum[0] = 0 /\ sum[threads_nb] = nb
            /\ \A t \in Threads : sum[t + 1] = sum[t] + ops[t]

\* "Empty the set using all possible keys" (sync_test.c:251-254): when the main
\* thread has deleted them nothing is in the list, nor in anybody's hands, and
\* every node is given back.
NothingLeft ==
    stage[Main] \in {"kfree", "done"} =>
        /\ Members = {}
        /\ \A t \in Threads : call[t] = NULL
        /\ Nodes = free \cup {r.node : r \in retired} \cup {p_min_node, p_max_node}

\* sync_test.c:232, "Wait for the threads to finish": the data of a thread is
\* given back (line 259) only when the thread no longer uses it.
DataOutlivesThread == \A t \in Threads : t \notin rlu => stage[t] # "finish"

\* The loading of the module ends: everyone gets past the barrier, where all wait
\* for all, the spin lock, and the completions.
Loads == <>(stage[Main] = "done")
=============================================================================
