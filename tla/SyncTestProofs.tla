--------------------------- MODULE SyncTestProofs ---------------------------
(***************************************************************************)
(* The theorems about the kernel benchmark and its list, for any number of *)
(* threads, keys, blocks and operations.  The invariant of the list comes  *)
(* from RcuListProofs; that of the benchmark is here, in two layers: where *)
(* the threads are (BenchInv), and what the set then holds (SetInv).       *)
(***************************************************************************)
EXTENDS SyncTest, RcuListProofs, FiniteSetTheorems

\* The stages that every thread goes through, and those of the main thread alone,
\* before and after the work.
Work == {"arrive", "barrier", "loop", "operation", "complete", "finish"}
Before == {"fill", "filling", "create"}
After == {"sum", "empty", "emptying", "kfree", "done"}
Stages == Work \cup Before \cup After \cup {"new", "wait"}

BenchTypes ==
    /\ stage \in [Threads -> Stages]
    /\ i \in Nat /\ crossing \in Nat /\ completions \in Nat
    /\ ops \in [Threads -> Nat]
    /\ nb \in Nat
    /\ rlu \in SUBSET Threads

\* The index of the loops of sync_test_init.
Index ==
    /\ stage[Main] = "fill" => i <= range \div 2
    /\ stage[Main] = "filling" => i < range \div 2
    /\ stage[Main] = "create" => i \in 1 .. threads_nb
    /\ stage[Main] \in Work => i = 0
    /\ stage[Main] \in {"wait", "sum", "kfree", "done"} => i <= threads_nb
    /\ stage[Main] = "empty" => i <= range
    /\ stage[Main] = "emptying" => i < range

\* A thread is new until the main thread creates it.
Created ==
    /\ stage[Main] # "new"
    /\ \A t \in Threads \ {Main} : stage[t] \in Work \cup {"new", "done"}
    /\ \A t \in Threads \ {Main} :
          stage[t] = "new" <=> \/ stage[Main] \in {"fill", "filling"}
                               \/ stage[Main] = "create" /\ i <= t

Arrived == {t \in Threads : stage[t] \notin Before \cup {"new", "arrive"}}

\* The barrier counts those that arrived, and opens when all have.
Met ==
    /\ crossing = Cardinality(Arrived)
    /\ \A t \in Arrived : stage[t] # "barrier" => Arrived = Threads

Completed == {t \in Threads : stage[t] \in After \cup {"finish", "wait"}}

\* A completion that a thread gave is counted until the main thread takes it.
Counted ==
    /\ stage[Main] = "wait" => completions + i = Cardinality(Completed)
    /\ stage[Main] \notin After \cup {"wait"} => completions = Cardinality(Completed)
    /\ stage[Main] \in After => Completed = Threads /\ completions = 0

\* nb is the last of the partial sums so far.
PartialSum(n) ==
    \E sum \in [0 .. threads_nb -> 0 .. nb] :
        /\ sum[0] = 0 /\ sum[n] = nb
        /\ \A t \in Threads : t < n => sum[t + 1] = sum[t] + ops[t]

Summed ==
    /\ stage[Main] \notin After => nb = 0
    /\ stage[Main] = "sum" => PartialSum(i)
    /\ stage[Main] \in After \ {"sum"} => PartialSum(threads_nb)

\* A thread is in a call only where the benchmark made one.
InCalls ==
    /\ \A t \in Threads : call[t] # NULL => stage[t] \in {"filling", "operation", "emptying"}
    /\ call[Main] # NULL /\ stage[Main] = "filling" => call[Main].op = "add"
    /\ call[Main] # NULL /\ stage[Main] = "emptying" =>
          call[Main] = [op |-> "remove", key |-> i]

BenchInv == BenchTypes /\ Index /\ Created /\ Met /\ Counted /\ Summed /\ InCalls

\* The add of the main thread that is filling took effect.
Added == \/ pc[Main] = "unlock" /\ result[Main]
         \/ pc[Main] = "idle" /\ ret[Main]

\* No operation of the measured part was called.
NotStarted ==
    \A t \in Threads : stage[t] \in {"new", "create", "arrive", "barrier", "loop"} /\ ops[t] = 0

\* How many keys are in the set before the work, and which are not after it.
Filling ==
    /\ stage[Main] = "fill" => Cardinality(Members) = i
    /\ stage[Main] = "filling" => Cardinality(Members) = IF Added THEN i + 1 ELSE i
    /\ NotStarted => Cardinality(Members) = range \div 2

Emptying ==
    /\ stage[Main] \in {"empty", "emptying"} => \A key \in Members : key >= i
    /\ stage[Main] = "emptying" /\ pc[Main] \in {"unlock", "free", "idle"} => i \notin Members
    /\ stage[Main] \in {"kfree", "done"} => Members = {}

SetInv == Filling /\ Emptying

SyncInv == ListInv /\ BenchInv /\ SetInv

-----------------------------------------------------------------------------
(* Counting threads *)

LEMMA ThreadsFinite ==
    IsFiniteSet(Threads) /\ Cardinality(Threads) = threads_nb /\ Main \in Threads
<1>1. threads_nb - 1 \in Int /\ ~(0 > threads_nb - 1)
  BY BenchAssumption
<1>2. IsFiniteSet(0 .. threads_nb - 1) /\ Cardinality(0 .. threads_nb - 1) = threads_nb
  BY <1>1, FS_Interval, BenchAssumption
<1> QED
  BY <1>2, BenchAssumption DEF Main

LEMMA CountThreads ==
    ASSUME NEW S \in SUBSET Threads
    PROVE  /\ IsFiniteSet(S) /\ Cardinality(S) \in 0 .. threads_nb
           /\ Cardinality(S) = threads_nb => S = Threads
           /\ \A t \in Threads \ S : Cardinality(S \cup {t}) = Cardinality(S) + 1
<1>1. IsFiniteSet(S) /\ Cardinality(S) <= threads_nb
      /\ (Cardinality(S) = threads_nb => S = Threads)
  BY ThreadsFinite, FS_Subset
<1>2. Cardinality(S) \in Nat
  BY <1>1, FS_CardinalityType
<1>3. \A t \in Threads \ S : Cardinality(S \cup {t}) = Cardinality(S) + 1
  BY <1>1, FS_AddElement
<1> QED
  BY <1>1, <1>2, <1>3, BenchAssumption

LEMMA Half == range \div 2 \in Nat /\ range \div 2 <= range
BY BenchAssumption

\* What a change of stage does to those that arrived and those that completed.
LEMMA Moves ==
    ASSUME stage \in [Threads -> Stages], NEW t \in Threads, NEW label \in Stages,
           GotoStage(t, label)
    PROVE  /\ stage' \in [Threads -> Stages]
           /\ stage'[t] = label
           /\ \A u \in Threads \ {t} : stage'[u] = stage[u]
           /\ Arrived' = IF label \notin Before \cup {"new", "arrive"}
                         THEN Arrived \cup {t} ELSE Arrived \ {t}
           /\ Completed' = IF label \in After \cup {"finish", "wait"}
                           THEN Completed \cup {t} ELSE Completed \ {t}
<1>1. /\ stage' \in [Threads -> Stages]
      /\ stage'[t] = label
      /\ \A u \in Threads \ {t} : stage'[u] = stage[u]
  BY DEF GotoStage
<1>2. Arrived' = IF label \notin Before \cup {"new", "arrive"}
                 THEN Arrived \cup {t} ELSE Arrived \ {t}
  BY <1>1 DEF Arrived
<1>3. Completed' = IF label \in After \cup {"finish", "wait"}
                   THEN Completed \cup {t} ELSE Completed \ {t}
  BY <1>1 DEF Completed
<1> QED
  BY <1>1, <1>2, <1>3

\* Once the main thread waited for all of them no thread is at work.
LEMMA AllWorked ==
    ASSUME BenchInv, stage[Main] \in After, NEW t \in Threads \ {Main}
    PROVE  stage[t] \in {"finish", "done"}
<1>1. t \in Completed /\ stage[t] \in Work \cup {"new", "done"}
  BY DEF BenchInv, Counted, Created
<1> QED
  BY <1>1 DEF Completed, Work, After

LEMMA BenchInit == Init => BenchInv
<1> SUFFICES ASSUME Init PROVE BenchInv
  OBVIOUS
<1>0. /\ stage = [t \in Threads |-> IF t = Main THEN "fill" ELSE "new"]
      /\ \A t \in Threads : call[t] = NULL
  BY DEF Init, ListInit
<1>1. Arrived = {} /\ Completed = {}
  BY <1>0 DEF Arrived, Completed, Before, After
<1>2. Cardinality({}) = 0
  BY FS_EmptySet
<1>3. BenchTypes
  BY <1>0, ThreadsFinite DEF Init, BenchTypes, Stages, Before
<1>4. Index /\ Created
  BY <1>0, ThreadsFinite, Half DEF Init, Index, Created, Work, Before
<1>5. Met /\ Counted
  BY <1>0, <1>1, <1>2, ThreadsFinite DEF Init, Met, Counted, After
<1>6. Summed /\ InCalls
  BY <1>0, ThreadsFinite DEF Init, Summed, InCalls, After
<1> QED
  BY <1>3, <1>4, <1>5, <1>6 DEF BenchInv

-----------------------------------------------------------------------------
(* Where the threads are: one lemma for each action of the benchmark *)

LEMMA IdleCall ==
    ASSUME ListInv, NEW t \in Threads
    PROVE  pc[t] = "idle" <=> call[t] = NULL
BY DEF ListInv, Labelled

LEMMA CallFrame ==
    ASSUME ListInv, BenchInv, NEW t \in Threads, NEW op, NEW key, Call(t, op, key)
    PROVE  /\ call[t] = NULL /\ call'[t] = [op |-> op, key |-> key]
           /\ \A u \in Threads \ {t} : call'[u] = call[u]
           /\ pc'[t] = "lock" /\ \A u \in Threads \ {t} : pc'[u] = pc[u]
           /\ UNCHANGED <<node, result, ret>>
<1>1. /\ call \in [Threads -> Calls \cup {NULL}]
      /\ pc \in [Threads -> {"idle", "lock", "walk", "update", "unlock", "free"}]
  BY DEF ListInv, Types, ListTypeOK
<1> QED
  BY <1>1 DEF Call, Goto, memVars, walkVars

LEMMA DrawBench ==
    ASSUME ListInv, BenchInv, NEW key \in Keys, Draw(key)
    PROVE  BenchInv'
<1>0. /\ stage[Main] = "fill" /\ i < range \div 2 /\ GotoStage(Main, "filling")
      /\ Call(Main, "add", key)
      /\ UNCHANGED <<i, crossing, completions, ops, nb, rlu>>
  BY DEF Draw
<1>1. /\ stage' \in [Threads -> Stages] /\ stage'[Main] = "filling"
      /\ \A u \in Threads \ {Main} : stage'[u] = stage[u]
      /\ Arrived' = Arrived /\ Completed' = Completed
  BY <1>0, Moves, ThreadsFinite
     DEF BenchInv, BenchTypes, Arrived, Completed, Before, After, Stages
<1>2. BenchTypes' /\ Index' /\ Created'
  BY <1>0, <1>1 DEF BenchInv, BenchTypes, Index, Created, Work
<1>3. Met' /\ Counted'
  BY <1>0, <1>1, ThreadsFinite DEF BenchInv, Met, Counted, Arrived, Before, After
<1>4. Summed'
  BY <1>0, <1>1 DEF BenchInv, Summed, After
<1>5. /\ call'[Main] = [op |-> "add", key |-> key]
      /\ \A u \in Threads \ {Main} : call'[u] = call[u]
  BY <1>0, CallFrame, ThreadsFinite
<1>6. InCalls'
  BY <1>0, <1>1, <1>5, ThreadsFinite DEF BenchInv, InCalls
<1> QED
  BY <1>2, <1>3, <1>4, <1>6 DEF BenchInv

LEMMA FilledBench ==
    ASSUME ListInv, BenchInv, Filled
    PROVE  BenchInv'
<1>0. /\ stage[Main] = "filling" /\ i < range \div 2 /\ GotoStage(Main, "fill")
      /\ call[Main] = NULL /\ i' \in {i, i + 1}
      /\ UNCHANGED <<call, crossing, completions, ops, nb, rlu>>
  BY IdleCall, ThreadsFinite DEF Filled, BenchInv, Index, listVars
<1>1. /\ stage' \in [Threads -> Stages] /\ stage'[Main] = "fill"
      /\ \A u \in Threads \ {Main} : stage'[u] = stage[u]
      /\ Arrived' = Arrived /\ Completed' = Completed
  BY <1>0, Moves, ThreadsFinite
     DEF BenchInv, BenchTypes, Arrived, Completed, Before, After, Stages
<1>2. BenchTypes' /\ Index' /\ Created'
  BY <1>0, <1>1, Half DEF BenchInv, BenchTypes, Index, Created, Work
<1>3. Met' /\ Counted'
  BY <1>0, <1>1, ThreadsFinite DEF BenchInv, Met, Counted, Arrived, Before, After
<1>4. Summed'
  BY <1>0, <1>1 DEF BenchInv, Summed, After
<1>5. InCalls'
  BY <1>0, <1>1, ThreadsFinite DEF BenchInv, InCalls
<1> QED
  BY <1>2, <1>3, <1>4, <1>5 DEF BenchInv

LEMMA StartCreatingBench ==
    ASSUME ListInv, BenchInv, StartCreating
    PROVE  BenchInv'
<1>0. /\ stage[Main] = "fill" /\ GotoStage(Main, "create") /\ i' = 1
      /\ UNCHANGED <<call, crossing, completions, ops, nb, rlu>>
      /\ call[Main] = NULL
  BY ThreadsFinite DEF StartCreating, BenchInv, InCalls, listVars
<1>1. /\ stage' \in [Threads -> Stages] /\ stage'[Main] = "create"
      /\ \A u \in Threads \ {Main} : stage'[u] = stage[u]
      /\ Arrived' = Arrived /\ Completed' = Completed
  BY <1>0, Moves, ThreadsFinite
     DEF BenchInv, BenchTypes, Arrived, Completed, Before, After, Stages
<1>2. BenchTypes' /\ Index' /\ Created'
  BY <1>0, <1>1, BenchAssumption DEF BenchInv, BenchTypes, Index, Created, Work, Main
<1>3. Met' /\ Counted'
  BY <1>0, <1>1, ThreadsFinite DEF BenchInv, Met, Counted, Arrived, Before, After
<1>4. Summed'
  BY <1>0, <1>1 DEF BenchInv, Summed, After
<1>5. InCalls'
  BY <1>0, <1>1, ThreadsFinite DEF BenchInv, InCalls
<1> QED
  BY <1>2, <1>3, <1>4, <1>5 DEF BenchInv

LEMMA CreateBench ==
    ASSUME ListInv, BenchInv, Create
    PROVE  BenchInv'
<1>0. /\ stage[Main] = "create" /\ i \in 1 .. threads_nb
      /\ UNCHANGED <<call, crossing, completions, ops, nb, rlu>>
      /\ call[Main] = NULL /\ Main = 0 /\ Main \in Threads
  BY ThreadsFinite DEF Create, BenchInv, Index, InCalls, listVars, Main
<1>1. CASE i < threads_nb
  <2>0. /\ i \in Threads /\ i # Main /\ stage[i] = "new"
        /\ i' = i + 1 /\ GotoStage(i, "arrive")
    BY <1>0, <1>1, BenchAssumption DEF Create, BenchInv, Created
  <2>1. /\ stage' \in [Threads -> Stages] /\ stage'[i] = "arrive"
        /\ \A u \in Threads \ {i} : stage'[u] = stage[u]
        /\ stage'[Main] = "create"
        /\ Arrived' = Arrived /\ Completed' = Completed
    BY <1>0, <2>0, Moves
       DEF BenchInv, BenchTypes, Arrived, Completed, Before, After, Stages, Work
  <2>2. BenchTypes' /\ Index'
    <3>1. i' \in Nat /\ i' \in 1 .. threads_nb
      BY <1>0, <1>1, <2>0, BenchAssumption
    <3>2. BenchTypes'
      BY <1>0, <2>1, <3>1 DEF BenchInv, BenchTypes
    <3>3. Index'
      BY <2>1, <3>1 DEF Index, Work
    <3> QED
      BY <3>2, <3>3
  <2>3. Created'
    <3>1. \A t \in Threads \ {Main} : t \in Int
      BY BenchAssumption
    <3> QED
      BY <1>0, <1>1, <2>0, <2>1, <3>1 DEF BenchInv, Created, Work
  <2>4. Met' /\ Counted'
    BY <1>0, <2>0, <2>1 DEF BenchInv, Met, Counted, Arrived, Before, After
  <2>5. Summed'
    BY <1>0, <2>0, <2>1 DEF BenchInv, Summed, After
  <2>6. InCalls'
    BY <1>0, <2>0, <2>1 DEF BenchInv, InCalls
  <2> QED
    BY <2>2, <2>3, <2>4, <2>5, <2>6 DEF BenchInv
<1>2. CASE ~(i < threads_nb)
  <2>0. i = threads_nb /\ i' = 0 /\ GotoStage(Main, "arrive")
    BY <1>0, <1>2, BenchAssumption DEF Create
  <2>1. /\ stage' \in [Threads -> Stages] /\ stage'[Main] = "arrive"
        /\ \A u \in Threads \ {Main} : stage'[u] = stage[u]
        /\ Arrived' = Arrived /\ Completed' = Completed
    BY <1>0, <2>0, Moves
       DEF BenchInv, BenchTypes, Arrived, Completed, Before, After, Stages, Work
  <2>2. BenchTypes' /\ Index'
    BY <1>0, <2>0, <2>1 DEF BenchInv, BenchTypes, Index, Work
  <2>3. Created'
    <3>1. \A t \in Threads : t \in Int /\ ~(threads_nb <= t)
      BY BenchAssumption
    <3> QED
      BY <1>0, <2>0, <2>1, <3>1 DEF BenchInv, Created, Work
  <2>4. Met' /\ Counted'
    BY <1>0, <2>0, <2>1 DEF BenchInv, Met, Counted, Arrived, Before, After
  <2>5. Summed'
    BY <1>0, <2>0, <2>1 DEF BenchInv, Summed, After
  <2>6. InCalls'
    BY <1>0, <2>0, <2>1 DEF BenchInv, InCalls
  <2> QED
    BY <2>2, <2>3, <2>4, <2>5, <2>6 DEF BenchInv
<1> QED
  BY <1>1, <1>2

\* A step from one stage of the work to the next, of a thread that is not in a
\* call, and that leaves the set of those that completed as it is.
LEMMA WorkMoves ==
    ASSUME BenchInv, NEW t \in Threads, stage[t] \in Work,
           NEW label \in Work, GotoStage(t, label), UNCHANGED <<i, nb, rlu>>
    PROVE  /\ stage' \in [Threads -> Stages] /\ stage'[t] = label
           /\ \A u \in Threads \ {t} : stage'[u] = stage[u]
           /\ Arrived' = IF label = "arrive" THEN Arrived \ {t} ELSE Arrived \cup {t}
           /\ Completed' = IF label = "finish" THEN Completed \cup {t} ELSE Completed \ {t}
           /\ Index' /\ Created'
           /\ stage[Main] \in After \cup {"wait"} <=> stage'[Main] \in After \cup {"wait"}
           /\ stage[Main] \in After \cup {"wait"} => stage'[Main] = stage[Main]
<1>1. label \in Stages /\ Main \in Threads
  BY ThreadsFinite DEF Stages
<1>2. /\ stage' \in [Threads -> Stages] /\ stage'[t] = label
      /\ \A u \in Threads \ {t} : stage'[u] = stage[u]
      /\ Arrived' = IF label = "arrive" THEN Arrived \ {t} ELSE Arrived \cup {t}
      /\ Completed' = IF label = "finish" THEN Completed \cup {t} ELSE Completed \ {t}
  BY <1>1, Moves DEF BenchInv, BenchTypes, Work, Before, After
<1>3. Index'
  BY <1>1, <1>2 DEF BenchInv, Index, Work
<1>4. Created'
  BY <1>1, <1>2 DEF BenchInv, Created, Work
<1>5. /\ stage[Main] \in After \cup {"wait"} <=> stage'[Main] \in After \cup {"wait"}
      /\ stage[Main] \in After \cup {"wait"} => stage'[Main] = stage[Main]
  BY <1>1, <1>2 DEF Work, After
<1> QED
  BY <1>2, <1>3, <1>4, <1>5

LEMMA ArriveBench ==
    ASSUME ListInv, BenchInv, NEW t \in Threads, Arrive(t)
    PROVE  BenchInv'
<1>0. /\ stage[t] = "arrive" /\ crossing' = crossing + 1 /\ GotoStage(t, "barrier")
      /\ UNCHANGED <<call, i, completions, ops, nb, rlu>>
      /\ call[t] = NULL /\ t \notin Arrived /\ t \notin Completed
  BY DEF Arrive, BenchInv, InCalls, listVars, Arrived, Completed, After
<1>1. /\ stage' \in [Threads -> Stages] /\ stage'[t] = "barrier"
      /\ \A u \in Threads \ {t} : stage'[u] = stage[u]
      /\ Arrived' = Arrived \cup {t} /\ Completed' = Completed
      /\ Index' /\ Created'
      /\ stage[Main] \in After \cup {"wait"} <=> stage'[Main] \in After \cup {"wait"}
      /\ stage[Main] \in After \cup {"wait"} => stage'[Main] = stage[Main]
  BY <1>0, WorkMoves DEF Work
<1>2. BenchTypes'
  BY <1>0, <1>1 DEF BenchInv, BenchTypes
<1>3. Met'
  <2>1. Cardinality(Arrived') = Cardinality(Arrived) + 1
    BY <1>0, <1>1, CountThreads DEF Arrived
  <2>2. \A u \in Arrived' : stage'[u] = "barrier"
    BY <1>0, <1>1 DEF BenchInv, Met, Arrived
  <2> QED
    BY <1>0, <2>1, <2>2 DEF BenchInv, Met
<1>4. Counted'
  BY <1>0, <1>1 DEF BenchInv, Counted, After
<1>5. Summed'
  BY <1>0, <1>1 DEF BenchInv, Summed, PartialSum, After
<1>6. InCalls'
  BY <1>0, <1>1, ThreadsFinite DEF BenchInv, InCalls
<1> QED
  BY <1>1, <1>2, <1>3, <1>4, <1>5, <1>6 DEF BenchInv

LEMMA CrossBench ==
    ASSUME ListInv, BenchInv, NEW t \in Threads, Cross(t)
    PROVE  BenchInv'
<1>0. /\ stage[t] = "barrier" /\ crossing = threads_nb /\ GotoStage(t, "loop")
      /\ UNCHANGED <<call, i, crossing, completions, ops, nb, rlu>>
      /\ call[t] = NULL /\ t \in Arrived /\ t \notin Completed
  BY DEF Cross, BenchInv, InCalls, listVars, Arrived, Completed, Before, After
<1>1. /\ stage' \in [Threads -> Stages] /\ stage'[t] = "loop"
      /\ \A u \in Threads \ {t} : stage'[u] = stage[u]
      /\ Arrived' = Arrived /\ Completed' = Completed
      /\ Index' /\ Created'
      /\ stage[Main] \in After \cup {"wait"} <=> stage'[Main] \in After \cup {"wait"}
      /\ stage[Main] \in After \cup {"wait"} => stage'[Main] = stage[Main]
  BY <1>0, WorkMoves DEF Work
<1>2. BenchTypes'
  BY <1>0, <1>1 DEF BenchInv, BenchTypes
<1>3. Met'
  <2>1. Arrived = Threads
    BY <1>0, CountThreads DEF BenchInv, Met, Arrived
  <2> QED
    BY <1>0, <1>1, <2>1 DEF BenchInv, Met
<1>4. Counted'
  BY <1>0, <1>1 DEF BenchInv, Counted, After
<1>5. Summed'
  BY <1>0, <1>1 DEF BenchInv, Summed, PartialSum, After
<1>6. InCalls'
  BY <1>0, <1>1, ThreadsFinite DEF BenchInv, InCalls
<1> QED
  BY <1>1, <1>2, <1>3, <1>4, <1>5, <1>6 DEF BenchInv

LEMMA OperateBench ==
    ASSUME ListInv, BenchInv, NEW t \in Threads, Operate(t)
    PROVE  BenchInv'
<1>0. PICK op \in {"contains", "add", "remove"}, key \in Keys : Call(t, op, key)
  BY DEF Operate
<1>1. /\ stage[t] = "loop" /\ GotoStage(t, "operation")
      /\ UNCHANGED <<i, crossing, completions, ops, nb, rlu>>
      /\ t \in Arrived /\ t \notin Completed
  BY DEF Operate, Arrived, Completed, Before, After
<1>2. /\ stage' \in [Threads -> Stages] /\ stage'[t] = "operation"
      /\ \A u \in Threads \ {t} : stage'[u] = stage[u]
      /\ Arrived' = Arrived /\ Completed' = Completed
      /\ Index' /\ Created'
      /\ stage[Main] \in After \cup {"wait"} <=> stage'[Main] \in After \cup {"wait"}
      /\ stage[Main] \in After \cup {"wait"} => stage'[Main] = stage[Main]
  BY <1>1, WorkMoves DEF Work
<1>3. BenchTypes'
  BY <1>1, <1>2 DEF BenchInv, BenchTypes
<1>4. Met' /\ Counted'
  BY <1>1, <1>2 DEF BenchInv, Met, Counted, After
<1>5. Summed'
  BY <1>1, <1>2 DEF BenchInv, Summed, PartialSum, After
<1>6. \A u \in Threads \ {t} : call'[u] = call[u]
  BY <1>0, CallFrame
<1>7. InCalls'
  BY <1>1, <1>2, <1>6, ThreadsFinite DEF BenchInv, InCalls
<1> QED
  BY <1>2, <1>3, <1>4, <1>5, <1>7 DEF BenchInv

LEMMA CountBench ==
    ASSUME ListInv, BenchInv, NEW t \in Threads, Count(t)
    PROVE  BenchInv'
<1>0. PICK label \in {"loop", "complete"} : GotoStage(t, label)
  BY DEF Count
<1>1. /\ stage[t] = "operation" /\ ops' = [ops EXCEPT ![t] = @ + 1]
      /\ UNCHANGED <<call, i, crossing, completions, nb, rlu>>
      /\ call[t] = NULL /\ t \in Arrived /\ t \notin Completed
  BY IdleCall DEF Count, listVars, Arrived, Completed, Before, After
<1>2. /\ stage' \in [Threads -> Stages] /\ stage'[t] = label
      /\ \A u \in Threads \ {t} : stage'[u] = stage[u]
      /\ Arrived' = Arrived /\ Completed' = Completed
      /\ Index' /\ Created'
      /\ stage[Main] \in After \cup {"wait"} <=> stage'[Main] \in After \cup {"wait"}
      /\ stage[Main] \in After \cup {"wait"} => stage'[Main] = stage[Main]
  BY <1>0, <1>1, WorkMoves DEF Work
<1>3. BenchTypes'
  <2>1. ops' \in [Threads -> Nat]
    BY <1>1 DEF BenchInv, BenchTypes
  <2> QED
    BY <1>1, <1>2, <2>1 DEF BenchInv, BenchTypes
<1>4. Met' /\ Counted'
  BY <1>0, <1>1, <1>2 DEF BenchInv, Met, Counted, After
<1>5. stage[Main] \notin After
  BY <1>1 DEF BenchInv, Counted
<1>6. Summed'
  BY <1>1, <1>2, <1>5 DEF BenchInv, Summed, After
<1>7. InCalls'
  BY <1>0, <1>1, <1>2, ThreadsFinite DEF BenchInv, InCalls
<1> QED
  BY <1>2, <1>3, <1>4, <1>6, <1>7 DEF BenchInv

LEMMA CompleteBench ==
    ASSUME ListInv, BenchInv, NEW t \in Threads, Complete(t)
    PROVE  BenchInv'
<1>0. /\ stage[t] = "complete" /\ completions' = completions + 1 /\ GotoStage(t, "finish")
      /\ UNCHANGED <<call, i, crossing, ops, nb, rlu>>
      /\ call[t] = NULL /\ t \in Arrived /\ t \notin Completed
  BY DEF Complete, BenchInv, InCalls, listVars, Arrived, Completed, Before, After
<1>1. /\ stage' \in [Threads -> Stages] /\ stage'[t] = "finish"
      /\ \A u \in Threads \ {t} : stage'[u] = stage[u]
      /\ Arrived' = Arrived /\ Completed' = Completed \cup {t}
      /\ Index' /\ Created'
      /\ stage[Main] \in After \cup {"wait"} <=> stage'[Main] \in After \cup {"wait"}
      /\ stage[Main] \in After \cup {"wait"} => stage'[Main] = stage[Main]
  BY <1>0, WorkMoves DEF Work
<1>2. BenchTypes'
  BY <1>0, <1>1 DEF BenchInv, BenchTypes
<1>3. Met'
  BY <1>0, <1>1 DEF BenchInv, Met
<1>4. stage[Main] \notin After
  BY <1>0 DEF BenchInv, Counted
<1>5. Counted'
  <2>1. /\ Cardinality(Completed') = Cardinality(Completed) + 1
        /\ Cardinality(Completed) \in Nat
    BY <1>0, <1>1, CountThreads DEF Completed
  <2>2. CASE stage[Main] = "wait"
    <3>1. completions + i = Cardinality(Completed) /\ completions' + i' = completions + i + 1
      BY <1>0, <2>2 DEF BenchInv, Counted, BenchTypes
    <3> QED
      BY <1>1, <2>1, <2>2, <3>1 DEF Counted, After
  <2>3. CASE stage[Main] # "wait"
    BY <1>0, <1>1, <1>4, <2>1, <2>3 DEF BenchInv, Counted
  <2> QED
    BY <2>2, <2>3
<1>6. Summed'
  BY <1>0, <1>1, <1>4 DEF BenchInv, Summed, After
<1>7. InCalls'
  BY <1>0, <1>1, ThreadsFinite DEF BenchInv, InCalls
<1> QED
  BY <1>1, <1>2, <1>3, <1>5, <1>6, <1>7 DEF BenchInv

LEMMA FinishBench ==
    ASSUME ListInv, BenchInv, NEW t \in Threads, Finish(t)
    PROVE  BenchInv'
<1> DEFINE label == IF t = Main THEN "wait" ELSE "done"
<1>0. /\ stage[t] = "finish" /\ GotoStage(t, label)
      /\ UNCHANGED <<call, i, crossing, completions, ops, nb, rlu>>
      /\ call[t] = NULL /\ t \in Arrived /\ t \in Completed /\ Main \in Threads
  BY ThreadsFinite
     DEF Finish, BenchInv, InCalls, listVars, Arrived, Completed, Before, After
<1>1. /\ stage' \in [Threads -> Stages] /\ stage'[t] = label
      /\ \A u \in Threads \ {t} : stage'[u] = stage[u]
      /\ Arrived' = Arrived /\ Completed' = Completed
  BY <1>0, Moves DEF BenchInv, BenchTypes, Stages, Before, After
<1>2. BenchTypes'
  BY <1>0, <1>1 DEF BenchInv, BenchTypes
<1>3. Met'
  BY <1>0, <1>1 DEF BenchInv, Met
<1>4. CASE t = Main
  <2>1. stage[Main] = "finish" /\ stage'[Main] = "wait"
    BY <1>0, <1>1, <1>4
  <2>2. i = 0
    BY <2>1 DEF BenchInv, Index, Work
  <2>3. Index'
    BY <1>0, <2>1, <2>2, BenchAssumption DEF Index, Work
  <2>4. Created'
    BY <1>1, <1>4, <2>1 DEF BenchInv, Created, Work
  <2>5. Counted'
    BY <1>0, <1>1, <2>1, <2>2 DEF BenchInv, Counted, After, BenchTypes
  <2>6. Summed'
    BY <1>0, <2>1 DEF BenchInv, Summed, After
  <2>7. InCalls'
    BY <1>0, <1>1, <1>4 DEF BenchInv, InCalls
  <2> QED
    BY <1>2, <1>3, <2>3, <2>4, <2>5, <2>6, <2>7 DEF BenchInv
<1>5. CASE t # Main
  <2>1. stage'[Main] = stage[Main] /\ stage'[t] = "done"
    BY <1>0, <1>1, <1>5
  <2>2. Index'
    BY <1>0, <2>1 DEF BenchInv, Index, Work
  <2>3. Created'
    <3>1. stage[t] # "new" /\ stage'[t] \in Work \cup {"new", "done"} /\ stage'[t] # "new"
      BY <1>0, <2>1
    <3> HIDE DEF label
    <3> QED
      BY <1>0, <1>1, <1>5, <2>1, <3>1 DEF BenchInv, Created
  <2>4. Counted'
    BY <1>0, <1>1, <2>1 DEF BenchInv, Counted, After
  <2>5. Summed'
    BY <1>0, <2>1 DEF BenchInv, Summed, PartialSum, After
  <2>6. InCalls'
    BY <1>0, <1>1, <2>1 DEF BenchInv, InCalls
  <2> QED
    BY <1>2, <1>3, <2>2, <2>3, <2>4, <2>5, <2>6 DEF BenchInv
<1> QED
  BY <1>4, <1>5

\* A step of the main thread after its work, to the stage that comes next.
LEMMA MainMoves ==
    ASSUME BenchInv, stage[Main] \in After \cup {"wait"},
           NEW label \in After, label = stage[Main] \/ GotoStage(Main, label),
           label = stage[Main] => UNCHANGED stage
    PROVE  /\ stage' \in [Threads -> Stages] /\ stage'[Main] = label
           /\ \A u \in Threads \ {Main} : stage'[u] = stage[u]
           /\ Arrived' = Arrived /\ Completed' = Completed
           /\ Created'
<1>0. /\ label \in Stages /\ Main \in Threads /\ Main \in Arrived /\ Main \in Completed
      /\ stage \in [Threads -> Stages]
  BY ThreadsFinite
     DEF BenchInv, BenchTypes, Stages, Arrived, Completed, After, Before
<1>1. /\ stage' \in [Threads -> Stages] /\ stage'[Main] = label
      /\ \A u \in Threads \ {Main} : stage'[u] = stage[u]
  BY <1>0, Moves
<1>2. Arrived' = Arrived
  BY <1>0, <1>1 DEF Arrived, After, Before
<1>3. Completed' = Completed
  BY <1>0, <1>1 DEF Completed, After
<1>4. Created'
  BY <1>0, <1>1 DEF BenchInv, Created, Work, After
<1> QED
  BY <1>1, <1>2, <1>3, <1>4

LEMMA WaitBench ==
    ASSUME ListInv, BenchInv, WaitForCompletion
    PROVE  BenchInv'
<1>0. /\ stage[Main] = "wait" /\ i <= threads_nb /\ i \in Nat /\ nb = 0
      /\ completions + i = Cardinality(Completed) /\ completions \in Nat
      /\ UNCHANGED <<call, crossing, ops, nb, rlu>>
      /\ Main \in Threads /\ call[Main] = NULL
  BY ThreadsFinite DEF WaitForCompletion, BenchInv, BenchTypes, Index, Counted, Summed, InCalls,
                       listVars, After
<1>1. CASE i < threads_nb
  <2>0. /\ completions > 0 /\ completions' = completions - 1 /\ i' = i + 1
        /\ UNCHANGED stage
    BY <1>0, <1>1 DEF WaitForCompletion
  <2>1. Arrived' = Arrived /\ Completed' = Completed
    BY <2>0 DEF Arrived, Completed
  <2>2. i' \in Nat /\ i' <= threads_nb /\ completions' \in Nat
    BY <1>0, <1>1, <2>0, BenchAssumption
  <2>3. BenchTypes'
    BY <1>0, <2>0, <2>2 DEF BenchInv, BenchTypes
  <2>4. Index' /\ Created'
    BY <1>0, <2>0, <2>2 DEF BenchInv, Index, Created, Work
  <2>5. Met' /\ Counted'
    BY <1>0, <2>0, <2>1 DEF BenchInv, Met, Counted, After
  <2>6. Summed' /\ InCalls'
    BY <1>0, <2>0 DEF BenchInv, Summed, InCalls, After
  <2> QED
    BY <2>3, <2>4, <2>5, <2>6 DEF BenchInv
<1>2. CASE ~(i < threads_nb)
  <2>0. i' = 0 /\ GotoStage(Main, "sum") /\ UNCHANGED completions
    BY <1>0, <1>2 DEF WaitForCompletion
  <2>1. /\ stage' \in [Threads -> Stages] /\ stage'[Main] = "sum"
        /\ \A u \in Threads \ {Main} : stage'[u] = stage[u]
        /\ Arrived' = Arrived /\ Completed' = Completed
        /\ Created'
    BY <1>0, <2>0, MainMoves DEF After
  <2>2. completions = 0 /\ Completed = Threads
    <3>1. /\ Cardinality(Completed) \in 0 .. threads_nb
          /\ Cardinality(Completed) = threads_nb => Completed = Threads
      BY CountThreads DEF Completed
    <3> QED
      BY <1>0, <1>2, <3>1, BenchAssumption
  <2>3. BenchTypes'
    BY <1>0, <2>0, <2>1 DEF BenchInv, BenchTypes
  <2>4. Index'
    BY <2>0, <2>1, BenchAssumption DEF Index, Work
  <2>5. Met'
    BY <1>0, <2>1 DEF BenchInv, Met, Arrived, Before
  <2>6. Counted'
    BY <2>0, <2>1, <2>2 DEF Counted, After
  <2>7. Summed'
    <3> DEFINE sum == [k \in 0 .. threads_nb |-> 0]
    <3>1. sum \in [0 .. threads_nb -> 0 .. nb'] /\ sum[0] = 0
      BY <1>0, BenchAssumption
    <3>2. \A t \in Threads : ~(t < 0)
      BY BenchAssumption
    <3> HIDE DEF sum
    <3>3. PartialSum(i)'
      BY <1>0, <2>0, <3>1, <3>2 DEF PartialSum
    <3> QED
      BY <2>1, <3>3 DEF Summed, After
  <2>8. InCalls'
    BY <1>0, <2>1 DEF BenchInv, InCalls
  <2> QED
    BY <2>1, <2>3, <2>4, <2>5, <2>6, <2>7, <2>8 DEF BenchInv
<1> QED
  BY <1>1, <1>2

LEMMA SumBench ==
    ASSUME ListInv, BenchInv, Sum
    PROVE  BenchInv'
<1>0. /\ stage[Main] = "sum" /\ i <= threads_nb /\ i \in Nat /\ nb \in Nat
      /\ UNCHANGED <<call, crossing, completions, ops, rlu>>
      /\ Main \in Threads /\ call[Main] = NULL /\ ops \in [Threads -> Nat]
      /\ PartialSum(i)
  BY ThreadsFinite DEF Sum, BenchInv, BenchTypes, Index, Summed, InCalls, listVars
<1>1. CASE i < threads_nb
  <2>0. /\ i' = i + 1 /\ nb' = nb + ops[i] /\ UNCHANGED stage
        /\ i \in Threads /\ ops[i] \in Nat
    BY <1>0, <1>1, BenchAssumption DEF Sum
  <2>1. Arrived' = Arrived /\ Completed' = Completed
    BY <2>0 DEF Arrived, Completed
  <2>2. i' \in Nat /\ i' <= threads_nb /\ nb' \in Nat /\ nb <= nb'
    BY <1>0, <1>1, <2>0, BenchAssumption
  <2>3. BenchTypes'
    BY <1>0, <2>0, <2>2 DEF BenchInv, BenchTypes
  <2>4. Index' /\ Created'
    BY <1>0, <2>0, <2>2 DEF BenchInv, Index, Created, Work
  <2>5. Met' /\ Counted'
    BY <1>0, <2>0, <2>1 DEF BenchInv, Met, Counted, After
  <2>6. PartialSum(i)'
    <3>1. PICK sum \in [0 .. threads_nb -> 0 .. nb] :
             /\ sum[0] = 0 /\ sum[i] = nb
             /\ \A t \in Threads : t < i => sum[t + 1] = sum[t] + ops[t]
      BY <1>0 DEF PartialSum
    <3> DEFINE new == [sum EXCEPT ![i + 1] = nb + ops[i]]
    <3>2. new \in [0 .. threads_nb -> 0 .. nb + ops[i]]
      <4>1. \A n \in 0 .. threads_nb : new[n] \in 0 .. nb + ops[i]
        BY <1>0, <2>0
      <4> QED
        BY <4>1
    <3>3. new[i + 1] = nb + ops[i] /\ \A n \in 0 .. threads_nb : n # i + 1 => new[n] = sum[n]
      BY <1>0, <1>1, BenchAssumption
    <3> HIDE DEF new
    <3>4. new[0] = 0 /\ new[i + 1] = nb + ops[i]
      <4>1. 0 \in 0 .. threads_nb /\ 0 # i + 1
        BY <1>0, BenchAssumption
      <4> QED
        BY <4>1, <3>1, <3>3
    <3>5. ASSUME NEW t \in Threads, t < i + 1
          PROVE  new[t + 1] = new[t] + ops[t]
      <4>0. t \in 0 .. threads_nb /\ t + 1 \in 0 .. threads_nb /\ t \in Int
        BY BenchAssumption
      <4>1. CASE t = i
        BY <1>0, <3>1, <3>3, <4>0, <4>1
      <4>2. CASE t # i
        BY <1>0, <3>1, <3>3, <3>5, <4>0, <4>2
      <4> QED
        BY <4>1, <4>2
    <3> QED
      BY <1>0, <2>0, <3>2, <3>4, <3>5 DEF PartialSum
  <2>7. Summed' /\ InCalls'
    BY <1>0, <2>0, <2>6 DEF BenchInv, Summed, InCalls, After
  <2> QED
    BY <2>3, <2>4, <2>5, <2>7 DEF BenchInv
<1>2. CASE ~(i < threads_nb)
  <2>0. i = threads_nb /\ i' = 0 /\ GotoStage(Main, "empty") /\ UNCHANGED nb
    BY <1>0, <1>2, BenchAssumption DEF Sum
  <2>1. /\ stage' \in [Threads -> Stages] /\ stage'[Main] = "empty"
        /\ \A u \in Threads \ {Main} : stage'[u] = stage[u]
        /\ Arrived' = Arrived /\ Completed' = Completed
        /\ Created'
    BY <1>0, <2>0, MainMoves DEF After
  <2>2. BenchTypes'
    BY <1>0, <2>0, <2>1 DEF BenchInv, BenchTypes
  <2>3. Index'
    BY <2>0, <2>1, BenchAssumption DEF Index, Work
  <2>4. Met' /\ Counted'
    BY <1>0, <2>1 DEF BenchInv, Met, Counted, Arrived, Before, After
  <2>5. Summed'
    BY <1>0, <2>0, <2>1 DEF Summed, PartialSum, After
  <2>6. InCalls'
    BY <1>0, <2>1 DEF BenchInv, InCalls
  <2> QED
    BY <2>1, <2>2, <2>3, <2>4, <2>5, <2>6 DEF BenchInv
<1> QED
  BY <1>1, <1>2

LEMMA EmptyBench ==
    ASSUME ListInv, BenchInv, Empty
    PROVE  BenchInv'
<1>0. /\ stage[Main] = "empty" /\ i < range /\ GotoStage(Main, "emptying")
      /\ Call(Main, "remove", i) /\ Main \in Threads
      /\ UNCHANGED <<i, crossing, completions, ops, nb, rlu>>
  BY ThreadsFinite DEF Empty
<1>1. /\ stage' \in [Threads -> Stages] /\ stage'[Main] = "emptying"
      /\ \A u \in Threads \ {Main} : stage'[u] = stage[u]
      /\ Arrived' = Arrived /\ Completed' = Completed
      /\ Created'
  BY <1>0, MainMoves DEF After
<1>2. BenchTypes' /\ Index'
  BY <1>0, <1>1 DEF BenchInv, BenchTypes, Index, Work
<1>3. Met' /\ Counted'
  BY <1>0, <1>1 DEF BenchInv, Met, Counted, Arrived, Before, After
<1>4. Summed'
  BY <1>0, <1>1 DEF BenchInv, Summed, PartialSum, After
<1>5. /\ call'[Main] = [op |-> "remove", key |-> i]
      /\ \A u \in Threads \ {Main} : call'[u] = call[u]
  BY <1>0, CallFrame
<1>6. InCalls'
  BY <1>0, <1>1, <1>5 DEF BenchInv, InCalls
<1> QED
  BY <1>1, <1>2, <1>3, <1>4, <1>6 DEF BenchInv

LEMMA EmptiedBench ==
    ASSUME ListInv, BenchInv, Emptied
    PROVE  BenchInv'
<1>0. /\ stage[Main] = "emptying" /\ i < range /\ i \in Nat /\ i' = i + 1
      /\ GotoStage(Main, "empty") /\ call[Main] = NULL /\ Main \in Threads
      /\ UNCHANGED <<call, crossing, completions, ops, nb, rlu>>
  BY ThreadsFinite, IdleCall DEF Emptied, BenchInv, BenchTypes, Index, listVars
<1>1. /\ stage' \in [Threads -> Stages] /\ stage'[Main] = "empty"
      /\ \A u \in Threads \ {Main} : stage'[u] = stage[u]
      /\ Arrived' = Arrived /\ Completed' = Completed
      /\ Created'
  BY <1>0, MainMoves DEF After
<1>2. BenchTypes' /\ Index'
  BY <1>0, <1>1, BenchAssumption DEF BenchInv, BenchTypes, Index, Work
<1>3. Met' /\ Counted'
  BY <1>0, <1>1 DEF BenchInv, Met, Counted, Arrived, Before, After
<1>4. Summed'
  BY <1>0, <1>1 DEF BenchInv, Summed, PartialSum, After
<1>5. InCalls'
  BY <1>0, <1>1 DEF BenchInv, InCalls
<1> QED
  BY <1>1, <1>2, <1>3, <1>4, <1>5 DEF BenchInv

LEMMA FinishAgainBench ==
    ASSUME ListInv, BenchInv, FinishAgain
    PROVE  BenchInv'
<1>0. /\ stage[Main] = "empty" /\ i' = 0
      /\ GotoStage(Main, "kfree") /\ call[Main] = NULL /\ Main \in Threads
      /\ UNCHANGED <<call, crossing, completions, ops, nb, rlu>>
  BY ThreadsFinite DEF FinishAgain, BenchInv, InCalls, listVars
<1>1. /\ stage' \in [Threads -> Stages] /\ stage'[Main] = "kfree"
      /\ \A u \in Threads \ {Main} : stage'[u] = stage[u]
      /\ Arrived' = Arrived /\ Completed' = Completed
      /\ Created'
  BY <1>0, MainMoves DEF After
<1>2. BenchTypes' /\ Index'
  BY <1>0, <1>1, BenchAssumption DEF BenchInv, BenchTypes, Index, Work
<1>3. Met' /\ Counted'
  BY <1>0, <1>1 DEF BenchInv, Met, Counted, Arrived, Before, After
<1>4. Summed'
  BY <1>0, <1>1 DEF BenchInv, Summed, PartialSum, After
<1>5. InCalls'
  BY <1>0, <1>1 DEF BenchInv, InCalls
<1> QED
  BY <1>1, <1>2, <1>3, <1>4, <1>5 DEF BenchInv

LEMMA KfreeBench ==
    ASSUME ListInv, BenchInv, Kfree
    PROVE  BenchInv'
<1>0. /\ stage[Main] = "kfree" /\ i <= threads_nb /\ i \in Nat
      /\ call[Main] = NULL /\ Main \in Threads
      /\ UNCHANGED <<call, crossing, completions, ops, nb>>
      /\ rlu' \in {rlu \ {i}, rlu} /\ rlu \in SUBSET Threads
      /\ i' \in {i + 1, i} /\ (i' = i + 1 => i < threads_nb)
  BY ThreadsFinite DEF Kfree, BenchInv, BenchTypes, Index, InCalls, listVars
<1>1. PICK label \in {"kfree", "done"} :
         /\ label = stage[Main] \/ GotoStage(Main, label)
         /\ label = stage[Main] => UNCHANGED stage
  <2>1. UNCHANGED stage \/ GotoStage(Main, "done")
    BY DEF Kfree
  <2> QED
    BY <1>0, <2>1
<1>2. /\ stage' \in [Threads -> Stages] /\ stage'[Main] = label
      /\ \A u \in Threads \ {Main} : stage'[u] = stage[u]
      /\ Arrived' = Arrived /\ Completed' = Completed
      /\ Created'
  BY <1>0, <1>1, MainMoves DEF After
<1>3. i' \in Nat /\ i' <= threads_nb /\ rlu' \in SUBSET Threads
  BY <1>0, BenchAssumption
<1>4. BenchTypes'
  BY <1>0, <1>2, <1>3 DEF BenchInv, BenchTypes
<1>5. Index'
  BY <1>0, <1>1, <1>2, <1>3 DEF Index, Work
<1>6. Met' /\ Counted'
  BY <1>0, <1>1, <1>2 DEF BenchInv, Met, Counted, Arrived, Before, After
<1>7. Summed'
  BY <1>0, <1>1, <1>2 DEF BenchInv, Summed, PartialSum, After
<1>8. InCalls'
  BY <1>0, <1>1, <1>2 DEF BenchInv, InCalls
<1> QED
  BY <1>2, <1>4, <1>5, <1>6, <1>7, <1>8 DEF BenchInv

-----------------------------------------------------------------------------
(* Steps of the list *)

LEMMA InCallFrame ==
    ASSUME ListInv, NEW t \in Threads, InCall(t)
    PROVE  /\ call[t] # NULL
           /\ call'[t] \in {call[t], NULL}
           /\ \A u \in Threads \ {t} : /\ call'[u] = call[u] /\ pc'[u] = pc[u]
                                       /\ result'[u] = result[u] /\ ret'[u] = ret[u]
<1>1. /\ call \in [Threads -> Calls \cup {NULL}]
      /\ pc \in [Threads -> {"idle", "lock", "walk", "update", "unlock", "free"}]
      /\ result \in [Threads -> BOOLEAN] /\ ret \in [Threads -> BOOLEAN]
  BY DEF ListInv, Types, ListTypeOK
<1>2. call[t] # NULL
  BY IdleCall DEF InCall, ReaderLock, WriterLock, Advance, Stop, Link, Unlink, ReaderUnlock,
                  WriterUnlock, FreeNode
<1>3. CASE ReaderLock(t) \/ WriterLock(t) \/ Advance(t)
  BY <1>1, <1>2, <1>3 DEF ReaderLock, WriterLock, Advance, Goto
<1>4. CASE Stop(t) \/ Link(t) \/ Unlink(t)
  BY <1>1, <1>2, <1>4 DEF Stop, Link, Unlink, Goto, walkVars
<1>5. CASE Return(t)
  BY <1>1, <1>2, <1>5 DEF Return, Goto
<1>6. CASE WriterUnlock(t)
  BY <1>1, <1>2, <1>5, <1>6 DEF WriterUnlock, Goto
<1> QED
  BY <1>3, <1>4, <1>5, <1>6 DEF InCall, ReaderUnlock, FreeNode

LEMMA InCallBench ==
    ASSUME ListInv, BenchInv, NEW t \in Threads, InCall(t), UNCHANGED benchVars
    PROVE  BenchInv'
<1>1. Arrived' = Arrived /\ Completed' = Completed
  BY DEF benchVars, Arrived, Completed
<1>2. BenchTypes' /\ Index' /\ Created' /\ Met' /\ Counted'
  BY <1>1 DEF BenchInv, benchVars, BenchTypes, Index, Created, Met, Counted
<1>3. Summed'
  BY DEF BenchInv, benchVars, Summed, PartialSum
<1>4. \A u \in Threads : call'[u] # NULL => call[u] # NULL /\ call'[u] = call[u]
  BY InCallFrame
<1>5. InCalls'
  BY <1>4, ThreadsFinite DEF BenchInv, benchVars, InCalls
<1> QED
  BY <1>2, <1>3, <1>5 DEF BenchInv

LEMMA QuietBench ==
    ASSUME BenchInv, UNCHANGED call, UNCHANGED benchVars
    PROVE  BenchInv'
<1>1. Arrived' = Arrived /\ Completed' = Completed
  BY DEF benchVars, Arrived, Completed
<1>2. BenchTypes' /\ Index' /\ Created' /\ Met' /\ Counted'
  BY <1>1 DEF BenchInv, benchVars, BenchTypes, Index, Created, Met, Counted
<1>3. Summed' /\ InCalls'
  BY DEF BenchInv, benchVars, Summed, PartialSum, InCalls
<1> QED
  BY <1>2, <1>3 DEF BenchInv

\* Before and after the work only the main thread calls operations of the list.
LEMMA SoleCaller ==
    ASSUME ListInv, BenchInv, NEW t \in Threads, call[t] # NULL
    PROVE  /\ stage[Main] \in {"fill", "filling"} =>
                  t = Main /\ stage[Main] = "filling" /\ call[t].op = "add"
           /\ stage[Main] \in After =>
                  /\ t = Main /\ stage[Main] = "emptying"
                  /\ call[t] = [op |-> "remove", key |-> i]
           /\ ~NotStarted
<1>1. stage[t] \in {"filling", "operation", "emptying"}
  BY DEF BenchInv, InCalls
<1>2. ~NotStarted
  BY <1>1 DEF NotStarted
<1>3. CASE t = Main
  BY <1>1, <1>2, <1>3 DEF BenchInv, InCalls, After
<1>4. CASE t # Main
  <2>1. stage[Main] \notin {"fill", "filling"}
    BY <1>1, <1>4 DEF BenchInv, Created
  <2>2. stage[Main] \notin After
    BY <1>1, <1>4, AllWorked
  <2> QED
    BY <1>2, <2>1, <2>2
<1> QED
  BY <1>3, <1>4

LEMMA SetFinite == ASSUME ListInv PROVE IsFiniteSet(Members) /\ Members \subseteq Keys
<1>1. Members \subseteq Keys
  BY DEF ListInv, Sorted, Members, Linked
<1>2. IsFiniteSet(0 .. range - 1)
  BY FS_Interval, BenchAssumption
<1> QED
  BY <1>1, <1>2, FS_Subset, BenchAssumption

LEMMA LinkSet ==
    ASSUME ListInv, BenchInv, SetInv, NEW t \in Threads, Link(t), UNCHANGED benchVars
    PROVE  SetInv'
<1>0. /\ pc[t] = "update" /\ call[t].op = "add" /\ call[t] # NULL /\ result[t]
      /\ pc'[t] = "unlock" /\ \A u \in Threads \ {t} : pc'[u] = pc[u]
      /\ UNCHANGED <<result, ret>>
  BY DEF Link, Goto, walkVars, ListInv, Labelled, Types, ListTypeOK
<1>1. Members' = Members \cup {call[t].key} /\ call[t].key \notin Members
  BY LinkStep
<1>2. stage[Main] \notin After
  BY <1>0, SoleCaller
<1>3. Emptying'
  BY <1>2 DEF benchVars, Emptying, After
<1>4. ~NotStarted'
  BY <1>0, SoleCaller DEF NotStarted, benchVars
<1>5. CASE stage[Main] \notin {"fill", "filling"}
  BY <1>3, <1>4, <1>5 DEF SetInv, Filling, benchVars
<1>6. CASE stage[Main] \in {"fill", "filling"}
  <2>1. t = Main /\ stage[Main] = "filling"
    BY <1>0, <1>6, SoleCaller
  <2>2. ~Added /\ Added'
    BY <1>0, <2>1 DEF Added
  <2>3. Cardinality(Members') = Cardinality(Members) + 1
    BY <1>1, SetFinite, FS_AddElement
  <2>4. Cardinality(Members) = i
    BY <2>1, <2>2 DEF SetInv, Filling
  <2>5. Filling'
    BY <1>4, <2>1, <2>2, <2>3, <2>4 DEF Filling, benchVars
  <2> QED
    BY <1>3, <2>5 DEF SetInv
<1> QED
  BY <1>5, <1>6

LEMMA UnlinkSet ==
    ASSUME ListInv, BenchInv, SetInv, NEW t \in Threads, Unlink(t), UNCHANGED benchVars
    PROVE  SetInv'
<1>0. call[t].op = "remove" /\ call[t] # NULL
  BY DEF Unlink, ListInv, Labelled
<1>1. Members' = Members \ {call[t].key}
  BY UnlinkStep
<1>2. stage[Main] \notin {"fill", "filling"} /\ ~NotStarted'
  BY <1>0, SoleCaller DEF NotStarted, benchVars
<1>3. Filling'
  BY <1>2 DEF Filling, benchVars
<1>4. CASE stage[Main] \in After
  <2>1. t = Main /\ stage[Main] = "emptying" /\ call[t].key = i
    BY <1>0, <1>4, SoleCaller
  <2>2. Emptying'
    BY <1>1, <2>1 DEF SetInv, Emptying, benchVars
  <2> QED
    BY <1>3, <2>2 DEF SetInv
<1>5. CASE stage[Main] \notin After
  BY <1>3, <1>5 DEF SetInv, Emptying, benchVars, After
<1> QED
  BY <1>4, <1>5

\* The other steps of an operation.
LEMMA WalkSet ==
    ASSUME ListInv, ListInv', BenchInv, SetInv, NEW t \in Threads, InCall(t),
           ~Link(t), ~Unlink(t), UNCHANGED benchVars
    PROVE  SetInv'
<1>0. /\ pc \in [Threads -> {"idle", "lock", "walk", "update", "unlock", "free"}]
      /\ result \in [Threads -> BOOLEAN] /\ ret \in [Threads -> BOOLEAN]
      /\ call[t] # NULL
  BY InCallFrame DEF ListInv, Types, ListTypeOK
<1>1. Members' = Members
  BY SameMemory
     DEF InCall, ReaderLock, WriterLock, Advance, Stop, ReaderUnlock, WriterUnlock, FreeNode, memVars
<1>2. ~NotStarted'
  BY <1>0, SoleCaller DEF NotStarted, benchVars
<1>3. Filling'
  <2>1. CASE stage[Main] = "filling"
    <3>1. t = Main /\ call[t].op = "add"
      BY <1>0, <2>1, SoleCaller
    <3>2. Added' <=> Added
      <4>1. pc[t] # "free"
        BY <3>1 DEF ListInv, Labelled
      <4>2. CASE WriterLock(t) \/ Advance(t)
        BY <1>0, <3>1, <4>2 DEF WriterLock, Advance, Added, Goto
      <4>3. CASE Stop(t)
        BY <1>0, <3>1, <4>3 DEF Stop, Added, Goto
      <4>4. CASE WriterUnlock(t)
        BY <1>0, <3>1, <4>4 DEF WriterUnlock, Return, Added, Goto
      <4> QED
        BY <3>1, <4>1, <4>2, <4>3, <4>4 DEF InCall, ReaderLock, ReaderUnlock, FreeNode
    <3> QED
      BY <1>1, <1>2, <2>1, <3>2 DEF SetInv, Filling, benchVars
  <2>2. CASE stage[Main] # "filling"
    BY <1>1, <1>2, <2>2 DEF SetInv, Filling, benchVars
  <2> QED
    BY <2>1, <2>2
<1>4. Emptying'
  <2>1. CASE stage[Main] = "emptying"
    <3>1. t = Main /\ call[t].op = "remove" /\ call[t].key = i
      BY <1>0, <2>1, SoleCaller DEF After
    <3>2. pc'[t] \in {"unlock", "free", "idle"} => i \notin Members
      <4>1. CASE pc[t] \in {"unlock", "free"}
        BY <2>1, <3>1, <4>1 DEF SetInv, Emptying
      <4>2. CASE pc[t] = "walk" /\ pc'[t] = "unlock"
        <5>1. UNCHANGED call
          BY <4>2 DEF InCall, ReaderLock, WriterLock, Advance, Stop, ReaderUnlock, WriterUnlock,
                      FreeNode
        <5>2. WriterAt(t)'
          BY <3>1, <4>2, <5>1 DEF ListInv, Walks, WalkAt, Writing, Writes
        <5> QED
          BY <1>1, <3>1, <4>2, <5>1, <5>2 DEF WriterAt
      <4>3. \/ pc[t] \in {"unlock", "free"}
            \/ pc[t] = "walk" /\ pc'[t] \in {"walk", "unlock", "update"}
            \/ pc[t] = "lock" /\ pc'[t] = "walk"
        BY <1>0 DEF InCall, ReaderLock, WriterLock, Advance, Stop, ReaderUnlock, WriterUnlock,
                    FreeNode, Goto
      <4> QED
        BY <4>1, <4>2, <4>3
    <3> QED
      BY <1>1, <2>1, <3>1, <3>2 DEF SetInv, Emptying, benchVars
  <2>2. CASE stage[Main] # "emptying"
    BY <1>1, <2>2 DEF SetInv, Emptying, benchVars
  <2> QED
    BY <2>1, <2>2
<1> QED
  BY <1>3, <1>4 DEF SetInv

-----------------------------------------------------------------------------
(* What the set holds: the steps of the benchmark *)

\* A step that changes neither the set nor the calls of the main thread.
LEMMA SameSet ==
    ASSUME SetInv, UNCHANGED node,
           stage'[Main] \in {"fill", "filling", "empty", "emptying"} =>
              UNCHANGED <<i, pc[Main], result[Main], ret[Main]>>,
           stage'[Main] = stage[Main] \/ stage'[Main] \notin Before \cup After,
           NotStarted' => NotStarted
    PROVE  SetInv'
<1>1. Members' = Members
  BY SameMemory
<1>2. Filling'
  BY <1>1 DEF SetInv, Filling, Added, Before
<1>3. Emptying'
  BY <1>1 DEF SetInv, Emptying, After
<1> QED
  BY <1>2, <1>3 DEF SetInv

LEMMA DrawSet ==
    ASSUME ListInv, BenchInv, SetInv, NEW key \in Keys, Draw(key)
    PROVE  SetInv'
<1>0. /\ stage[Main] = "fill" /\ stage'[Main] = "filling" /\ UNCHANGED i
      /\ UNCHANGED node /\ pc'[Main] = "lock" /\ Main \in Threads
  BY CallFrame, ThreadsFinite DEF Draw, GotoStage, BenchInv, BenchTypes
<1>1. Members' = Members
  BY <1>0, SameMemory
<1>2. ~Added' /\ ~NotStarted'
  BY <1>0 DEF Added, NotStarted
<1> QED
  BY <1>0, <1>1, <1>2 DEF SetInv, Filling, Emptying

LEMMA FilledSet ==
    ASSUME ListInv, BenchInv, SetInv, Filled
    PROVE  SetInv'
<1>0. /\ stage[Main] = "filling" /\ stage'[Main] = "fill" /\ pc[Main] = "idle"
      /\ UNCHANGED node /\ Main \in Threads
      /\ i' = IF ret[Main] THEN i + 1 ELSE i
  BY ThreadsFinite DEF Filled, GotoStage, BenchInv, BenchTypes, listVars, memVars
<1>1. Members' = Members
  BY <1>0, SameMemory
<1>2. (Added <=> ret[Main]) /\ ~NotStarted'
  BY <1>0 DEF Added, NotStarted
<1> QED
  BY <1>0, <1>1, <1>2 DEF SetInv, Filling, Emptying

LEMMA StartCreatingSet ==
    ASSUME ListInv, BenchInv, SetInv, StartCreating
    PROVE  SetInv'
<1>0. /\ stage[Main] = "fill" /\ stage'[Main] = "create" /\ i = range \div 2
      /\ UNCHANGED node
  BY ThreadsFinite DEF StartCreating, GotoStage, BenchInv, BenchTypes, listVars, memVars
<1>1. Members' = Members
  BY <1>0, SameMemory
<1>2. Filling'
  BY <1>0, <1>1 DEF SetInv, Filling
<1>3. Emptying'
  BY <1>0 DEF Emptying
<1> QED
  BY <1>2, <1>3 DEF SetInv

LEMMA CreateSet ==
    ASSUME ListInv, BenchInv, SetInv, Create
    PROVE  SetInv'
<1>0. /\ stage[Main] = "create" /\ UNCHANGED <<node, ops>>
      /\ stage \in [Threads -> Stages] /\ Main \in Threads /\ Main = 0
      /\ i \in 1 .. threads_nb
  BY ThreadsFinite DEF Create, BenchInv, BenchTypes, Index, listVars, memVars, Main
<1>1. /\ stage'[Main] \in {"create", "arrive"}
      /\ \A u \in Threads : stage'[u] # stage[u] => stage[u] \in {"new", "create"}
  <2>1. CASE i < threads_nb
    <3>1. i \in Threads /\ stage[i] = "new" /\ GotoStage(i, "arrive") /\ i # Main
      BY <1>0, <2>1, BenchAssumption DEF Create, BenchInv, Created
    <3> QED
      BY <1>0, <3>1 DEF GotoStage
  <2>2. CASE ~(i < threads_nb)
    BY <1>0, <2>2 DEF Create, GotoStage
  <2> QED
    BY <2>1, <2>2
<1>2. NotStarted' => NotStarted
  BY <1>0, <1>1 DEF NotStarted
<1>3. Members' = Members
  BY <1>0, SameMemory
<1> QED
  BY <1>0, <1>1, <1>2, <1>3 DEF SetInv, Filling, Emptying

\* The steps of a thread between two operations.
LEMMA WorkingSet ==
    ASSUME ListInv, BenchInv, SetInv, NEW t \in Threads,
           Arrive(t) \/ Cross(t) \/ Operate(t) \/ Count(t) \/ Complete(t) \/ Finish(t)
    PROVE  SetInv'
<1>0. /\ stage \in [Threads -> Stages] /\ ops \in [Threads -> Nat] /\ Main \in Threads
      /\ stage[t] \in Work
  BY ThreadsFinite
     DEF BenchInv, BenchTypes, Arrive, Cross, Operate, Count, Complete, Finish, Work
<1>1. PICK label \in Work \cup {"wait", "done"} :
         GotoStage(t, label) /\ (t = Main => label # "done")
  BY DEF Arrive, Cross, Operate, Count, Complete, Finish, Work
<1>2. /\ stage'[t] = label /\ \A u \in Threads \ {t} : stage'[u] = stage[u]
      /\ stage'[Main] = stage[Main] \/ stage'[Main] \notin Before \cup After
  BY <1>0, <1>1 DEF GotoStage, Work, Before, After
<1>3. UNCHANGED <<node, i>>
  BY DEF Arrive, Cross, Operate, Count, Complete, Finish, listVars, memVars, Call
<1>4. NotStarted' => NotStarted
  <2>1. CASE Arrive(t) \/ Cross(t)
    BY <1>2, <2>1 DEF Arrive, Cross, NotStarted
  <2>2. CASE Operate(t) \/ Complete(t) \/ Finish(t)
    BY <1>0, <1>2, <2>2 DEF Operate, Complete, Finish, NotStarted, GotoStage
  <2>3. CASE Count(t)
    <3>1. ops'[t] # 0
      BY <1>0, <2>3 DEF Count
    <3> QED
      BY <3>1 DEF NotStarted
  <2> QED
    BY <2>1, <2>2, <2>3
<1>5. stage'[Main] \in Before \cup After => UNCHANGED <<pc[Main], result[Main], ret[Main]>>
  <2>1. CASE t = Main
    BY <1>1, <1>2, <2>1 DEF Work, Before, After
  <2>2. CASE t # Main
    <3>1. CASE Operate(t)
      <4>1. PICK op, key : Call(t, op, key)
        BY <3>1 DEF Operate
      <4> QED
        BY <1>0, <2>2, <4>1, CallFrame
    <3>2. CASE Arrive(t) \/ Cross(t) \/ Count(t) \/ Complete(t) \/ Finish(t)
      BY <3>2 DEF Arrive, Cross, Count, Complete, Finish, listVars, walkVars
    <3> QED
      BY <3>1, <3>2
  <2> QED
    BY <2>1, <2>2
<1> QED
  BY <1>2, <1>3, <1>4, <1>5, SameSet DEF Before, After

LEMMA EmptySet ==
    ASSUME ListInv, BenchInv, SetInv, Empty
    PROVE  SetInv'
<1>0. /\ stage[Main] = "empty" /\ stage'[Main] = "emptying" /\ UNCHANGED i
      /\ UNCHANGED node /\ pc'[Main] = "lock" /\ Main \in Threads
  BY CallFrame, ThreadsFinite DEF Empty, GotoStage, BenchInv, BenchTypes
<1>1. Members' = Members
  BY <1>0, SameMemory
<1>2. ~NotStarted'
  BY <1>0 DEF NotStarted
<1> QED
  BY <1>0, <1>1, <1>2 DEF SetInv, Filling, Emptying

LEMMA EmptiedSet ==
    ASSUME ListInv, BenchInv, SetInv, Emptied
    PROVE  SetInv'
<1>0. /\ stage[Main] = "emptying" /\ stage'[Main] = "empty" /\ i' = i + 1 /\ i \in Nat
      /\ UNCHANGED node /\ pc[Main] = "idle" /\ Main \in Threads
  BY ThreadsFinite DEF Emptied, GotoStage, BenchInv, BenchTypes, listVars, memVars
<1>1. Members' = Members
  BY <1>0, SameMemory
<1>2. ~NotStarted'
  BY <1>0 DEF NotStarted
<1>3. \A key \in Members : key >= i /\ key # i /\ key \in Int
  BY <1>0, SetFinite, BenchAssumption DEF SetInv, Emptying
<1>4. \A key \in Members : key >= i + 1
  BY <1>0, <1>3
<1> QED
  BY <1>0, <1>1, <1>2, <1>4 DEF SetInv, Filling, Emptying

LEMMA FinishAgainSet ==
    ASSUME ListInv, BenchInv, SetInv, FinishAgain
    PROVE  SetInv'
<1>0. /\ stage[Main] = "empty" /\ stage'[Main] = "kfree" /\ i = range
      /\ UNCHANGED node /\ Main \in Threads
  BY ThreadsFinite DEF FinishAgain, GotoStage, BenchInv, BenchTypes, listVars, memVars
<1>1. Members' = Members
  BY <1>0, SameMemory
<1>2. ~NotStarted'
  BY <1>0 DEF NotStarted
<1>3. \A key \in Members : key >= range /\ key \in 0 .. range - 1
  BY <1>0, SetFinite, BenchAssumption DEF SetInv, Emptying
<1>4. Members = {}
  BY <1>3, BenchAssumption
<1> QED
  BY <1>0, <1>1, <1>2, <1>4 DEF SetInv, Filling, Emptying

LEMMA MainSet ==
    ASSUME ListInv, BenchInv, SetInv, WaitForCompletion \/ Sum \/ Kfree
    PROVE  SetInv'
<1>0. /\ stage \in [Threads -> Stages] /\ Main \in Threads
      /\ UNCHANGED <<node, pc, result, ret, ops>>
  BY ThreadsFinite
     DEF BenchInv, BenchTypes, WaitForCompletion, Sum, Kfree, listVars, memVars, walkVars
<1>1. Members' = Members
  BY <1>0, SameMemory
<1>2. CASE WaitForCompletion
  <2>1. stage[Main] = "wait" /\ stage'[Main] \in {"wait", "sum"}
    BY <1>0, <1>2 DEF WaitForCompletion, GotoStage
  <2> QED
    BY <1>0, <1>1, <2>1 DEF SetInv, Filling, Emptying, NotStarted
<1>3. CASE Sum
  <2>1. stage[Main] = "sum" /\ (stage'[Main] = "sum" \/ (stage'[Main] = "empty" /\ i' = 0))
    <3>1. CASE i < threads_nb
      BY <1>3, <3>1 DEF Sum
    <3>2. CASE ~(i < threads_nb)
      BY <1>0, <1>3, <3>2 DEF Sum, GotoStage
    <3> QED
      BY <3>1, <3>2
  <2>2. \A key \in Members : key >= 0
    BY SetFinite, BenchAssumption
  <2> QED
    BY <1>0, <1>1, <2>1, <2>2 DEF SetInv, Filling, Emptying, NotStarted
<1>4. CASE Kfree
  <2>1. stage[Main] = "kfree" /\ stage'[Main] \in {"kfree", "done"}
    BY <1>0, <1>4 DEF Kfree, GotoStage
  <2> QED
    BY <1>0, <1>1, <2>1 DEF SetInv, Filling, Emptying, NotStarted
<1> QED
  BY <1>2, <1>3, <1>4

-----------------------------------------------------------------------------
(* The invariant *)

LEMMA SyncInit == Init => SyncInv
<1> SUFFICES ASSUME Init PROVE SyncInv
  OBVIOUS
<1>0. /\ node = [m \in Nodes |-> IF m = p_max_node
                                 THEN [val |-> LIST_VAL_MAX, p_next |-> NULL]
                                 ELSE [val |-> LIST_VAL_MIN, p_next |-> p_max_node]]
      /\ stage = [t \in Threads |-> IF t = Main THEN "fill" ELSE "new"] /\ i = 0
  BY DEF Init, ListInit
<1>1. ListInv /\ BenchInv
  BY ListInitInv, BenchInit DEF Init
<1>2. Members = {}
  <2> DEFINE S == {p_min_node, p_max_node}
  <2>1. S \in SUBSET Nodes /\ \A m \in S : node[m].p_next \in S \cup {NULL}
    BY <1>0, ListAssumption
  <2>2. Chain(node) \subseteq S
    BY <2>1, ChainLeast
  <2> QED
    BY <2>2 DEF Members
<1>3. Cardinality(Members) = 0
  BY <1>2, FS_EmptySet
<1>4. SetInv
  BY <1>0, <1>2, <1>3, ThreadsFinite DEF SetInv, Filling, Emptying, NotStarted
<1> QED
  BY <1>1, <1>4 DEF SyncInv

\* Every step of the benchmark is one of the list, or leaves the list alone.
LEMMA ListOfStep ==
    ASSUME BenchInv, [Next]_vars
    PROVE  \/ \E t \in Threads : InCall(t) /\ UNCHANGED benchVars
           \/ Reclaim /\ UNCHANGED benchVars
           \/ UNCHANGED listVars
           \/ \E t \in Threads, op \in {"contains", "add", "remove"}, key \in Keys :
                 Call(t, op, key)
<1>1. ASSUME Loading
      PROVE  UNCHANGED listVars \/ \E key \in Keys : Call(Main, "remove", key)
  <2>1. CASE Empty
    <3>1. Call(Main, "remove", i) /\ i < range
      BY <2>1 DEF Empty
    <3>2. i \in Keys
      BY <3>1, BenchAssumption DEF BenchInv, BenchTypes
    <3> QED
      BY <3>1, <3>2
  <2> QED
    BY <1>1, <2>1 DEF Loading, Filled, StartCreating, Create, WaitForCompletion, Sum,
                      Emptied, FinishAgain, Kfree
<1> QED
  BY <1>1, ThreadsFinite
     DEF Next, Working, Draw, Operate, Arrive, Cross, Count, Complete, Finish, vars

LEMMA SyncNext == SyncInv /\ [Next]_vars => SyncInv'
<1> SUFFICES ASSUME SyncInv, [Next]_vars PROVE SyncInv'
  OBVIOUS
<1>0. ListInv /\ BenchInv /\ SetInv
  BY DEF SyncInv
<1>1. ListInv'
  BY <1>0, ListOfStep, ListNext, CallStep
<1>2. CASE Loading
  BY <1>0, <1>1, <1>2, FilledBench, StartCreatingBench, CreateBench, WaitBench, SumBench, EmptyBench,
     EmptiedBench, FinishAgainBench, KfreeBench, FilledSet, StartCreatingSet, CreateSet, EmptySet,
     EmptiedSet, FinishAgainSet, MainSet DEF Loading, SyncInv
<1>3. CASE \E key \in Keys : Draw(key)
  BY <1>0, <1>1, <1>3, DrawBench, DrawSet DEF SyncInv
<1>4. ASSUME NEW t \in Threads, Working(t)
      PROVE  SyncInv'
  <2>1. CASE InCall(t) /\ UNCHANGED benchVars
    BY <1>0, <1>1, <2>1, InCallBench, LinkSet, UnlinkSet, WalkSet DEF SyncInv
  <2>2. CASE Arrive(t) \/ Cross(t) \/ Operate(t) \/ Count(t) \/ Complete(t) \/ Finish(t)
    BY <1>0, <1>1, <2>2, ArriveBench, CrossBench, OperateBench, CountBench, CompleteBench,
       FinishBench, WorkingSet DEF SyncInv
  <2> QED
    BY <1>4, <2>1, <2>2 DEF Working
<1>5. ASSUME UNCHANGED <<node, call, pc, result, ret>>, UNCHANGED benchVars
      PROVE  SyncInv'
  <2>1. BenchInv'
    BY <1>0, <1>5, QuietBench
  <2>2. SetInv'
    BY <1>0, <1>5, SameSet DEF benchVars, NotStarted
  <2> QED
    BY <1>1, <2>1, <2>2 DEF SyncInv
<1>6. CASE Reclaim /\ UNCHANGED benchVars
  BY <1>5, <1>6 DEF Reclaim, walkVars
<1>7. CASE UNCHANGED vars
  BY <1>5, <1>7 DEF vars, listVars, memVars, walkVars
<1> QED
  BY <1>2, <1>3, <1>4, <1>6, <1>7 DEF Next

LEMMA SyncInvariant == Spec => []SyncInv
BY SyncInit, SyncNext, PTL DEF Spec

-----------------------------------------------------------------------------
(* The theorems *)

\* The variables of the benchmark and of the list have their types: no more than
\* threads_nb threads cross the barrier (barrier.c:14-26), and no more completions
\* are given than threads exist, so that no counter overtakes what it counts.
THEOREM TypeCorrect == Spec => []TypeOK
<1>1. SyncInv => TypeOK
  <2> SUFFICES ASSUME SyncInv PROVE TypeOK
    OBVIOUS
  <2>1. ListTypeOK /\ BenchTypes
    BY DEF SyncInv, ListInv, Types, BenchInv
  <2>2. i \in 0 .. threads_nb + range
    <3>1. stage[Main] \in Stages /\ i \in Nat
      BY <2>1, ThreadsFinite DEF BenchTypes
    <3>2. i <= threads_nb \/ i <= range \/ i <= range \div 2
      BY <3>1, BenchAssumption
         DEF SyncInv, BenchInv, Index, Created, Stages, Work, Before, After
    <3> QED
      BY <3>1, <3>2, Half, BenchAssumption
  <2>3. crossing \in 0 .. threads_nb
    BY CountThreads DEF SyncInv, BenchInv, Met, Arrived
  <2>4. completions \in 0 .. threads_nb
    <3>1. Cardinality(Completed) \in 0 .. threads_nb
      BY CountThreads DEF Completed
    <3> QED
      BY <2>1, <3>1, BenchAssumption DEF BenchTypes, SyncInv, BenchInv, Counted
  <2> QED
    BY <2>1, <2>2, <2>3, <2>4 DEF TypeOK, BenchTypes, Stages, Work, Before, After
<1> QED
  BY <1>1, SyncInvariant, PTL

\* No node is given back under a walk (rcu-hash-list.c:209-288): what a reader or
\* an update has in hand is not free, and no free block is in the list.
THEOREM WalksAreSafe == Spec => []NoUseAfterFree
<1>1. SyncInv => NoUseAfterFree
  BY InUse DEF SyncInv
<1> QED
  BY <1>1, SyncInvariant, PTL

\* The barrier (barrier.c:14-26) separates the filling of the set from the
\* measured work, which starts from a set with half of the keys.
THEOREM BarrierSeparates == Spec => []WorkTogether
<1>1. SyncInv => WorkTogether
  <2> SUFFICES ASSUME SyncInv, NEW t \in Threads, stage[t] \in {"loop", "operation"}
               PROVE  /\ \A u \in Threads : stage[u] \notin {"fill", "filling", "new", "arrive"}
                      /\ (\A u \in Threads : stage[u] \in {"barrier", "loop"} /\ ops[u] = 0) =>
                             Cardinality(Members) = range \div 2
    BY DEF WorkTogether
  <2>1. t \in Arrived
    BY DEF Arrived, Before
  <2>2. Arrived = Threads
    BY <2>1 DEF SyncInv, BenchInv, Met
  <2>3. \A u \in Threads : stage[u] \notin {"fill", "filling", "new", "arrive"}
    BY <2>2 DEF Arrived, Before
  <2> QED
    BY <2>3 DEF SyncInv, SetInv, Filling, NotStarted
<1> QED
  BY <1>1, SyncInvariant, PTL

\* What the main thread adds up (sync_test.c:241-246) is all that the threads
\* have counted: it takes one completion of each before it reads their counters.
THEOREM SumIsComplete == Spec => []StatisticsComplete
<1>1. SyncInv => StatisticsComplete
  <2> SUFFICES ASSUME SyncInv, stage[Main] \in {"empty", "emptying", "kfree", "done"}
               PROVE  \E sum \in [0 .. threads_nb -> 0 .. nb] :
                         /\ sum[0] = 0 /\ sum[threads_nb] = nb
                         /\ \A t \in Threads : sum[t + 1] = sum[t] + ops[t]
    BY DEF StatisticsComplete
  <2>1. PartialSum(threads_nb)
    BY DEF SyncInv, BenchInv, Summed, After
  <2>2. \A t \in Threads : t < threads_nb
    BY BenchAssumption
  <2> QED
    BY <2>1, <2>2 DEF PartialSum
<1> QED
  BY <1>1, SyncInvariant, PTL

\* When the main thread has deleted all possible keys (sync_test.c:251-254) the set
\* is empty, nobody is in a call, and every node of it was given to kfree_rcu.
THEOREM NothingIsLeft == Spec => []NothingLeft
<1>1. SyncInv => NothingLeft
  <2> SUFFICES ASSUME SyncInv, stage[Main] \in {"kfree", "done"}
               PROVE  /\ Members = {}
                      /\ \A t \in Threads : call[t] = NULL
                      /\ Nodes = free \cup {r.node : r \in retired} \cup {p_min_node, p_max_node}
    BY DEF NothingLeft
  <2>0. ListInv /\ BenchInv /\ stage[Main] \in After
    BY DEF SyncInv, After
  <2>1. Members = {}
    BY DEF SyncInv, SetInv, Emptying
  <2>2. \A t \in Threads : call[t] = NULL
    BY <2>0, SoleCaller
  <2>3. \A t \in Threads : ~Removed(t)
    BY <2>0, <2>2, IdleCall DEF Removed
  <2>4. Linked = {p_min_node, p_max_node}
    BY <2>0, <2>1 DEF ListInv, Sorted, Members, Linked
  <2>5. \A m \in Nodes : m \in free \cup Linked \/ \E r \in retired : r.node = m
    BY <2>0, <2>3 DEF ListInv, Placed
  <2>6. free \subseteq Nodes /\ {p_min_node, p_max_node} \subseteq Nodes
        /\ \A r \in retired : r.node \in Nodes
    BY <2>0, ListAssumption DEF ListInv, Types, ListTypeOK
  <2> QED
    BY <2>1, <2>2, <2>4, <2>5, <2>6
<1> QED
  BY <1>1, SyncInvariant, PTL

\* The list implements the linearizable set, step by step: an update takes effect
\* when it links or unlinks its node, and a lookup, which takes no lock, answers
\* what was true at some instant of its call, even where it walked on through
\* nodes that were unlinked meanwhile.
THEOREM Linearizable == Spec => ImplementsSet
<1>1. Init => Set!Init
  BY ListInitSim DEF Init
<1>2. SyncInv /\ [Next]_vars => [Set!Next]_(Set!vars)
  <2> SUFFICES ASSUME SyncInv, [Next]_vars PROVE [Set!Next]_(Set!vars)
    OBVIOUS
  <2> QED
    BY ListOfStep, ListSim, CallSim DEF SyncInv
<1> QED
  BY <1>1, <1>2, SyncInvariant, PTL DEF Spec, ImplementsSet, Set!Spec
=============================================================================
