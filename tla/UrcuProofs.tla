----------------------------- MODULE UrcuProofs -----------------------------
(***************************************************************************)
(* The theorems about Urcu: the types, the single owner of every block and *)
(* the grace period of urcu_synchronize, for any number of threads,        *)
(* buckets and blocks, any size of the buffer and any bound on the         *)
(* operations.                                                             *)
(***************************************************************************)
EXTENDS Urcu, SequenceTheorems, TLAPS

USE DEF urcuVars, listVars, syncVars, opVars

\* A thread that owns the writer lock of its bucket.
Writing(t) == pc[t] \in {"locked", "found", "unlock"}

Synchronising(t) == pc[t] \in {"read", "wait", "release"}

Retired(t) == {free_ptrs[t][m] : m \in DOMAIN free_ptrs[t]}

\* The lock of a bucket is held by the thread that changes its list.
Exclusion ==
    \A t \in Threads :
        Writing(t) => bucket[t] \in Buckets /\ urcu_spin[bucket[t]] = t

\* The victim is still linked when Unlink comes, for nobody else can remove it.
VictimInv ==
    \A t \in Threads :
        /\ pc[t] = "found" => victim[t] \in linked[bucket[t]]
        /\ pc[t] = "free" => victim[t] # NULL
        /\ pc[t] \notin {"found", "unlock", "free"} => victim[t] = NULL

BucketsApart == \A b, c \in Buckets : b # c => linked[b] \cap linked[c] = {}

\* Outside a synchronisation the buffer has room for one more pointer.
Room ==
    \A t \in Threads :
        ~Synchronising(t) => Len(free_ptrs[t]) < URCU_MAX_FREE_PTRS

\* The low bit of a counter tells who is in a section.
Parity == \A t \in Threads : Odd(time[t]) <=> pc[t] # "section"

OutsideHoldsNothing == \A t \in Threads : pc[t] # "section" => reach[t] = {}

\* The section of u has its hands on a node that w has in its buffer.
Holds(w, u) == Retired(w) \cap reach[u] # {}

\* The scan of w noted the section of u, and the wait has not come to it.
Grace ==
    \A w, u \in Threads : Holds(w, u) =>
        /\ (pc[w] = "read" /\ u < i[w]) => times[w][u] = time[u]
        /\ pc[w] = "wait" => i[w] <= u /\ times[w][u] = time[u]
        /\ pc[w] # "release"

LockInv == TypeOK /\ Room /\ Exclusion /\ VictimInv

PlaceInv == LockInv /\ BucketsApart /\ FreedOnce

GraceInv == PlaceInv /\ Parity /\ OutsideHoldsNothing /\ Grace /\ NoUseAfterFree

-----------------------------------------------------------------------------
(* Types and locks *)

LEMMA LockInit == Init => LockInv
<1> SUFFICES ASSUME Init PROVE LockInv
  OBVIOUS
<1>1. 0 \in Threads
  BY UrcuAssumption DEF Threads
<1>2. TypeOK
  <2>1. free_ptrs \in [Threads -> Seq(Nodes)] /\ \A t \in Threads : Len(free_ptrs[t]) = 0
    BY DEF Init
  <2> QED
    BY <1>1, <2>1, UrcuAssumption DEF Init, TypeOK, Labels
<1>3. Room
  BY UrcuAssumption DEF Init, Room, Synchronising
<1>4. Exclusion /\ VictimInv
  BY DEF Init, Exclusion, Writing, VictimInv
<1> QED
  BY <1>2, <1>3, <1>4 DEF LockInv

\* No two threads write in one bucket.
LEMMA OneWriter ==
    ASSUME Exclusion, NEW t \in Threads, NEW u \in Threads, Writing(t), Writing(u),
           bucket[t] = bucket[u]
    PROVE  t = u
BY DEF Exclusion

\* The index of a scan stays below the number of threads.
LEMMA NextIndex ==
    ASSUME TypeOK, NEW t \in Threads
    PROVE  (IF Last(t) THEN 0 ELSE i[t] + 1) \in Threads
<1>1. i[t] \in 0 .. threads - 1 /\ threads \in Nat \ {0}
  BY UrcuAssumption DEF TypeOK, Threads
<1>2. CASE Last(t)
  BY <1>1, <1>2 DEF Threads
<1>3. CASE ~Last(t)
  BY <1>1, <1>3 DEF Last, Threads
<1> QED
  BY <1>2, <1>3

LEMMA LockNext == LockInv /\ [Next]_vars => LockInv'
<1> SUFFICES ASSUME LockInv, [Next]_vars PROVE LockInv'
  OBVIOUS
<1> USE DEF LockInv
<1>0. /\ pc \in [Threads -> Labels] /\ victim \in [Threads -> Nodes \cup {NULL}]
      /\ bucket \in [Threads -> Buckets \cup {NULL}]
      /\ urcu_spin \in [Buckets -> Threads \cup {NULL}]
      /\ free_ptrs \in [Threads -> Seq(Nodes)]
      /\ linked \in [Buckets -> SUBSET Nodes]
      /\ i \in [Threads -> Threads]
  BY DEF TypeOK
<1>1. ASSUME NEW t \in Threads, ReaderLock(t) PROVE LockInv'
  <2>1. TypeOK'
    <3>1. AllLinked \in SUBSET Nodes
      BY <1>0 DEF AllLinked
    <3> QED
      BY <1>1, <1>0, <3>1 DEF TypeOK, ReaderLock, Goto, StartOp, Labels
  <2>2. Room' /\ Exclusion' /\ VictimInv'
    BY <1>1, <1>0, UrcuAssumption
       DEF Room, Exclusion, VictimInv, Writing, Synchronising, ReaderLock, Goto, StartOp
  <2> QED
    BY <2>1, <2>2
<1>2. ASSUME NEW t \in Threads, ReaderUnlock(t) PROVE LockInv'
  <2>1. TypeOK'
    BY <1>2, <1>0, UrcuAssumption DEF TypeOK, ReaderUnlock, Goto, StartOp, Labels
  <2>2. Room' /\ Exclusion' /\ VictimInv'
    BY <1>2, <1>0, UrcuAssumption
       DEF Room, Exclusion, VictimInv, Writing, Synchronising, ReaderUnlock, Goto, StartOp
  <2> QED
    BY <2>1, <2>2
<1>3. ASSUME NEW t \in Threads, NEW b \in Buckets, WriterLock(t, b) PROVE LockInv'
  <2>1. TypeOK'
    BY <1>3, <1>0, UrcuAssumption DEF TypeOK, WriterLock, Goto, StartOp, Labels
  <2>2. Room' /\ Exclusion' /\ VictimInv'
    <3>1. Room' /\ VictimInv'
      BY <1>3, <1>0 DEF Room, VictimInv, Synchronising, WriterLock, Goto, StartOp
    <3>2. \A u \in Threads : u # NULL
      BY UrcuAssumption DEF Threads
    <3>3. Exclusion'
      BY <1>3, <1>0, <3>2 DEF Exclusion, Writing, WriterLock, Goto, StartOp
    <3> QED
      BY <3>1, <3>3
  <2> QED
    BY <2>1, <2>2
<1>4. ASSUME NEW t \in Threads, NEW n \in Nodes, Insert(t, n) PROVE LockInv'
  <2>1. TypeOK'
    BY <1>4, <1>0, UrcuAssumption DEF TypeOK, Insert, Goto, StartOp, Labels
  <2>2. Room' /\ Exclusion' /\ VictimInv'
    BY <1>4, <1>0, UrcuAssumption
       DEF Room, Exclusion, VictimInv, Writing, Synchronising, Insert, Goto, StartOp
  <2> QED
    BY <2>1, <2>2
<1>5. ASSUME NEW t \in Threads, NEW n \in Nodes, Find(t, n) PROVE LockInv'
  <2>1. TypeOK'
    BY <1>5, <1>0, UrcuAssumption DEF TypeOK, Find, Goto, StartOp, Labels
  <2>2. Room' /\ Exclusion' /\ VictimInv'
    BY <1>5, <1>0, UrcuAssumption
       DEF Room, Exclusion, VictimInv, Writing, Synchronising, Find, Goto, StartOp
  <2> QED
    BY <2>1, <2>2
<1>6. ASSUME NEW t \in Threads, Unlink(t) PROVE LockInv'
  <2>1. TypeOK'
    BY <1>6, <1>0, UrcuAssumption DEF TypeOK, Unlink, Goto, StartOp, Labels
  <2>2. Room' /\ Exclusion' /\ VictimInv'
    BY <1>6, <1>0, UrcuAssumption
       DEF Room, Exclusion, VictimInv, Writing, Synchronising, Unlink, Goto, StartOp
  <2> QED
    BY <2>1, <2>2
<1>7. ASSUME NEW t \in Threads, NoChange(t) PROVE LockInv'
  <2>1. TypeOK'
    BY <1>7, <1>0, UrcuAssumption DEF TypeOK, NoChange, Goto, StartOp, Labels
  <2>2. Room' /\ Exclusion' /\ VictimInv'
    BY <1>7, <1>0, UrcuAssumption
       DEF Room, Exclusion, VictimInv, Writing, Synchronising, NoChange, Goto, StartOp
  <2> QED
    BY <2>1, <2>2
<1>8. ASSUME NEW t \in Threads, WriterUnlock(t) PROVE LockInv'
  <2>1. TypeOK'
    BY <1>8, <1>0, UrcuAssumption DEF TypeOK, WriterUnlock, Goto, StartOp, Labels
  <2>2. Room' /\ Exclusion' /\ VictimInv'
    BY <1>8, <1>0, UrcuAssumption
       DEF Room, Exclusion, VictimInv, Writing, Synchronising, WriterUnlock, Goto, StartOp
  <2> QED
    BY <2>1, <2>2
<1>9. ASSUME NEW t \in Threads, Free(t) PROVE LockInv'
  <2>1. TypeOK'
    <3>1. victim[t] \in Nodes /\ Len(free_ptrs[t]) < URCU_MAX_FREE_PTRS
      BY <1>9, <1>0 DEF Free, VictimInv, Room, Synchronising
    <3>2. /\ free_ptrs' \in [Threads -> Seq(Nodes)]
          /\ \A u \in Threads : Len(free_ptrs'[u]) <= URCU_MAX_FREE_PTRS
      BY <1>9, <1>0, <3>1, UrcuAssumption DEF Free, TypeOK
    <3>3. i' \in [Threads -> Threads]
      BY <1>9, <1>0, UrcuAssumption DEF Free, Threads
    <3> QED
      BY <1>9, <1>0, <3>2, <3>3 DEF TypeOK, Free, Goto, Labels
  <2>2. Room' /\ Exclusion' /\ VictimInv'
    BY <1>9, <1>0, UrcuAssumption
       DEF Room, Exclusion, VictimInv, Writing, Synchronising, Free, Goto, StartOp
  <2> QED
    BY <2>1, <2>2
<1>10. ASSUME NEW t \in Threads, ReadTime(t) PROVE LockInv'
  <2>1. TypeOK'
    <3>1. i' \in [Threads -> Threads]
      BY <1>10, <1>0, NextIndex DEF ReadTime
    <3>2. times' \in [Threads -> [Threads -> Nat]]
      BY <1>10, <1>0 DEF ReadTime, TypeOK
    <3> QED
      BY <1>10, <1>0, <3>1, <3>2 DEF TypeOK, ReadTime, Goto, Labels
  <2>2. Room' /\ Exclusion' /\ VictimInv'
    BY <1>10, <1>0, UrcuAssumption
       DEF Room, Exclusion, VictimInv, Writing, Synchronising, ReadTime, Goto, StartOp
  <2> QED
    BY <2>1, <2>2
<1>11. ASSUME NEW t \in Threads, Wait(t) PROVE LockInv'
  <2>1. TypeOK'
    <3>1. i' \in [Threads -> Threads]
      BY <1>11, <1>0, NextIndex DEF Wait
    <3> QED
      BY <1>11, <1>0, <3>1 DEF TypeOK, Wait, Goto, Labels
  <2>2. Room' /\ Exclusion' /\ VictimInv'
    BY <1>11, <1>0, UrcuAssumption
       DEF Room, Exclusion, VictimInv, Writing, Synchronising, Wait, Goto, StartOp
  <2> QED
    BY <2>1, <2>2
<1>12. ASSUME NEW t \in Threads, Release(t) PROVE LockInv'
  <2>1. CASE free_ptrs[t] = <<>>
    <3>1. Len(free_ptrs[t]) = 0
      BY <2>1
    <3>2. TypeOK'
      BY <1>12, <2>1, <1>0 DEF TypeOK, Release, Goto, Labels
    <3>3. Room'
      <4>1. free_ptrs' = free_ptrs /\ pc' = [pc EXCEPT ![t] = "idle"]
        BY <1>12, <2>1 DEF Release, Goto
      <4> QED
        BY <4>1, <3>1, <1>0, UrcuAssumption DEF Room, Synchronising
    <3>4. Exclusion' /\ VictimInv'
      BY <1>12, <2>1, <1>0, UrcuAssumption DEF Exclusion, VictimInv, Writing, Release, Goto
    <3> QED
      BY <3>2, <3>3, <3>4
  <2>2. CASE free_ptrs[t] # <<>>
    <3>1. /\ free_ptrs[t][1] \in Nodes
          /\ Tail(free_ptrs[t]) \in Seq(Nodes)
          /\ Len(Tail(free_ptrs[t])) = Len(free_ptrs[t]) - 1
      BY <1>0, <2>2
    <3>2. /\ free_ptrs' \in [Threads -> Seq(Nodes)]
          /\ \A u \in Threads : Len(free_ptrs'[u]) <= Len(free_ptrs[u])
      <4>1. free_ptrs' = [free_ptrs EXCEPT ![t] = Tail(@)]
        BY <1>12, <2>2 DEF Release
      <4>2. \A u \in Threads : Len(free_ptrs[u]) \in Nat
        BY <1>0
      <4> QED
        BY <4>1, <4>2, <1>0, <3>1
    <3>3. TypeOK'
      BY <1>12, <1>0, <2>2, <3>1, <3>2, UrcuAssumption DEF TypeOK, Release
    <3>4. Room' /\ Exclusion' /\ VictimInv'
      BY <1>12, <1>0, <2>2, <3>2 DEF Room, Exclusion, VictimInv, Writing, Synchronising, Release
    <3> QED
      BY <3>3, <3>4
  <2> QED
    BY <2>1, <2>2
<1>13. CASE UNCHANGED vars
  BY <1>13 DEF vars, TypeOK, Room, Exclusion, VictimInv, Writing, Synchronising
<1> QED
  BY <1>1, <1>2, <1>3, <1>4, <1>5, <1>6, <1>7, <1>8, <1>9, <1>10, <1>11, <1>12, <1>13
     DEF Next, Running, Terminated

-----------------------------------------------------------------------------
(* A block is in one place *)

LEMMA LinkedSomewhere ==
    ASSUME NEW n
    PROVE  /\ n \in AllLinked <=> \E b \in Buckets : n \in linked[b]
           /\ (n \in AllLinked)' <=> \E b \in Buckets : n \in linked'[b]
BY DEF AllLinked

LEMMA PlaceInit == Init => PlaceInv
<1> SUFFICES ASSUME Init PROVE PlaceInv
  OBVIOUS
<1>1. BucketsApart
  BY DEF Init, BucketsApart
<1>2. \A t \in Threads : DOMAIN free_ptrs[t] = {} /\ ~Unlinked(t)
  BY DEF Init, Unlinked
<1>3. FreedOnce
  BY <1>2 DEF Init, FreedOnce
<1> QED
  BY <1>1, <1>3, LockInit DEF PlaceInv

\* A step that moves no block leaves the owners alone.
LEMMA PlaceQuiet ==
    ASSUME PlaceInv, UNCHANGED <<free_ptrs, linked, free>>,
           \A u \in Threads : Unlinked(u)' => Unlinked(u) /\ victim'[u] = victim[u]
    PROVE  BucketsApart' /\ FreedOnce'
<1>1. BucketsApart'
  BY DEF PlaceInv, BucketsApart
<1>2. AllLinked' = AllLinked
  BY DEF AllLinked
<1>3. FreedOnce'
  <2> SUFFICES ASSUME NEW t \in Threads, NEW u \in Threads
               PROVE  /\ \A m \in DOMAIN free_ptrs[t] :
                            /\ free_ptrs[t][m] \notin free \cup AllLinked
                            /\ \A n \in DOMAIN free_ptrs[u] :
                                  free_ptrs[t][m] = free_ptrs[u][n] => t = u /\ m = n
                            /\ Unlinked(u)' => victim'[u] # free_ptrs[t][m]
                      /\ Unlinked(t)' => /\ victim'[t] \notin free \cup AllLinked
                                         /\ Unlinked(u)' /\ u # t => victim'[u] # victim'[t]
    BY <1>2 DEF PlaceInv, FreedOnce
  <2> QED
    BY DEF PlaceInv, FreedOnce
<1> QED
  BY <1>1, <1>3

LEMMA PlaceInsert ==
    ASSUME PlaceInv, NEW t \in Threads, NEW n \in Nodes, Insert(t, n)
    PROVE  BucketsApart' /\ FreedOnce'
<1>0. /\ pc \in [Threads -> Labels] /\ linked \in [Buckets -> SUBSET Nodes]
      /\ bucket[t] \in Buckets /\ victim[t] = NULL
      /\ n \in free /\ free' = free \ {n}
      /\ linked' = [linked EXCEPT ![bucket[t]] = @ \cup {n}]
      /\ pc' = [pc EXCEPT ![t] = "unlock"]
      /\ UNCHANGED <<free_ptrs, victim>>
  BY DEF PlaceInv, LockInv, TypeOK, Exclusion, VictimInv, Writing, Insert, Goto
<1>1. n \notin AllLinked /\ \A b \in Buckets : n \notin linked[b]
  BY <1>0, LinkedSomewhere DEF PlaceInv, FreedOnce
<1>2. \A m : (m \in AllLinked)' => m \in AllLinked \/ m = n
  BY <1>0, LinkedSomewhere
<1>3. \A u \in Threads : Unlinked(u)' => Unlinked(u) /\ u # t
  BY <1>0 DEF Unlinked
<1>4. BucketsApart'
  BY <1>0, <1>1 DEF PlaceInv, BucketsApart
<1>5. FreedOnce'
  BY <1>0, <1>2, <1>3 DEF PlaceInv, FreedOnce
<1> QED
  BY <1>4, <1>5

LEMMA PlaceUnlink ==
    ASSUME PlaceInv, NEW t \in Threads, Unlink(t)
    PROVE  BucketsApart' /\ FreedOnce'
<1>0. /\ pc \in [Threads -> Labels] /\ linked \in [Buckets -> SUBSET Nodes]
      /\ bucket[t] \in Buckets /\ victim[t] \in linked[bucket[t]]
      /\ linked' = [linked EXCEPT ![bucket[t]] = @ \ {victim[t]}]
      /\ pc' = [pc EXCEPT ![t] = "unlock"]
      /\ UNCHANGED <<free_ptrs, free, victim>>
  BY DEF PlaceInv, LockInv, TypeOK, Exclusion, VictimInv, Writing, Unlink, Goto
<1>1. victim[t] \in AllLinked
  BY <1>0, LinkedSomewhere
<1>2. \A m : (m \in AllLinked)' => m \in AllLinked /\ m # victim[t]
  BY <1>0, LinkedSomewhere DEF PlaceInv, BucketsApart
<1>3. \A u \in Threads : Unlinked(u)' => Unlinked(u) \/ u = t
  BY <1>0 DEF Unlinked
<1>4. BucketsApart'
  BY <1>0 DEF PlaceInv, BucketsApart
<1>5. FreedOnce'
  BY <1>0, <1>1, <1>2, <1>3 DEF PlaceInv, FreedOnce
<1> QED
  BY <1>4, <1>5

LEMMA PlaceFree ==
    ASSUME PlaceInv, NEW t \in Threads, Free(t)
    PROVE  BucketsApart' /\ FreedOnce'
<1>0. /\ pc \in [Threads -> Labels] /\ free_ptrs \in [Threads -> Seq(Nodes)]
      /\ victim \in [Threads -> Nodes \cup {NULL}] /\ victim[t] \in Nodes
      /\ pc[t] = "free" /\ pc' = [pc EXCEPT ![t] = pc'[t]] /\ pc'[t] \in {"read", "idle"}
      /\ free_ptrs' = [free_ptrs EXCEPT ![t] = Append(@, victim[t])]
      /\ victim' = [victim EXCEPT ![t] = NULL]
      /\ UNCHANGED <<linked, free>>
  BY DEF PlaceInv, LockInv, TypeOK, VictimInv, Free, Goto
<1>1. Unlinked(t)
  BY <1>0, UrcuAssumption DEF Unlinked
<1>2. \A u \in Threads : Unlinked(u)' => Unlinked(u) /\ u # t /\ victim'[u] = victim[u]
  BY <1>0 DEF Unlinked
<1>3. AllLinked' = AllLinked
  BY <1>0 DEF AllLinked
<1>4. \A u \in Threads \ {t} : free_ptrs'[u] = free_ptrs[u]
  BY <1>0
<1>5. \A m \in DOMAIN free_ptrs'[t] :
         \/ m \in DOMAIN free_ptrs[t] /\ free_ptrs'[t][m] = free_ptrs[t][m]
         \/ m = Len(free_ptrs[t]) + 1 /\ free_ptrs'[t][m] = victim[t]
  BY <1>0
<1>6. BucketsApart'
  BY <1>0 DEF PlaceInv, BucketsApart
<1>7. FreedOnce'
  BY <1>0, <1>1, <1>2, <1>3, <1>4, <1>5 DEF PlaceInv, FreedOnce
<1> QED
  BY <1>6, <1>7

LEMMA PlaceRelease ==
    ASSUME PlaceInv, NEW t \in Threads, Release(t), free_ptrs[t] # <<>>
    PROVE  BucketsApart' /\ FreedOnce'
<1>0. /\ pc' = pc /\ free_ptrs \in [Threads -> Seq(Nodes)]
      /\ free_ptrs' = [free_ptrs EXCEPT ![t] = Tail(@)]
      /\ free' = free \cup {free_ptrs[t][1]}
      /\ UNCHANGED <<linked, victim>>
  BY DEF PlaceInv, LockInv, TypeOK, Release
<1>1. \A u \in Threads : /\ Unlinked(u)' <=> Unlinked(u)
                         /\ u # t => free_ptrs'[u] = free_ptrs[u]
  BY <1>0 DEF Unlinked
<1>2. AllLinked' = AllLinked
  BY <1>0 DEF AllLinked
<1>3. 1 \in DOMAIN free_ptrs[t]
  BY <1>0
<1>4. \A m \in DOMAIN free_ptrs'[t] :
         /\ m \in Int /\ m + 1 \in DOMAIN free_ptrs[t] /\ m + 1 # 1
         /\ free_ptrs'[t][m] = free_ptrs[t][m + 1]
  BY <1>0
<1>5. BucketsApart'
  BY <1>0 DEF PlaceInv, BucketsApart
<1>6. FreedOnce'
  BY <1>0, <1>1, <1>2, <1>3, <1>4 DEF PlaceInv, FreedOnce
<1> QED
  BY <1>5, <1>6

LEMMA PlaceNext == PlaceInv /\ [Next]_vars => PlaceInv'
<1> SUFFICES ASSUME PlaceInv, [Next]_vars PROVE BucketsApart' /\ FreedOnce'
  BY LockNext DEF PlaceInv
<1>0. /\ pc \in [Threads -> Labels] /\ victim \in [Threads -> Nodes \cup {NULL}]
      /\ \A t \in Threads : pc[t] = "locked" => victim[t] = NULL
  BY DEF PlaceInv, LockInv, TypeOK, VictimInv
<1>1. ASSUME NEW t \in Threads,
             ReaderLock(t) \/ ReaderUnlock(t) \/ NoChange(t) \/ WriterUnlock(t)
                \/ ReadTime(t) \/ Wait(t)
      PROVE  BucketsApart' /\ FreedOnce'
  BY <1>0, <1>1, PlaceQuiet
     DEF ReaderLock, ReaderUnlock, NoChange, WriterUnlock, ReadTime, Wait, StartOp, Goto, Unlinked
<1>2. ASSUME NEW t \in Threads, NEW b \in Buckets, WriterLock(t, b)
      PROVE  BucketsApart' /\ FreedOnce'
  BY <1>0, <1>2, PlaceQuiet DEF WriterLock, StartOp, Goto, Unlinked
<1>3. ASSUME NEW t \in Threads, NEW n \in Nodes, Find(t, n)
      PROVE  BucketsApart' /\ FreedOnce'
  BY <1>0, <1>3, PlaceQuiet DEF Find, Goto, Unlinked
<1>4. ASSUME NEW t \in Threads, Release(t), free_ptrs[t] = <<>>
      PROVE  BucketsApart' /\ FreedOnce'
  BY <1>0, <1>4, PlaceQuiet DEF Release, Goto, Unlinked
<1>5. CASE UNCHANGED vars
  BY <1>5, PlaceQuiet DEF vars, Unlinked
<1> QED
  BY <1>1, <1>2, <1>3, <1>4, <1>5, PlaceInsert, PlaceUnlink, PlaceFree, PlaceRelease
     DEF Next, Running, Terminated

-----------------------------------------------------------------------------
(* The grace period *)

LEMMA GraceInit == Init => GraceInv
<1> SUFFICES ASSUME Init PROVE GraceInv
  OBVIOUS
<1>1. \A t \in Threads : Odd(time[t]) /\ pc[t] = "idle" /\ reach[t] = {} /\ Retired(t) = {}
  BY DEF Init, Odd, Retired
<1>2. Parity /\ OutsideHoldsNothing /\ NoUseAfterFree
  BY <1>1 DEF Parity, OutsideHoldsNothing, NoUseAfterFree
<1>3. Grace
  BY <1>1 DEF Grace, Holds
<1> QED
  BY <1>2, <1>3, PlaceInit DEF GraceInv

\* The part of GraceInv about the counters and the sections.
GraceParts == Parity /\ OutsideHoldsNothing /\ Grace /\ NoUseAfterFree

\* A step that starts no section, ends none, links no block, frees none and is
\* not one of the synchronisation.
LEMMA GraceQuiet ==
    ASSUME GraceInv, UNCHANGED <<time, free, free_ptrs, times, i, reach>>,
           \A u \in Threads : /\ pc'[u] = "section" <=> pc[u] = "section"
                              /\ pc'[u] \in {"read", "wait", "release"} => pc'[u] = pc[u]
    PROVE  GraceParts'
<1>1. \A w, u \in Threads : Holds(w, u)' <=> Holds(w, u)
  BY DEF Holds, Retired
<1>2. Grace'
  BY <1>1 DEF GraceInv, Grace
<1>3. Parity' /\ OutsideHoldsNothing' /\ NoUseAfterFree'
  BY DEF GraceInv, Parity, OutsideHoldsNothing, NoUseAfterFree, Odd
<1> QED
  BY <1>2, <1>3 DEF GraceParts

\* A section that starts finds no retired block in the list, and no free one.
LEMMA GraceReaderLock ==
    ASSUME GraceInv, NEW t \in Threads, ReaderLock(t)
    PROVE  GraceParts'
<1>0. /\ pc \in [Threads -> Labels] /\ time \in [Threads -> Nat]
      /\ reach \in [Threads -> SUBSET Nodes]
      /\ pc[t] = "idle" /\ pc' = [pc EXCEPT ![t] = "section"]
      /\ time' = [time EXCEPT ![t] = @ + 1]
      /\ reach' = [reach EXCEPT ![t] = AllLinked]
      /\ UNCHANGED <<free_ptrs, linked, free, times, i>>
  BY DEF GraceInv, PlaceInv, LockInv, TypeOK, ReaderLock, StartOp, Goto
<1>1. \A w \in Threads : Retired(w) \cap AllLinked = {}
  BY DEF GraceInv, PlaceInv, FreedOnce, Retired
<1>2. \A w, u \in Threads : Holds(w, u)' => u # t /\ Holds(w, u)
  BY <1>0, <1>1 DEF Holds, Retired
<1>3. Grace'
  BY <1>0, <1>2 DEF GraceInv, Grace
<1>4. Parity'
  BY <1>0 DEF GraceInv, Parity, Odd
<1>5. OutsideHoldsNothing' /\ NoUseAfterFree'
  BY <1>0 DEF GraceInv, PlaceInv, FreedOnce, OutsideHoldsNothing, NoUseAfterFree
<1> QED
  BY <1>3, <1>4, <1>5 DEF GraceParts

LEMMA GraceReaderUnlock ==
    ASSUME GraceInv, NEW t \in Threads, ReaderUnlock(t)
    PROVE  GraceParts'
<1>0. /\ pc \in [Threads -> Labels] /\ time \in [Threads -> Nat]
      /\ reach \in [Threads -> SUBSET Nodes]
      /\ pc[t] = "section" /\ pc' = [pc EXCEPT ![t] = "idle"]
      /\ time' = [time EXCEPT ![t] = IF Odd(@) THEN @ ELSE @ + 1]
      /\ reach' = [reach EXCEPT ![t] = {}]
      /\ UNCHANGED <<free_ptrs, linked, free, times, i>>
  BY DEF GraceInv, PlaceInv, LockInv, TypeOK, ReaderUnlock, Goto
<1>2. \A w, u \in Threads : Holds(w, u)' => u # t /\ Holds(w, u)
  BY <1>0 DEF Holds, Retired
<1>3. Grace'
  BY <1>0, <1>2 DEF GraceInv, Grace
<1>4. Parity'
  BY <1>0 DEF GraceInv, Parity, Odd
<1>5. OutsideHoldsNothing' /\ NoUseAfterFree'
  BY <1>0 DEF GraceInv, OutsideHoldsNothing, NoUseAfterFree
<1> QED
  BY <1>3, <1>4, <1>5 DEF GraceParts

\* A block from malloc is in no buffer.
LEMMA GraceInsert ==
    ASSUME GraceInv, NEW t \in Threads, NEW n \in Nodes, Insert(t, n)
    PROVE  GraceParts'
<1>0. /\ pc \in [Threads -> Labels] /\ reach \in [Threads -> SUBSET Nodes]
      /\ pc[t] = "locked" /\ pc' = [pc EXCEPT ![t] = "unlock"]
      /\ n \in free /\ free' = free \ {n}
      /\ reach' = [u \in Threads |->
                      IF pc[u] = "section" THEN reach[u] \cup {n} ELSE reach[u]]
      /\ UNCHANGED <<time, free_ptrs, times, i>>
  BY DEF GraceInv, PlaceInv, LockInv, TypeOK, Insert, Goto
<1>1. \A w \in Threads : n \notin Retired(w)
  BY <1>0 DEF GraceInv, PlaceInv, FreedOnce, Retired
<1>2. \A w, u \in Threads : Holds(w, u)' => Holds(w, u)
  BY <1>0, <1>1 DEF Holds, Retired
<1>3. Grace'
  BY <1>0, <1>2 DEF GraceInv, Grace
<1>4. Parity'
  BY <1>0 DEF GraceInv, Parity, Odd
<1>5. OutsideHoldsNothing' /\ NoUseAfterFree'
  BY <1>0 DEF GraceInv, OutsideHoldsNothing, NoUseAfterFree
<1> QED
  BY <1>3, <1>4, <1>5 DEF GraceParts

\* The scan starts: it has noted no section yet.
LEMMA GraceFree ==
    ASSUME GraceInv, NEW t \in Threads, Free(t)
    PROVE  GraceParts'
<1>0. /\ pc \in [Threads -> Labels] /\ i \in [Threads -> Threads]
      /\ pc[t] = "free" /\ pc' = [pc EXCEPT ![t] = pc'[t]] /\ pc'[t] \in {"read", "idle"}
      /\ i' = [i EXCEPT ![t] = 0]
      /\ \A w \in Threads \ {t} : free_ptrs'[w] = free_ptrs[w]
      /\ UNCHANGED <<time, free, times, reach>>
  BY DEF GraceInv, PlaceInv, LockInv, TypeOK, Free, Goto
<1>1. \A u \in Threads : ~(u < i'[t])
  BY <1>0 DEF Threads
<1>2. \A w, u \in Threads : w # t => (Holds(w, u)' <=> Holds(w, u))
  BY <1>0 DEF Holds, Retired
<1>3. Grace'
  BY <1>0, <1>1, <1>2 DEF GraceInv, Grace
<1>4. Parity' /\ OutsideHoldsNothing' /\ NoUseAfterFree'
  BY <1>0 DEF GraceInv, Parity, Odd, OutsideHoldsNothing, NoUseAfterFree
<1> QED
  BY <1>3, <1>4 DEF GraceParts

\* The scan notes the section of the thread that it reads.
LEMMA GraceReadTime ==
    ASSUME GraceInv, NEW t \in Threads, ReadTime(t)
    PROVE  GraceParts'
<1>0. /\ pc \in [Threads -> Labels] /\ i \in [Threads -> Threads]
      /\ times \in [Threads -> [Threads -> Nat]] /\ pc[t] = "read"
      /\ pc' = [pc EXCEPT ![t] = IF Last(t) THEN "wait" ELSE "read"]
      /\ times' = [times EXCEPT ![t][i[t]] = time[i[t]]]
      /\ i' = [i EXCEPT ![t] = IF Last(t) THEN 0 ELSE @ + 1]
      /\ UNCHANGED <<time, free_ptrs, free, reach>>
  BY DEF GraceInv, PlaceInv, LockInv, TypeOK, ReadTime, Goto
<1>1. \A w, u \in Threads : Holds(w, u)' <=> Holds(w, u)
  BY <1>0 DEF Holds, Retired
<1>2. \A u \in Threads : times'[t][u] = IF u = i[t] THEN time[u] ELSE times[t][u]
  BY <1>0
<1>3. \A w \in Threads \ {t} : times'[w] = times[w] /\ i'[w] = i[w] /\ pc'[w] = pc[w]
  BY <1>0
<1>4. \A u \in Threads : Holds(t, u) =>
         /\ (pc'[t] = "read" /\ u < i'[t]) => times'[t][u] = time[u]
         /\ pc'[t] = "wait" => i'[t] <= u /\ times'[t][u] = time[u]
         /\ pc'[t] # "release"
  <2> SUFFICES ASSUME NEW u \in Threads, Holds(t, u)
               PROVE  /\ (pc'[t] = "read" /\ u < i'[t]) => times'[t][u] = time[u]
                      /\ pc'[t] = "wait" => i'[t] <= u /\ times'[t][u] = time[u]
                      /\ pc'[t] # "release"
    OBVIOUS
  <2>1. u < i[t] => times[t][u] = time[u]
    BY <1>0 DEF GraceInv, Grace
  <2>2. u \in 0 .. threads - 1 /\ i[t] \in 0 .. threads - 1
    BY <1>0 DEF Threads
  <2>3. CASE Last(t)
    BY <1>0, <1>2, <2>1, <2>2, <2>3, UrcuAssumption DEF Last
  <2>4. CASE ~Last(t)
    <3>1. pc'[t] = "read" /\ i'[t] = i[t] + 1
      BY <1>0, <2>4
    <3>2. u < i'[t] => u = i[t] \/ u < i[t]
      BY <2>2, <3>1, UrcuAssumption
    <3> QED
      BY <1>2, <2>1, <3>1, <3>2
  <2> QED
    BY <2>3, <2>4
<1>5. Grace'
  BY <1>0, <1>1, <1>3, <1>4 DEF GraceInv, Grace
<1>6. Parity' /\ OutsideHoldsNothing' /\ NoUseAfterFree'
  BY <1>0 DEF GraceInv, Parity, Odd, OutsideHoldsNothing, NoUseAfterFree
<1> QED
  BY <1>5, <1>6 DEF GraceParts

\* A thread that is passed has its hands on nothing that was retired.
LEMMA GraceWait ==
    ASSUME GraceInv, NEW t \in Threads, Wait(t)
    PROVE  GraceParts'
<1>0. /\ pc \in [Threads -> Labels] /\ i \in [Threads -> Threads]
      /\ time \in [Threads -> Nat]
      /\ times \in [Threads -> [Threads -> Nat]] /\ pc[t] = "wait"
      /\ pc' = [pc EXCEPT ![t] = IF Last(t) THEN "release" ELSE "wait"]
      /\ i' = [i EXCEPT ![t] = IF Last(t) THEN 0 ELSE @ + 1]
      /\ UNCHANGED <<time, times, free_ptrs, free, reach>>
  BY DEF GraceInv, PlaceInv, LockInv, TypeOK, Wait, Goto
<1>1. \A w, u \in Threads : Holds(w, u)' <=> Holds(w, u)
  BY <1>0 DEF Holds, Retired
<1>2. ~Holds(t, i[t])
  <2>1. SUFFICES ASSUME Holds(t, i[t]) PROVE FALSE
    OBVIOUS
  <2>2. times[t][i[t]] = time[i[t]]
    BY <1>0, <2>1 DEF GraceInv, Grace
  <2>3. pc[i[t]] = "section"
    BY <1>0, <2>1 DEF GraceInv, OutsideHoldsNothing, Holds
  <2>4. ~Odd(time[i[t]])
    BY <1>0, <2>3 DEF GraceInv, Parity
  <2> QED
    BY <1>0, <2>2, <2>4 DEF Wait, Passed, Odd
<1>3. \A w \in Threads \ {t} : i'[w] = i[w] /\ pc'[w] = pc[w]
  BY <1>0
<1>4. \A u \in Threads : Holds(t, u) =>
         /\ pc'[t] = "wait" => i'[t] <= u /\ times[t][u] = time[u]
         /\ pc'[t] \notin {"read", "release"}
  <2> SUFFICES ASSUME NEW u \in Threads, Holds(t, u)
               PROVE  /\ pc'[t] = "wait" => i'[t] <= u /\ times[t][u] = time[u]
                      /\ pc'[t] \notin {"read", "release"}
    OBVIOUS
  <2>1. i[t] <= u /\ times[t][u] = time[u] /\ u # i[t]
    BY <1>0, <1>2 DEF GraceInv, Grace
  <2>2. u \in 0 .. threads - 1 /\ i[t] \in 0 .. threads - 1
    BY <1>0 DEF Threads
  <2>3. ~Last(t)
    BY <2>1, <2>2, UrcuAssumption DEF Last
  <2> QED
    BY <1>0, <2>1, <2>2, <2>3
<1>5. Grace'
  BY <1>0, <1>1, <1>3, <1>4 DEF GraceInv, Grace
<1>6. Parity' /\ OutsideHoldsNothing' /\ NoUseAfterFree'
  BY <1>0 DEF GraceInv, Parity, Odd, OutsideHoldsNothing, NoUseAfterFree
<1> QED
  BY <1>5, <1>6 DEF GraceParts

\* What is freed is in the hands of no section.
LEMMA GraceRelease ==
    ASSUME GraceInv, NEW t \in Threads, Release(t), free_ptrs[t] # <<>>
    PROVE  GraceParts'
<1>0. /\ pc \in [Threads -> Labels] /\ free_ptrs \in [Threads -> Seq(Nodes)]
      /\ pc[t] = "release" /\ pc' = pc
      /\ free_ptrs' = [free_ptrs EXCEPT ![t] = Tail(@)]
      /\ free' = free \cup {free_ptrs[t][1]}
      /\ UNCHANGED <<time, times, i, reach>>
  BY DEF GraceInv, PlaceInv, LockInv, TypeOK, Release
<1>1. 1 \in DOMAIN free_ptrs[t] /\ free_ptrs[t][1] \in Retired(t)
  BY <1>0 DEF Retired
<1>2. \A m \in DOMAIN free_ptrs'[t] :
         m + 1 \in DOMAIN free_ptrs[t] /\ free_ptrs'[t][m] = free_ptrs[t][m + 1]
  BY <1>0
<1>3. \A w \in Threads : Retired(w)' \subseteq Retired(w)
  BY <1>0, <1>2 DEF Retired
<1>4. \A w, u \in Threads : Holds(w, u)' => Holds(w, u)
  BY <1>0, <1>3 DEF Holds
<1>5. \A u \in Threads : ~Holds(t, u)
  BY <1>0 DEF GraceInv, Grace
<1>6. Grace'
  BY <1>0, <1>4 DEF GraceInv, Grace
<1>7. NoUseAfterFree'
  BY <1>0, <1>1, <1>5 DEF GraceInv, NoUseAfterFree, Holds
<1>8. Parity' /\ OutsideHoldsNothing'
  BY <1>0 DEF GraceInv, Parity, Odd, OutsideHoldsNothing
<1> QED
  BY <1>6, <1>7, <1>8 DEF GraceParts

LEMMA GraceNext == GraceInv /\ [Next]_vars => GraceInv'
<1> SUFFICES ASSUME GraceInv, [Next]_vars PROVE GraceParts'
  BY PlaceNext DEF GraceInv, GraceParts
<1>0. pc \in [Threads -> Labels]
  BY DEF GraceInv, PlaceInv, LockInv, TypeOK
<1>1. ASSUME NEW t \in Threads, Unlink(t) \/ NoChange(t) \/ WriterUnlock(t)
      PROVE  GraceParts'
  BY <1>0, <1>1, GraceQuiet DEF Unlink, NoChange, WriterUnlock, Goto
<1>2. ASSUME NEW t \in Threads, NEW b \in Buckets, WriterLock(t, b)
      PROVE  GraceParts'
  BY <1>0, <1>2, GraceQuiet DEF WriterLock, StartOp, Goto
<1>3. ASSUME NEW t \in Threads, NEW n \in Nodes, Find(t, n)
      PROVE  GraceParts'
  BY <1>0, <1>3, GraceQuiet DEF Find, Goto
<1>4. ASSUME NEW t \in Threads, Release(t), free_ptrs[t] = <<>>
      PROVE  GraceParts'
  BY <1>0, <1>4, GraceQuiet DEF Release, Goto
<1>5. CASE UNCHANGED vars
  BY <1>5, GraceQuiet DEF vars
<1> QED
  BY <1>1, <1>2, <1>3, <1>4, <1>5, GraceReaderLock, GraceReaderUnlock, GraceInsert,
     GraceFree, GraceReadTime, GraceWait, GraceRelease DEF Next, Running, Terminated

-----------------------------------------------------------------------------
(* The theorems *)

\* The variables keep their types, and no buffer of urcu_free overflows.
THEOREM TypeCorrect == Spec => []TypeOK
<1>1. LockInv => TypeOK
  BY DEF LockInv
<1> QED
  BY <1>1, LockInit, LockNext, PTL DEF Spec

\* Every removed node is freed once: the lock of the bucket makes one thread
\* unlink it, and that thread gives it to urcu_free once.
THEOREM FreeOnce == Spec => []FreedOnce
<1>1. PlaceInv => FreedOnce
  BY DEF PlaceInv
<1> QED
  BY <1>1, PlaceInit, PlaceNext, PTL DEF Spec

\* urcu_synchronize waits for a grace period: no block is freed that a reader's
\* section may still have its hands on.
THEOREM GracePeriod == Spec => []NoUseAfterFree
<1>1. GraceInv => NoUseAfterFree
  BY DEF GraceInv
<1> QED
  BY <1>1, GraceInit, GraceNext, PTL DEF Spec
=============================================================================
