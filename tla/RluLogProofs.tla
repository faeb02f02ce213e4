---------------------------- MODULE RluLogProofs ----------------------------
(***************************************************************************)
(* The logs of the threads: the ring of write-sets, the lock of each       *)
(* object, what the copies contain and, in the coarse type, the writer     *)
(* locks.  Everything holds for any number of threads, objects, ring slots *)
(* and sections.                                                           *)
(*                                                                         *)
(* A write-set is named by its counter.  The counters from ws_head_counter *)
(* to ws_tail_counter - 1 are in the ring; those from ws_wb_counter on     *)
(* still lock their objects; ws_tail_counter is the one the section in     *)
(* progress fills.                                                         *)
(***************************************************************************)
EXTENDS RluProofs

USE DEF vars, objVars, versionVars, joinVars, globalVars, peerVars, flagVars,
        counterVars, logVars, ownVars, syncVars, loopVars, ctlVars, callVars,
        ghostVars, clientVars

-----------------------------------------------------------------------------
(* The ring of one thread. *)

SyncLabels == {"load", "store", "bump", "scan", "wait", "reset", "writeback",
               "unlock", "commit", "sync_end"}
BackLabels == {"writeback", "unlock"}
LoopLabels == {"scan", "unlock_objs", "release_cur", "release_prev",
               "writeback", "unlock"}

Syncing(t) == pc[t] \in SyncLabels

\* The section of t, or its roll-back, is in progress: its write-set is open.
Open(t) == InSection(t) \/ pc[t] \in {"unlock_objs", "release_cur"}

\* How far apart the counters are, and what a synchronisation does to them.
RingOf(t) ==
    LET head == ws_head_counter[t]
        wb   == ws_wb_counter[t]
        tail == ws_tail_counter[t]
    IN  /\ head <= wb /\ wb <= tail
        /\ wb <= head + max_write_sets
        /\ tail <= wb + max_write_sets
        /\ ~Syncing(t) => tail < wb + max_write_sets
        /\ pc[t] \in BackLabels =>
              head = wb /\ wb <= ws_counter[t] /\ ws_counter[t] <= tail
        /\ pc[t] = "unlock" => ws_counter[t] < tail
        /\ pc[t] \in {"commit", "sync_end"} => wb = tail
        /\ (pc[t] = "release_prev" \/ (Syncing(t) /\ ret[t] = "release_prev"))
              => head < tail
        /\ (Syncing(t) /\ pc[t] \notin {"commit", "sync_end"} /\ ret[t] = "release_prev")
              => wb < tail

\* Which slots are empty, and which write-sets are not.
SlotsOf(t) ==
    /\ \A s \in Slots :
          (/\ \A n \in ws_head_counter[t] .. ws_tail_counter[t] - 1 : WS_INDEX(n) # s
           /\ s = WsCurId(t) => ~Open(t))
             => obj_write_set[t][s] = <<>> /\ ws_writer_locks[t][s] = <<>>
    /\ \A n \in ws_head_counter[t] .. ws_tail_counter[t] - 1 : WriteSet(t, n) # <<>>

\* A section has copies in its write-set exactly when it detected a write.
DetectedOf(t) ==
    /\ pc[t] \in {"section", "steal"} /\ is_write_detected[t] =>
          WriteSet(t, ws_tail_counter[t]) # <<>>
    /\ InSection(t) /\ ~is_write_detected[t] =>
          WriteSet(t, ws_tail_counter[t]) = <<>>
    /\ pc[t] \in {"version", "commit_version"} => ~is_write_detected[t]
    /\ pc[t] \in {"cas", "copy"} => is_write_detected[t] /\ cur_copy[t] = NextCopy(t)

\* The index of the loop that t is in.
LoopOf(t) ==
    /\ pc[t] \notin LoopLabels => i[t] = 0
    /\ pc[t] = "unlock_objs" => i[t] <= Len(WriteSet(t, ws_tail_counter[t]))
    /\ Releasing(t) => i[t] <= Len(ws_writer_locks[t][ReleaseSlot(t)])
    /\ (pc[t] = "writeback" /\ ws_counter[t] = ws_tail_counter[t]) => i[t] = 0
    /\ (pc[t] \in BackLabels /\ ws_counter[t] < ws_tail_counter[t]) =>
          i[t] < Len(WriteSet(t, ws_counter[t]))

Ring == \A t \in Threads : RingOf(t) /\ SlotsOf(t) /\ DetectedOf(t) /\ LoopOf(t)

-----------------------------------------------------------------------------
(* The locks of the objects. *)

CopyAt(t, n, k) == [th |-> t, ws |-> WS_INDEX(n), ix |-> k]

First(t) == IF pc[t] \in BackLabels THEN ws_counter[t] ELSE ws_wb_counter[t]

\* The copy with index k of write-set n of t locks its object.
Live(t, n, k) ==
    /\ n \in Nat /\ k \in Nat \ {0}
    /\ First(t) <= n /\ n <= ws_tail_counter[t]
    /\ n = ws_tail_counter[t] => InSection(t) \/ pc[t] = "unlock_objs"
    /\ k <= Len(WriteSet(t, n))
    /\ (pc[t] \in BackLabels /\ n = ws_counter[t]) => k > i[t]
    /\ (pc[t] = "unlock_objs" /\ n = ws_tail_counter[t]) => k > i[t]

Installing(t, o, c) == pc[t] = "copy" /\ cur_obj[t] = o /\ cur_copy[t] = c

OwnedBy(o, c) ==
    \/ Installing(c.th, o, c)
    \/ \E n, k \in Nat : /\ Live(c.th, n, k) /\ c = CopyAt(c.th, n, k)
                         /\ WriteSet(c.th, n)[k].obj = o

Owned == \A o \in Objs : \A c \in Addr : p_obj_copy[o] = c => OwnedBy(o, c)

Locking ==
    /\ \A t \in Threads : \A n, k \in Nat :
          Live(t, n, k) => p_obj_copy[WriteSet(t, n)[k].obj] = CopyAt(t, n, k)
    /\ \A t \in Threads : pc[t] = "copy" => p_obj_copy[cur_obj[t]] = cur_copy[t]

-----------------------------------------------------------------------------
(* What the copies contain. *)

\* A live copy of a committed write-set has the contents its object is to get.
\* Those of the section in progress add its update to the object's contents.
\* Between the memcpy of the write-back and the UNLOCK copy and object agree.
Kept(t, n, k) ==
    LET e == WriteSet(t, n)[k]
    IN  /\ n < ws_tail_counter[t] => committed[e.obj] = e.val
        /\ n = ws_tail_counter[t] => committed[e.obj] = data[e.obj]
        /\ n = ws_tail_counter[t] /\ InSection(t) =>
              e.val = data[e.obj] \cup {<<t, n_starts[t]>>} /\ e.run = run_counter[t]
        /\ pc[t] = "unlock" /\ n = ws_counter[t] /\ k = i[t] + 1 => data[e.obj] = e.val

Values ==
    /\ \A t \in Threads : \A n, k \in Nat : Live(t, n, k) => Kept(t, n, k)
    /\ \A o \in Objs : p_obj_copy[o] = NULL => committed[o] = data[o]
    /\ \A t \in Threads : pc[t] = "copy" => committed[cur_obj[t]] = data[cur_obj[t]]

-----------------------------------------------------------------------------
(* The writer locks of the coarse type. *)

\* Until it has released them, t has the locks in this write-set.
Holding(t) == Open(t) \/ pc[t] = "release_prev" \/ (Syncing(t) /\ ret[t] = "release_prev")

HeldSlot(t) == WS_INDEX(IF Open(t) THEN ws_tail_counter[t] ELSE ws_tail_counter[t] - 1)

\* How many of them have been released.
Given(t) == IF Releasing(t) THEN i[t] ELSE 0

HeldAt(t, k) ==
    Holding(t) /\ Given(t) < k /\ k <= Len(ws_writer_locks[t][HeldSlot(t)])

HeldLock(t, k) == ws_writer_locks[t][HeldSlot(t)][k]

\* The writer locks that t has are those of its write-set, each of them once.
HoldsOf(t) ==
    /\ \A l \in WriterLocks : g_rlu_writer_locks[l] = t =>
          \E k \in Nat : HeldAt(t, k) /\ HeldLock(t, k) = l
    /\ \A k \in Nat : HeldAt(t, k) => g_rlu_writer_locks[HeldLock(t, k)] = t
    /\ \A j, k \in Nat : HeldAt(t, j) /\ HeldAt(t, k) /\ j # k =>
          HeldLock(t, j) # HeldLock(t, k)

\* Whoever has locked an object, or is about to, has its writer lock.
Covered ==
    /\ \A o \in Objs : \A c \in Addr :
          p_obj_copy[o] = c => g_rlu_writer_locks[LockOf[o]] = c.th
    /\ \A t \in Threads : pc[t] \in {"cas", "copy"} =>
          g_rlu_writer_locks[LockOf[cur_obj[t]]] = t

CoarseInv == Coarse => (\A t \in Threads : HoldsOf(t)) /\ Covered
-----------------------------------------------------------------------------
(* Ring slots. *)

LEMMA Multiple ==
    ASSUME NEW d \in Int, NEW e \in Int, 0 < e, e < RLU_MAX_WRITE_SETS,
           e = RLU_MAX_WRITE_SETS * d
    PROVE  FALSE
<1>1. CASE d <= 0
  BY <1>1, WriteSetsAssumption
<1>2. CASE d >= 1
  <2>1. RLU_MAX_WRITE_SETS * d >= RLU_MAX_WRITE_SETS * 1
    BY <1>2, WriteSetsAssumption
  <2> QED
    BY <2>1, WriteSetsAssumption
<1> QED
  BY <1>1, <1>2

\* Write-sets that are less than a round of the ring apart have different slots.
LEMMA SlotsDiffer ==
    ASSUME NEW m \in Nat, NEW n \in Nat, m < n, n - m < RLU_MAX_WRITE_SETS
    PROVE  WS_INDEX(m) # WS_INDEX(n)
<1> DEFINE R == RLU_MAX_WRITE_SETS
<1> SUFFICES ASSUME m % R = n % R PROVE FALSE
  BY DEF WS_INDEX
<1>1. m = R * (m \div R) + (m % R) /\ n = R * (n \div R) + (n % R)
  BY WriteSetsAssumption
<1>2. m \div R \in Int /\ n \div R \in Int /\ m % R \in Int
  BY WriteSetsAssumption
<1>3. n - m = R * (n \div R) - R * (m \div R)
  BY <1>1, <1>2, WriteSetsAssumption
<1>4. R * (n \div R) - R * (m \div R) = R * ((n \div R) - (m \div R))
  BY <1>2, WriteSetsAssumption
<1> QED
  BY <1>2, <1>3, <1>4, Multiple

-----------------------------------------------------------------------------
(* A step of t leaves alone what the other threads own. *)

Same(u) ==
    /\ pc'[u] = pc[u] /\ ret'[u] = ret[u] /\ stamp'[u] = stamp[u]
    /\ i'[u] = i[u] /\ ws_counter'[u] = ws_counter[u]
    /\ ws_head_counter'[u] = ws_head_counter[u]
    /\ ws_wb_counter'[u] = ws_wb_counter[u]
    /\ ws_tail_counter'[u] = ws_tail_counter[u]
    /\ obj_write_set'[u] = obj_write_set[u]
    /\ ws_writer_locks'[u] = ws_writer_locks[u]
    /\ is_write_detected'[u] = is_write_detected[u]
    /\ cur_obj'[u] = cur_obj[u] /\ cur_copy'[u] = cur_copy[u]
    /\ run_counter'[u] = run_counter[u] /\ n_starts'[u] = n_starts[u]
    /\ local_version'[u] = local_version[u]
    /\ writer_version'[u] = writer_version[u]
    /\ refs'[u] = refs[u]

LEMMA Others ==
    ASSUME TypeInv, NEW t \in Threads, Thread(t), NEW u \in Threads \ {t}
    PROVE  Same(u)
<1> USE DEF Same, Goto
<1>0. /\ pc \in [Threads -> Labels] /\ ret \in [Threads -> Returns]
      /\ stamp \in [Threads -> Nat] /\ i \in [Threads -> Nat]
      /\ ws_counter \in [Threads -> Nat] /\ ws_head_counter \in [Threads -> Nat]
      /\ ws_wb_counter \in [Threads -> Nat] /\ ws_tail_counter \in [Threads -> Nat]
      /\ obj_write_set \in [Threads -> [Slots -> Seq(Entry)]]
      /\ ws_writer_locks \in [Threads -> [Slots -> Seq(WriterLocks)]]
      /\ is_write_detected \in [Threads -> BOOLEAN]
      /\ cur_obj \in [Threads -> Objs \cup {NULL}]
      /\ cur_copy \in [Threads -> Addr \cup {NULL}]
      /\ run_counter \in [Threads -> Nat] /\ n_starts \in [Threads -> Nat]
      /\ local_version \in [Threads -> Nat] /\ writer_version \in [Threads -> Nat]
      /\ refs \in [Threads -> SUBSET (Objs \X Ptr)]
  BY DEF TypeInv, TypeOK, PeerTypes, OwnTypes, ControlTypes, ClientTypes
<1>1. CASE ThreadInit(t) \/ ThreadPublish(t) \/ SyncCheckpoint(t)
  BY <1>0, <1>1 DEF ThreadInit, ThreadPublish, SyncCheckpoint, Checkpoint, SyncCall
<1>2. CASE ThreadFinish(t) \/ ThreadFinish2(t)
  BY <1>0, <1>2 DEF ThreadFinish, ThreadFinish2, SyncCall
<1>3. CASE Begin(t)
  <2>1. CASE ReaderLock(t)
    BY <1>0, <2>1 DEF ReaderLock, Checkpoint, SyncCall
  <2>2. CASE Register(t)
    BY <1>0, <2>2 DEF Register
  <2>3. CASE ReadVersion(t) \/ ReadCommitVersion(t)
    BY <1>0, <2>3 DEF ReadVersion, ReadCommitVersion
  <2> QED
    BY <1>3, <2>1, <2>2, <2>3 DEF Begin
<1>4. CASE Steal(t) \/ TryLockCas(t) \/ TryLockCopy(t) \/ SendSyncRequest(t)
  <2>1. CASE Steal(t)
    BY <1>0, <2>1 DEF Steal, Got, EndCall
  <2>2. CASE TryLockCas(t)
    BY <1>0, <2>2 DEF TryLockCas, EndCall
  <2>3. CASE TryLockCopy(t)
    BY <1>0, <2>3 DEF TryLockCopy, Got, EndCall
  <2>4. CASE SendSyncRequest(t)
    BY <1>0, <2>4 DEF SendSyncRequest, EndCall
  <2> QED
    BY <1>4, <2>1, <2>2, <2>3, <2>4
<1>5. ASSUME NEW o \in Objs, Deref(t, o) \/ DerefLocked(t, o) PROVE Same(u)
  BY <1>0, <1>5 DEF Deref, DerefLocked, Got
<1>6. ASSUME NEW o \in Objs, TryLock(t, o) \/ TryLockOwn(t, o) \/ TryLockFail(t, o)
      PROVE  Same(u)
  <2>1. CASE TryLock(t, o)
    BY <1>0, <2>1 DEF TryLock
  <2>2. CASE TryLockOwn(t, o)
    BY <1>0, <2>2 DEF TryLockOwn, Got
  <2>3. CASE TryLockFail(t, o)
    BY <1>0, <2>3 DEF TryLockFail
  <2> QED
    BY <1>6, <2>1, <2>2, <2>3
<1>7. ASSUME NEW l \in WriterLocks, TryWriterLock(t, l) PROVE Same(u)
  BY <1>0, <1>7 DEF TryWriterLock
<1>8. CASE ReaderUnlock(t) \/ CommitUnlock(t) \/ Abort(t)
  <2>1. CASE ReaderUnlock(t)
    BY <1>0, <2>1 DEF ReaderUnlock, LeaveSection
  <2>2. CASE CommitUnlock(t)
    BY <1>0, <2>2 DEF CommitUnlock, LeaveSection, SyncCall
  <2>3. CASE Abort(t)
    BY <1>0, <2>3 DEF Abort, LeaveSection
  <2> QED
    BY <1>8, <2>1, <2>2, <2>3
<1>9. CASE UnlockObjs(t) \/ ReleaseWriterLock(t) \/ ReleaseEnd(t)
  <2>1. CASE UnlockObjs(t) \/ ReleaseWriterLock(t)
    BY <1>0, <2>1 DEF UnlockObjs, ReleaseWriterLock
  <2>2. CASE ReleaseEnd(t)
    BY <1>0, <2>2 DEF ReleaseEnd, Checkpoint, SyncCall
  <2> QED
    BY <1>9, <2>1, <2>2
<1>10. CASE SyncLoad(t) \/ SyncStore(t) \/ SyncBump(t) \/ Scan(t) \/ ScanEnd(t) \/ Wait(t)
  BY <1>0, <1>10 DEF SyncLoad, SyncStore, SyncBump, Scan, ScanEnd, Wait
<1>11. CASE ResetWriteSets(t) \/ Writeback(t) \/ Unlock(t)
  <2>1. CASE ResetWriteSets(t)
    BY <1>0, <2>1 DEF ResetWriteSets
  <2>2. CASE Writeback(t)
    BY <1>0, <2>2 DEF Writeback
  <2>3. CASE Unlock(t)
    BY <1>0, <2>3 DEF Unlock
  <2> QED
    BY <1>11, <2>1, <2>2, <2>3
<1>12. CASE SyncUnstamp(t) \/ SyncCommit(t) \/ SyncEnd(t)
  BY <1>0, <1>12 DEF SyncUnstamp, SyncCommit, SyncEnd
<1> QED
  BY <1>1, <1>2, <1>3, <1>4, <1>5, <1>6, <1>7, <1>8, <1>9, <1>10, <1>11, <1>12
  DEF Thread, Access, End, Sync

-----------------------------------------------------------------------------
(* The ring of the thread that makes a step. *)

RingPart(t) == RingOf(t) /\ SlotsOf(t) /\ DetectedOf(t) /\ LoopOf(t)

LEMMA RingSame ==
    ASSUME NEW u \in Threads, RingPart(u), Same(u)
    PROVE  RingPart(u)'
<1>1. RingOf(u)'
  BY DEF RingPart, RingOf, Same, Syncing
<1>2. SlotsOf(u)'
  BY DEF RingPart, SlotsOf, Same, WriteSet, WsCurId, Open, InSection
<1>3. DetectedOf(u)'
  BY DEF RingPart, DetectedOf, Same, WriteSet, InSection, NextCopy, WsCurId
<1>4. LoopOf(u)'
  BY DEF RingPart, LoopOf, Same, WriteSet, Releasing, ReleaseSlot
<1> QED
  BY <1>1, <1>2, <1>3, <1>4 DEF RingPart

LEMMA CounterTypes ==
    ASSUME TypeInv
    PROVE  /\ pc \in [Threads -> Labels] /\ ret \in [Threads -> Returns]
           /\ i \in [Threads -> Nat] /\ ws_counter \in [Threads -> Nat]
           /\ ws_head_counter \in [Threads -> Nat] /\ ws_wb_counter \in [Threads -> Nat]
           /\ ws_tail_counter \in [Threads -> Nat]
           /\ is_write_detected \in [Threads -> BOOLEAN]
BY DEF TypeInv, TypeOK, OwnTypes, ControlTypes

LEMMA LogTypes ==
    ASSUME TypeInv
    PROVE  /\ obj_write_set \in [Threads -> [Slots -> Seq(Entry)]]
           /\ ws_writer_locks \in [Threads -> [Slots -> Seq(WriterLocks)]]
BY DEF TypeInv, TypeOK, OwnTypes

LEMMA RingOfStep ==
    ASSUME TypeInv, NEW t \in Threads, RingPart(t), Thread(t)
    PROVE  RingOf(t)'
<1> USE CounterTypes, WriteSetsAssumption DEF RingOf, RingPart, Syncing, SyncLabels,
        BackLabels, Goto
<1>1. CASE ThreadInit(t) \/ ThreadPublish(t) \/ SyncCheckpoint(t)
  BY <1>1 DEF ThreadInit, ThreadPublish, SyncCheckpoint, Checkpoint, SyncCall
<1>2. CASE ThreadFinish(t) \/ ThreadFinish2(t)
  BY <1>2 DEF ThreadFinish, ThreadFinish2, SyncCall
<1>3. CASE Begin(t)
  BY <1>3 DEF Begin, ReaderLock, Register, ReadVersion, ReadCommitVersion,
     Checkpoint, SyncCall
<1>4. CASE Steal(t) \/ TryLockCas(t) \/ TryLockCopy(t) \/ SendSyncRequest(t)
  BY <1>4 DEF Steal, TryLockCas, TryLockCopy, SendSyncRequest
<1>5. ASSUME NEW o \in Objs, Deref(t, o) \/ DerefLocked(t, o) PROVE RingOf(t)'
  BY <1>5 DEF Deref, DerefLocked
<1>6. ASSUME NEW o \in Objs, TryLock(t, o) \/ TryLockOwn(t, o) \/ TryLockFail(t, o)
      PROVE  RingOf(t)'
  BY <1>6 DEF TryLock, TryLockOwn, TryLockFail, MayLock
<1>7. ASSUME NEW l \in WriterLocks, TryWriterLock(t, l) PROVE RingOf(t)'
  BY <1>7 DEF TryWriterLock
<1>8. CASE ReaderUnlock(t) \/ Abort(t)
  BY <1>8 DEF ReaderUnlock, Abort
<1>9. CASE CommitUnlock(t)
  BY <1>9 DEF CommitUnlock, SyncCall, MustSync
<1>10. CASE UnlockObjs(t) \/ ReleaseWriterLock(t) \/ ReleaseEnd(t)
  BY <1>10 DEF UnlockObjs, ReleaseWriterLock, ReleaseEnd, Releasing, Checkpoint, SyncCall
<1>11. CASE SyncLoad(t) \/ SyncStore(t) \/ SyncBump(t) \/ Scan(t) \/ ScanEnd(t) \/ Wait(t)
  BY <1>11 DEF SyncLoad, SyncStore, SyncBump, Scan, ScanEnd, Wait
<1>12. CASE ResetWriteSets(t) \/ Writeback(t) \/ Unlock(t)
  BY <1>12 DEF ResetWriteSets, Writeback, Unlock
<1>13. CASE SyncUnstamp(t) \/ SyncCommit(t)
  BY <1>13 DEF SyncUnstamp, SyncCommit
<1>14. CASE SyncEnd(t)
  BY <1>14 DEF SyncEnd, Returns
<1> QED
  BY <1>1, <1>2, <1>3, <1>4, <1>5, <1>6, <1>7, <1>8, <1>9, <1>10, <1>11, <1>12,
     <1>13, <1>14
  DEF Thread, Access, End, Sync

\* The open write-set is not one of those in the ring.
LEMMA Window ==
    ASSUME TypeInv, NEW t \in Threads, RingOf(t), ~Syncing(t),
           NEW n \in ws_head_counter[t] .. ws_tail_counter[t] - 1
    PROVE  WS_INDEX(n) # WsCurId(t)
<1>1. /\ n \in Nat /\ ws_tail_counter[t] \in Nat /\ n < ws_tail_counter[t]
      /\ ws_tail_counter[t] - n < RLU_MAX_WRITE_SETS
  BY CounterTypes, WriteSetsAssumption DEF RingOf
<1> QED
  BY <1>1, SlotsDiffer DEF WsCurId

LEMMA SlotsQuiet ==
    ASSUME NEW t \in Threads, SlotsOf(t), Open(t) => Open(t)',
           UNCHANGED <<ws_head_counter, ws_tail_counter, logVars>>
    PROVE  SlotsOf(t)'
BY DEF SlotsOf, WriteSet, WsCurId

LEMMA SlotsTryLockCopy ==
    ASSUME TypeInv, NEW t \in Threads, RingPart(t), TryLockCopy(t)
    PROVE  SlotsOf(t)'
<1> DEFINE s0 == WsCurId(t)
<1>1. /\ \A s \in Slots \ {s0} : obj_write_set'[t][s] = obj_write_set[t][s]
      /\ s0 \in Slots /\ Open(t)' /\ WsCurId(t)' = s0
  BY CounterTypes, LogTypes, SlotIndex DEF TryLockCopy, Goto, Open, InSection, WsCurId
<1>2. ~Syncing(t) /\ RingOf(t)
  BY DEF TryLockCopy, Syncing, SyncLabels, RingPart
<1>3. \A n \in ws_head_counter[t] .. ws_tail_counter[t] - 1 :
          n \in Nat /\ WS_INDEX(n) \in Slots /\ WS_INDEX(n) # s0
  BY <1>2, CounterTypes, Window, SlotIndex
<1> QED
  BY <1>1, <1>3 DEF RingPart, SlotsOf, WriteSet, TryLockCopy

LEMMA SlotsTryWriterLock ==
    ASSUME TypeInv, NEW t \in Threads, RingPart(t), NEW l \in WriterLocks,
           TryWriterLock(t, l)
    PROVE  SlotsOf(t)'
<1> DEFINE s0 == WsCurId(t)
<1>1. /\ \A s \in Slots \ {s0} : ws_writer_locks'[t][s] = ws_writer_locks[t][s]
      /\ s0 \in Slots /\ Open(t)' /\ WsCurId(t)' = s0
  BY CounterTypes, LogTypes, SlotIndex DEF TryWriterLock, Goto, Open, InSection, WsCurId
<1>2. UNCHANGED <<ws_head_counter, ws_tail_counter, obj_write_set>>
  BY DEF TryWriterLock
<1>3. Open(t)
  BY DEF TryWriterLock, Open, InSection
<1> QED
  BY <1>1, <1>2, <1>3 DEF RingPart, SlotsOf, WriteSet

LEMMA SlotsCommitUnlock ==
    ASSUME TypeInv, NEW t \in Threads, RingPart(t), CommitUnlock(t)
    PROVE  SlotsOf(t)'
<1> DEFINE head == ws_head_counter[t]
           tail == ws_tail_counter[t]
<1>1. /\ head \in Nat /\ tail \in Nat /\ ws_tail_counter'[t] = tail + 1
      /\ ws_head_counter'[t] = head
      /\ UNCHANGED logVars
  BY CounterTypes DEF CommitUnlock
<1>2. WriteSet(t, tail) # <<>>
  BY DEF CommitUnlock, RingPart, DetectedOf
<1>3. \A n \in head .. tail : WriteSet(t, n)' # <<>>
  BY <1>1, <1>2 DEF RingPart, SlotsOf, WriteSet
<1>4. ASSUME NEW s \in Slots, \A n \in head .. tail : WS_INDEX(n) # s
      PROVE  obj_write_set[t][s] = <<>> /\ ws_writer_locks[t][s] = <<>>
  <2>1. s # WsCurId(t)
    BY <1>1, <1>4, CounterTypes DEF WsCurId, RingPart, RingOf
  <2> QED
    BY <1>1, <1>4, <2>1 DEF RingPart, SlotsOf
<1> QED
  BY <1>1, <1>3, <1>4 DEF SlotsOf

LEMMA SlotsReleaseEnd ==
    ASSUME TypeInv, NEW t \in Threads, RingPart(t), ReleaseEnd(t)
    PROVE  SlotsOf(t)'
<1> USE DEF Goto, Checkpoint, SyncCall
<1>1. CASE pc[t] = "release_cur"
  <2> DEFINE s0 == WsCurId(t)
  <2>1. /\ ReleaseSlot(t) = s0 /\ s0 \in Slots /\ WsCurId(t)' = s0
        /\ UNCHANGED <<ws_head_counter, ws_tail_counter>>
    BY <1>1, CounterTypes, SlotIndex DEF ReleaseEnd, ReleaseSlot, WsCurId
  <2>2. /\ obj_write_set'[t] = [obj_write_set[t] EXCEPT ![s0] = <<>>]
        /\ ws_writer_locks'[t] = [ws_writer_locks[t] EXCEPT ![s0] = <<>>]
    BY <1>1, <2>1, LogTypes DEF ReleaseEnd
  <2>3. /\ \A s \in Slots \ {s0} : /\ obj_write_set'[t][s] = obj_write_set[t][s]
                                   /\ ws_writer_locks'[t][s] = ws_writer_locks[t][s]
        /\ obj_write_set'[t][s0] = <<>> /\ ws_writer_locks'[t][s0] = <<>>
    BY <2>1, <2>2, LogTypes
  <2>4. ~Syncing(t) /\ RingOf(t)
    BY <1>1 DEF Syncing, SyncLabels, RingPart
  <2>5. \A n \in ws_head_counter[t] .. ws_tail_counter[t] - 1 :
            n \in Nat /\ WS_INDEX(n) \in Slots /\ WS_INDEX(n) # s0
    BY <2>4, CounterTypes, Window, SlotIndex
  <2> QED
    BY <2>1, <2>3, <2>5 DEF RingPart, SlotsOf, WriteSet
<1>2. CASE pc[t] # "release_cur"
  <2>1. ~Open(t) /\ UNCHANGED <<ws_head_counter, ws_tail_counter, logVars>>
    BY <1>2 DEF ReleaseEnd, Releasing, Open, InSection
  <2> QED
    BY <2>1, SlotsQuiet DEF RingPart
<1> QED
  BY <1>1, <1>2

\* The reset empties the slots of the write-sets it takes out of the ring.
LEMMA ResetSlots ==
    ASSUME TypeInv, NEW t \in Threads, RingPart(t), ResetWriteSets(t)
    PROVE  /\ ws_head_counter'[t] = ws_wb_counter[t]
           /\ UNCHANGED <<ws_tail_counter, ws_wb_counter>>
           /\ \A n \in ws_wb_counter[t] .. ws_tail_counter[t] - 1 :
                 /\ obj_write_set'[t][WS_INDEX(n)] = obj_write_set[t][WS_INDEX(n)]
                 /\ ws_writer_locks'[t][WS_INDEX(n)] = ws_writer_locks[t][WS_INDEX(n)]
           /\ \A s \in Slots :
                 \/ obj_write_set'[t][s] = <<>> /\ ws_writer_locks'[t][s] = <<>>
                 \/ /\ obj_write_set'[t][s] = obj_write_set[t][s]
                    /\ ws_writer_locks'[t][s] = ws_writer_locks[t][s]
           /\ \A n \in ws_head_counter[t] .. ws_wb_counter[t] - 1 :
                 /\ obj_write_set'[t][WS_INDEX(n)] = <<>>
                 /\ ws_writer_locks'[t][WS_INDEX(n)] = <<>>
<1> DEFINE free == {WS_INDEX(c) : c \in ws_head_counter[t] .. ws_wb_counter[t] - 1}
<1>1. /\ ws_head_counter'[t] = ws_wb_counter[t]
      /\ UNCHANGED <<ws_tail_counter, ws_wb_counter>>
  BY CounterTypes DEF ResetWriteSets
<1>2. /\ obj_write_set'[t] = [s \in Slots |-> IF s \in free THEN <<>> ELSE obj_write_set[t][s]]
      /\ ws_writer_locks'[t] = [s \in Slots |-> IF s \in free THEN <<>> ELSE ws_writer_locks[t][s]]
  BY LogTypes DEF ResetWriteSets
<1>3. /\ ws_head_counter[t] \in Nat /\ ws_wb_counter[t] \in Nat /\ ws_tail_counter[t] \in Nat
      /\ ws_tail_counter[t] - ws_head_counter[t] <= RLU_MAX_WRITE_SETS
      /\ ws_head_counter[t] <= ws_wb_counter[t]
  BY CounterTypes, WriteSetsAssumption DEF RingPart, RingOf
<1>4. ASSUME NEW n \in ws_wb_counter[t] .. ws_tail_counter[t] - 1
      PROVE  n \in Nat /\ WS_INDEX(n) \in Slots /\ WS_INDEX(n) \notin free
  <2>1. n \in Nat
    BY <1>3
  <2>2. ASSUME NEW c \in ws_head_counter[t] .. ws_wb_counter[t] - 1
        PROVE  WS_INDEX(c) # WS_INDEX(n)
    <3>1. c \in Nat /\ c < n /\ n - c < RLU_MAX_WRITE_SETS
      BY <1>3, WriteSetsAssumption
    <3> QED
      BY <2>1, <3>1, SlotsDiffer
  <2> QED
    BY <2>1, <2>2, SlotIndex
<1>5. ASSUME NEW n \in ws_head_counter[t] .. ws_wb_counter[t] - 1
      PROVE  WS_INDEX(n) \in Slots /\ WS_INDEX(n) \in free
  BY <1>3, SlotIndex
<1> HIDE DEF free
<1> QED
  BY <1>1, <1>2, <1>4, <1>5

LEMMA SlotsResetWriteSets ==
    ASSUME TypeInv, NEW t \in Threads, RingPart(t), ResetWriteSets(t)
    PROVE  SlotsOf(t)'
<1>0. /\ ws_head_counter[t] \in Nat /\ ws_wb_counter[t] \in Nat /\ ws_tail_counter[t] \in Nat
      /\ ws_head_counter[t] <= ws_wb_counter[t]
      /\ WsCurId(t)' = WsCurId(t)
      /\ ~Open(t)
  BY CounterTypes DEF RingPart, RingOf, ResetWriteSets, WsCurId, Open, InSection
<1>1. ASSUME NEW s \in Slots,
             \A n \in ws_wb_counter[t] .. ws_tail_counter[t] - 1 : WS_INDEX(n) # s
      PROVE  obj_write_set'[t][s] = <<>> /\ ws_writer_locks'[t][s] = <<>>
  <2>1. CASE \E n \in ws_head_counter[t] .. ws_wb_counter[t] - 1 : WS_INDEX(n) = s
    BY <2>1, ResetSlots
  <2>2. CASE \A n \in ws_head_counter[t] .. ws_wb_counter[t] - 1 : WS_INDEX(n) # s
    <3>1. \A n \in ws_head_counter[t] .. ws_tail_counter[t] - 1 : WS_INDEX(n) # s
      BY <1>0, <1>1, <2>2
    <3>2. obj_write_set[t][s] = <<>> /\ ws_writer_locks[t][s] = <<>>
      BY <1>0, <3>1 DEF RingPart, SlotsOf
    <3> QED
      BY <3>2, ResetSlots
  <2> QED
    BY <2>1, <2>2
<1>2. ASSUME NEW n \in ws_wb_counter[t] .. ws_tail_counter[t] - 1
      PROVE  WriteSet(t, n)' # <<>>
  <2>1. WriteSet(t, n) # <<>>
    BY <1>0 DEF RingPart, SlotsOf
  <2> QED
    BY <2>1, ResetSlots DEF WriteSet
<1> QED
  BY <1>1, <1>2, ResetSlots DEF SlotsOf

LEMMA SlotsOfStep ==
    ASSUME TypeInv, NEW t \in Threads, RingPart(t), Thread(t)
    PROVE  SlotsOf(t)'
<1> USE CounterTypes DEF RingPart, Goto, Open, InSection
<1>1. CASE ThreadInit(t) \/ ThreadPublish(t) \/ SyncCheckpoint(t)
  BY <1>1, SlotsQuiet DEF ThreadInit, ThreadPublish, SyncCheckpoint, Checkpoint, SyncCall
<1>2. CASE ThreadFinish(t) \/ ThreadFinish2(t)
  BY <1>2, SlotsQuiet DEF ThreadFinish, ThreadFinish2, SyncCall
<1>3. CASE Begin(t)
  BY <1>3, SlotsQuiet DEF Begin, ReaderLock, Register, ReadVersion, ReadCommitVersion,
     Checkpoint, SyncCall
<1>4. CASE Steal(t) \/ TryLockCas(t) \/ SendSyncRequest(t)
  BY <1>4, SlotsQuiet DEF Steal, TryLockCas, SendSyncRequest
<1>5. ASSUME NEW o \in Objs, Deref(t, o) \/ DerefLocked(t, o) PROVE SlotsOf(t)'
  BY <1>5, SlotsQuiet DEF Deref, DerefLocked
<1>6. ASSUME NEW o \in Objs, TryLock(t, o) \/ TryLockOwn(t, o) \/ TryLockFail(t, o)
      PROVE  SlotsOf(t)'
  BY <1>6, SlotsQuiet DEF TryLock, TryLockOwn, TryLockFail
<1>7. CASE ReaderUnlock(t) \/ Abort(t)
  BY <1>7, SlotsQuiet DEF ReaderUnlock, Abort
<1>8. CASE UnlockObjs(t) \/ ReleaseWriterLock(t)
  BY <1>8, SlotsQuiet DEF UnlockObjs, ReleaseWriterLock
<1>9. CASE SyncLoad(t) \/ SyncStore(t) \/ SyncBump(t) \/ Scan(t) \/ ScanEnd(t) \/ Wait(t)
  BY <1>9, SlotsQuiet DEF SyncLoad, SyncStore, SyncBump, Scan, ScanEnd, Wait
<1>10. CASE Writeback(t) \/ Unlock(t) \/ SyncUnstamp(t) \/ SyncCommit(t) \/ SyncEnd(t)
  BY <1>10, SlotsQuiet DEF Writeback, Unlock, SyncUnstamp, SyncCommit, SyncEnd
<1> QED
  BY <1>1, <1>2, <1>3, <1>4, <1>5, <1>6, <1>7, <1>8, <1>9, <1>10,
     SlotsTryLockCopy, SlotsTryWriterLock, SlotsCommitUnlock, SlotsReleaseEnd,
     SlotsResetWriteSets
  DEF Thread, Access, End, Sync

NewEntry(t) ==
    [obj |-> cur_obj[t], val |-> data[cur_obj[t]] \cup {<<t, n_starts[t]>>},
     run |-> run_counter[t]]

LEMMA CopiedEntry ==
    ASSUME TypeInv, NEW t \in Threads, TryLockCopy(t)
    PROVE  /\ NewEntry(t) \in Entry /\ cur_obj[t] \in Objs /\ cur_copy[t] \in Addr
           /\ WsCurId(t) \in Slots
           /\ obj_write_set'[t][WsCurId(t)] =
                  Append(obj_write_set[t][WsCurId(t)], NewEntry(t))
           /\ \A s \in Slots \ {WsCurId(t)} : obj_write_set'[t][s] = obj_write_set[t][s]
<1>1. cur_obj[t] \in Objs /\ cur_copy[t] \in Addr
  BY DEF TypeInv, CallTyped, TryLockCopy
<1>2. n_starts[t] \in Nat /\ run_counter[t] \in Nat
  BY DEF TypeInv, TypeOK, PeerTypes, ClientTypes
<1>3. data[cur_obj[t]] \cup {<<t, n_starts[t]>>} \in Value
  BY <1>1, <1>2 DEF TypeInv, TypeOK, GlobalTypes, Value
<1>4. NewEntry(t) \in Entry
  BY <1>1, <1>2, <1>3 DEF Entry, NewEntry
<1>5. WsCurId(t) \in Slots
  BY CounterTypes, SlotIndex DEF WsCurId
<1>6. obj_write_set' = [obj_write_set EXCEPT ![t][WsCurId(t)] = Append(@, NewEntry(t))]
  BY DEF TryLockCopy, NewEntry
<1> QED
  BY <1>1, <1>4, <1>5, <1>6, LogTypes

LEMMA DetectedOfStep ==
    ASSUME TypeInv, NEW t \in Threads, RingPart(t), Thread(t)
    PROVE  DetectedOf(t)'
<1> USE CounterTypes DEF RingPart, Goto, InSection, DetectedOf, WriteSet
<1>1. CASE ThreadInit(t) \/ ThreadPublish(t) \/ SyncCheckpoint(t)
  BY <1>1 DEF ThreadInit, ThreadPublish, SyncCheckpoint, Checkpoint, SyncCall
<1>2. CASE ThreadFinish(t) \/ ThreadFinish2(t)
  BY <1>2 DEF ThreadFinish, ThreadFinish2, SyncCall
<1>3. CASE ReaderLock(t) \/ Register(t)
  BY <1>3 DEF ReaderLock, Register, Checkpoint, SyncCall
<1>16. CASE ReadCommitVersion(t)
  <2>1. /\ pc[t] = "commit_version" /\ pc' = [pc EXCEPT ![t] = "section"]
        /\ UNCHANGED <<is_write_detected, obj_write_set, ws_tail_counter, ws_writer_locks>>
    BY <1>16 DEF ReadCommitVersion
  <2> QED
    BY <2>1
<1>4. CASE ReadVersion(t)
  <2>1. ~Syncing(t) /\ ~Open(t) /\ WsCurId(t) \in Slots /\ WsCurId(t) = WS_INDEX(ws_tail_counter[t])
    BY <1>4, SlotIndex DEF ReadVersion, Syncing, SyncLabels, Open, WsCurId
  <2>2. \A n \in ws_head_counter[t] .. ws_tail_counter[t] - 1 : WS_INDEX(n) # WsCurId(t)
    BY <2>1, Window
  <2>3. WriteSet(t, ws_tail_counter[t]) = <<>>
    BY <2>1, <2>2 DEF SlotsOf
  <2> QED
    BY <1>4, <2>3 DEF ReadVersion
<1>5. CASE Steal(t) \/ TryLockCas(t) \/ SendSyncRequest(t)
  BY <1>5 DEF Steal, TryLockCas, NextCopy, WsCurId, SendSyncRequest
<1>6. CASE TryLockCopy(t)
  <2> DEFINE s0 == WsCurId(t)
  <2>1. /\ s0 \in Slots /\ ws_tail_counter'[t] = ws_tail_counter[t]
        /\ s0 = WS_INDEX(ws_tail_counter[t])
    BY <1>6, SlotIndex DEF TryLockCopy, WsCurId
  <2>4. obj_write_set'[t][s0] # <<>>
    BY <1>6, <2>1, CopiedEntry, LogTypes
  <2>5. /\ pc[t] = "copy" /\ pc'[t] = "section" /\ is_write_detected'[t] = is_write_detected[t]
    BY <1>6 DEF TryLockCopy
  <2> QED
    BY <2>1, <2>4, <2>5
<1>7. ASSUME NEW o \in Objs, Deref(t, o) \/ DerefLocked(t, o) PROVE DetectedOf(t)'
  BY <1>7 DEF Deref, DerefLocked
<1>8. ASSUME NEW o \in Objs, TryLockOwn(t, o) \/ TryLockFail(t, o)
      PROVE  DetectedOf(t)'
  BY <1>8 DEF TryLockOwn, TryLockFail, MayLock
<1>9. ASSUME NEW o \in Objs, TryLock(t, o) PROVE DetectedOf(t)'
  <2>1. /\ is_write_detected'[t] = TRUE /\ pc'[t] = "cas" /\ cur_copy'[t] = NextCopy(t)
    BY <1>9 DEF TryLock, TypeInv, TypeOK, ClientTypes
  <2>2. NextCopy(t)' = NextCopy(t)
    BY <1>9 DEF TryLock, NextCopy, WsCurId
  <2> QED
    BY <2>1, <2>2
<1>10. ASSUME NEW l \in WriterLocks, TryWriterLock(t, l) PROVE DetectedOf(t)'
  BY <1>10 DEF TryWriterLock
<1>11. CASE ReaderUnlock(t) \/ Abort(t)
  BY <1>11 DEF ReaderUnlock, Abort
<1>12. CASE CommitUnlock(t)
  BY <1>12 DEF CommitUnlock, SyncCall
<1>13. CASE UnlockObjs(t) \/ ReleaseWriterLock(t) \/ ReleaseEnd(t)
  BY <1>13 DEF UnlockObjs, ReleaseWriterLock, ReleaseEnd, Releasing, Checkpoint, SyncCall
<1>14. CASE SyncLoad(t) \/ SyncStore(t) \/ SyncBump(t) \/ Scan(t) \/ ScanEnd(t) \/ Wait(t)
  BY <1>14 DEF SyncLoad, SyncStore, SyncBump, Scan, ScanEnd, Wait
<1>15. CASE ResetWriteSets(t) \/ Writeback(t) \/ Unlock(t) \/ SyncUnstamp(t)
            \/ SyncCommit(t) \/ SyncEnd(t)
  BY <1>15 DEF ResetWriteSets, Writeback, Unlock, SyncUnstamp, SyncCommit, SyncEnd, Returns
<1> QED
  BY <1>1, <1>2, <1>3, <1>4, <1>5, <1>6, <1>7, <1>8, <1>9, <1>10, <1>11, <1>12,
     <1>13, <1>14, <1>15, <1>16
  DEF Thread, Begin, Access, End, Sync

LEMMA LenTypes ==
    ASSUME TypeInv, NEW t \in Threads, NEW n \in Nat
    PROVE  /\ WS_INDEX(n) \in Slots
           /\ WriteSet(t, n) \in Seq(Entry) /\ Len(WriteSet(t, n)) \in Nat
           /\ ws_writer_locks[t][WS_INDEX(n)] \in Seq(WriterLocks)
           /\ Len(ws_writer_locks[t][WS_INDEX(n)]) \in Nat
BY LogTypes, SlotIndex DEF WriteSet

LEMMA LoopOfStep ==
    ASSUME TypeInv, NEW t \in Threads, RingPart(t), Thread(t)
    PROVE  LoopOf(t)'
<1> USE CounterTypes DEF RingPart, Goto, LoopOf, LoopLabels, BackLabels, WriteSet,
        Releasing, ReleaseSlot
<1>1. CASE ThreadInit(t) \/ ThreadPublish(t) \/ SyncCheckpoint(t)
  BY <1>1 DEF ThreadInit, ThreadPublish, SyncCheckpoint, Checkpoint, SyncCall
<1>2. CASE ThreadFinish(t) \/ ThreadFinish2(t)
  BY <1>2 DEF ThreadFinish, ThreadFinish2, SyncCall
<1>3. CASE ReaderLock(t) \/ Register(t) \/ ReadVersion(t)
  BY <1>3 DEF ReaderLock, Register, ReadVersion, Checkpoint, SyncCall
<1>4. CASE ReadCommitVersion(t)
  BY <1>4 DEF ReadCommitVersion
<1>5. CASE Steal(t) \/ TryLockCas(t) \/ TryLockCopy(t) \/ SendSyncRequest(t)
  BY <1>5 DEF Steal, TryLockCas, TryLockCopy, SendSyncRequest
<1>6. ASSUME NEW o \in Objs, Deref(t, o) \/ DerefLocked(t, o) PROVE LoopOf(t)'
  BY <1>6 DEF Deref, DerefLocked
<1>7. ASSUME NEW o \in Objs, TryLock(t, o) \/ TryLockOwn(t, o) \/ TryLockFail(t, o)
      PROVE  LoopOf(t)'
  BY <1>7 DEF TryLock, TryLockOwn, TryLockFail, MayLock
<1>8. ASSUME NEW l \in WriterLocks, TryWriterLock(t, l) PROVE LoopOf(t)'
  BY <1>8 DEF TryWriterLock
<1>9. CASE ReaderUnlock(t) \/ CommitUnlock(t) \/ Abort(t)
  <2>1. /\ pc[t] \in {"section", "failed"} /\ i'[t] = i[t]
        /\ pc'[t] \in {"unlock_objs", "release_cur", "release_prev", "load"}
    BY <1>9 DEF ReaderUnlock, CommitUnlock, Abort, SyncCall
  <2>2. ws_writer_locks' = ws_writer_locks /\ obj_write_set' = obj_write_set
    BY <1>9 DEF ReaderUnlock, CommitUnlock, Abort
  <2>3. ws_tail_counter'[t] \in Nat /\ (ws_tail_counter'[t] - 1 \in Nat \/ pc'[t] # "release_prev")
    BY <1>9 DEF ReaderUnlock, CommitUnlock, Abort, SyncCall
  <2>4. i[t] = 0
    BY <2>1
  <2>5. /\ Len(obj_write_set[t][WS_INDEX(ws_tail_counter'[t])]) \in Nat
        /\ Len(ws_writer_locks[t][WS_INDEX(ws_tail_counter'[t])]) \in Nat
        /\ pc'[t] = "release_prev" =>
              Len(ws_writer_locks[t][WS_INDEX(ws_tail_counter'[t] - 1)]) \in Nat
    <3> DEFINE m == ws_tail_counter'[t]
    <3>1. m \in Nat /\ (pc'[t] = "release_prev" => m - 1 \in Nat)
      BY <2>3
    <3> HIDE DEF m
    <3>2. Len(WriteSet(t, m)) \in Nat /\ Len(ws_writer_locks[t][WS_INDEX(m)]) \in Nat
      BY <3>1, LenTypes
    <3>3. pc'[t] = "release_prev" => Len(ws_writer_locks[t][WS_INDEX(m - 1)]) \in Nat
      BY <3>1, LenTypes
    <3> QED
      BY <3>2, <3>3 DEF m
  <2> QED
    BY <2>1, <2>2, <2>4, <2>5
<1>10. CASE UnlockObjs(t)
  <2>1. Len(WriteSet(t, ws_tail_counter[t])) \in Nat
    BY LogTypes, SlotIndex
  <2>2. Len(ws_writer_locks[t][WS_INDEX(ws_tail_counter[t])]) \in Nat
    BY LogTypes, SlotIndex
  <2> QED
    BY <1>10, <2>1, <2>2 DEF UnlockObjs
<1>11. CASE ReleaseWriterLock(t)
  <2>1. Len(ws_writer_locks[t][ReleaseSlot(t)]) \in Nat
    <3>1. ws_tail_counter[t] \in Nat /\ (pc[t] = "release_prev" => ws_tail_counter[t] - 1 \in Nat)
      BY DEF RingOf
    <3> QED
      BY <3>1, LenTypes
  <2> QED
    BY <1>11, <2>1 DEF ReleaseWriterLock
<1>12. CASE ReleaseEnd(t)
  BY <1>12 DEF ReleaseEnd, Checkpoint, SyncCall
<1>13. CASE SyncLoad(t) \/ SyncStore(t) \/ SyncBump(t) \/ Scan(t) \/ ScanEnd(t) \/ Wait(t)
  BY <1>13 DEF SyncLoad, SyncStore, SyncBump, Scan, ScanEnd, Wait
<1>14. CASE ResetWriteSets(t)
  <2>1. /\ pc[t] = "reset" /\ pc'[t] = "writeback" /\ i[t] = 0 /\ i'[t] = 0
        /\ ws_counter'[t] = ws_wb_counter[t] /\ ws_tail_counter' = ws_tail_counter
    BY <1>14 DEF ResetWriteSets
  <2>2. ASSUME ws_wb_counter[t] < ws_tail_counter[t]
        PROVE  0 < Len(obj_write_set'[t][WS_INDEX(ws_wb_counter[t])])
    <3>1. ws_wb_counter[t] \in ws_head_counter[t] .. ws_tail_counter[t] - 1
      BY <2>2 DEF RingOf
    <3>2. obj_write_set[t][WS_INDEX(ws_wb_counter[t])] # <<>>
      BY <3>1 DEF SlotsOf
    <3>3. obj_write_set'[t][WS_INDEX(ws_wb_counter[t])] = obj_write_set[t][WS_INDEX(ws_wb_counter[t])]
      <4>1. ws_wb_counter[t] \in ws_wb_counter[t] .. ws_tail_counter[t] - 1
        BY <2>2
      <4> QED
        BY <1>14, <4>1, ResetSlots
    <3> QED
      BY <3>2, <3>3, LogTypes, SlotIndex
  <2> QED
    BY <2>1, <2>2
<1>15. CASE Writeback(t)
  BY <1>15 DEF Writeback
<1>16. CASE Unlock(t)
  <2>1. ws_counter[t] < ws_tail_counter[t] /\ i[t] < Len(WriteSet(t, ws_counter[t]))
    BY <1>16 DEF Unlock, RingOf
  <2>2. Len(WriteSet(t, ws_counter[t])) \in Nat
    BY LogTypes, SlotIndex
  <2>3. ws_counter[t] + 1 < ws_tail_counter[t] =>
            0 < Len(obj_write_set[t][WS_INDEX(ws_counter[t] + 1)])
    <3>1. ASSUME ws_counter[t] + 1 < ws_tail_counter[t]
          PROVE  obj_write_set[t][WS_INDEX(ws_counter[t] + 1)] # <<>>
      <4>1. ws_counter[t] + 1 \in ws_head_counter[t] .. ws_tail_counter[t] - 1
        BY <1>16, <3>1 DEF Unlock, RingOf
      <4> QED
        BY <4>1 DEF SlotsOf
    <3> QED
      BY <3>1, LogTypes, SlotIndex
  <2>4. /\ pc'[t] = "writeback" /\ ws_tail_counter' = ws_tail_counter
        /\ obj_write_set' = obj_write_set
    BY <1>16 DEF Unlock
  <2>5. CASE i[t] + 1 = Len(WriteSet(t, ws_counter[t]))
    <3>1. i'[t] = 0 /\ ws_counter'[t] = ws_counter[t] + 1
      BY <1>16, <2>5 DEF Unlock
    <3> QED
      BY <2>3, <2>4, <3>1
  <2>6. CASE i[t] + 1 # Len(WriteSet(t, ws_counter[t]))
    <3>1. i'[t] = i[t] + 1 /\ ws_counter'[t] = ws_counter[t]
      BY <1>16, <2>6 DEF Unlock
    <3> QED
      BY <2>1, <2>2, <2>4, <2>6, <3>1
  <2> QED
    BY <2>5, <2>6
<1>17. CASE SyncUnstamp(t) \/ SyncCommit(t)
  BY <1>17 DEF SyncUnstamp, SyncCommit
<1>18. CASE SyncEnd(t)
  <2>1. i'[t] = 0 /\ pc'[t] \in Returns /\ UNCHANGED <<ws_tail_counter, ws_writer_locks>>
    BY <1>18 DEF SyncEnd
  <2>2. pc'[t] = "release_prev" => ws_tail_counter[t] - 1 \in Nat
    BY <1>18 DEF SyncEnd, RingOf, Syncing, SyncLabels
  <2>3. pc'[t] = "release_prev" =>
            Len(ws_writer_locks[t][WS_INDEX(ws_tail_counter[t] - 1)]) \in Nat
    BY <2>2, LogTypes, SlotIndex
  <2> QED
    BY <2>1, <2>3 DEF Returns
<1> QED
  BY <1>1, <1>2, <1>3, <1>4, <1>5, <1>6, <1>7, <1>8, <1>9, <1>10, <1>11, <1>12,
     <1>13, <1>14, <1>15, <1>16, <1>17, <1>18
  DEF Thread, Begin, Access, End, Sync

LEMMA RingInit == Init => Ring
<1> SUFFICES ASSUME Init, NEW t \in Threads PROVE RingPart(t)
  BY DEF Ring, RingPart
<1>1. pc[t] \in {"idle", "new"}
  BY DEF Init
<1>2. WsCurId(t) \in Slots
  BY SlotIndex DEF Init, WsCurId
<1> QED
  BY <1>1, <1>2, WriteSetsAssumption DEF Init, RingPart, RingOf, SlotsOf, DetectedOf, LoopOf,
     Syncing, SyncLabels, BackLabels, LoopLabels, InSection, Releasing

LEMMA RingStep ==
    ASSUME TypeInv, Ring, NEW t \in Threads, Thread(t)
    PROVE  Ring'
<1>1. ASSUME NEW u \in Threads PROVE RingPart(u)'
  <2>1. CASE u = t
    BY <2>1, RingOfStep, SlotsOfStep, DetectedOfStep, LoopOfStep DEF Ring, RingPart
  <2>2. CASE u # t
    BY <2>2, Others, RingSame DEF Ring, RingPart
  <2> QED
    BY <2>1, <2>2
<1> QED
  BY <1>1 DEF Ring, RingPart

LEMMA RingStays == TypeInv /\ Ring /\ [Next]_vars => Ring'
<1> SUFFICES ASSUME TypeInv, Ring, [Next]_vars PROVE Ring'
  OBVIOUS
<1>1. CASE UNCHANGED vars \/ Terminated
  BY <1>1 DEF Terminated, Ring, RingOf, SlotsOf, DetectedOf, LoopOf, Syncing, Open,
     InSection, WriteSet, WsCurId, NextCopy, Releasing, ReleaseSlot
<1> QED
  BY <1>1, RingStep DEF Next

\* The counters of the write-set ring, its empty slots and the loops over it, for
\* every thread, through commits, deferral, write-back and abort.
THEOREM RingInvariant == Spec => [](TypeInv /\ Ring)
BY RingStays, TypeInit, TypeStep, RingInit, PTL DEF Spec

\* The ring has a free slot for every section, which finds it empty, and it never
\* catches up with the write-sets whose copies may still be read, however the
\* write-backs are deferred (rlu_commit_write_set's assertions, rlu.c:608-609).
THEOREM RingNeverFull == Spec => []CurrentSlotFree
<1>1. TypeInv /\ Ring => CurrentSlotFree
  <2> SUFFICES ASSUME TypeInv, Ring, NEW t \in Threads
               PROVE  /\ ws_head_counter[t] <= ws_wb_counter[t]
                      /\ ws_wb_counter[t] <= ws_tail_counter[t]
                      /\ pc[t] \in {"release_prev", "idle", "register", "section"} =>
                            ws_tail_counter[t] - ws_head_counter[t] < RLU_MAX_WRITE_SETS
                      /\ pc[t] = "release_prev" =>
                            ws_head_counter[t] < ws_tail_counter[t]
                      /\ pc[t] \in {"idle", "register"} =>
                            WriteSet(t, ws_tail_counter[t]) = <<>>
    BY DEF CurrentSlotFree
  <2>1. RingOf(t) /\ SlotsOf(t)
    BY DEF Ring
  <2>2. /\ ws_head_counter[t] <= ws_wb_counter[t] /\ ws_wb_counter[t] <= ws_tail_counter[t]
        /\ ~Syncing(t) => ws_tail_counter[t] - ws_head_counter[t] < RLU_MAX_WRITE_SETS
        /\ pc[t] = "release_prev" => ws_head_counter[t] < ws_tail_counter[t]
    BY <2>1, CounterTypes, WriteSetsAssumption DEF RingOf
  <2>3. ASSUME pc[t] \in {"idle", "register"} PROVE WriteSet(t, ws_tail_counter[t]) = <<>>
    <3>1. /\ ~Syncing(t) /\ ~Open(t) /\ WsCurId(t) \in Slots
          /\ WsCurId(t) = WS_INDEX(ws_tail_counter[t])
      BY <2>3, CounterTypes, SlotIndex DEF Syncing, SyncLabels, Open, InSection, WsCurId
    <3>2. \A n \in ws_head_counter[t] .. ws_tail_counter[t] - 1 : WS_INDEX(n) # WsCurId(t)
      BY <2>1, <3>1, Window
    <3> QED
      BY <2>1, <3>1, <3>2 DEF SlotsOf, WriteSet
  <2>4. pc[t] \in {"release_prev", "idle", "register", "section"} => ~Syncing(t)
    BY DEF Syncing, SyncLabels
  <2> QED
    BY <2>2, <2>3, <2>4
<1> QED
  BY <1>1, RingInvariant, PTL

-----------------------------------------------------------------------------
(* The locks of the objects.  Most steps leave alone which copies are live, *)
(* and what they are copies of.                                             *)

LockInv == Owned /\ Locking

LEMMA CopyTypes ==
    ASSUME TypeInv
    PROVE  /\ p_obj_copy \in [Objs -> Addr \cup {NULL}]
           /\ cur_obj \in [Threads -> Objs \cup {NULL}]
           /\ cur_copy \in [Threads -> Addr \cup {NULL}]
           /\ \A c \in Addr : c.th \in Threads /\ c # NULL
           /\ \A u \in Threads : pc[u] \in {"steal", "cas", "copy"} =>
                 cur_obj[u] \in Objs /\ cur_copy[u] \in Addr
BY AddressesAssumption DEF TypeInv, TypeOK, GlobalTypes, ClientTypes, CallTyped, Addr

LEMMA CopyAtTyped ==
    ASSUME NEW t \in Threads, NEW n \in Nat, NEW k \in Nat \ {0}
    PROVE  CopyAt(t, n, k) \in Addr
BY SlotIndex DEF CopyAt, Addr

LEMMA LiveEntry ==
    ASSUME TypeInv, Ring, NEW t \in Threads, NEW n, NEW k, Live(t, n, k)
    PROVE  /\ n \in Nat /\ k \in Nat \ {0}
           /\ k \in DOMAIN WriteSet(t, n)
           /\ WriteSet(t, n)[k] \in Entry /\ WriteSet(t, n)[k].obj \in Objs
           /\ ws_wb_counter[t] <= n /\ n <= ws_tail_counter[t]
           /\ CopyAt(t, n, k) \in Addr /\ CopyAt(t, n, k) # NULL
<1>1. n \in Nat /\ k \in Nat \ {0} /\ k <= Len(WriteSet(t, n))
  BY DEF Live
<1>2. WriteSet(t, n) \in Seq(Entry)
  BY <1>1, LenTypes
<1>3. k \in DOMAIN WriteSet(t, n) /\ WriteSet(t, n)[k] \in Entry
  BY <1>1, <1>2
<1>4. ws_wb_counter[t] <= n /\ n <= ws_tail_counter[t]
  BY <1>1, CounterTypes DEF Live, First, Ring, RingOf
<1>5. CopyAt(t, n, k) \in Addr
  BY <1>1, CopyAtTyped
<1> QED
  BY <1>1, <1>3, <1>4, <1>5, CopyTypes DEF Entry

\* The write-sets of live copies have different slots.
LEMMA LiveSlots ==
    ASSUME TypeInv, Ring, NEW t \in Threads,
           NEW n1 \in Nat, NEW n2 \in Nat,
           ws_wb_counter[t] <= n1, n1 <= ws_tail_counter[t],
           ws_wb_counter[t] <= n2, n2 <= ws_tail_counter[t],
           WS_INDEX(n1) = WS_INDEX(n2)
    PROVE  n1 = n2
<1>1. /\ n1 - n2 < RLU_MAX_WRITE_SETS /\ n2 - n1 < RLU_MAX_WRITE_SETS
  BY CounterTypes, WriteSetsAssumption DEF Ring, RingOf
<1>2. ~(n1 < n2) /\ ~(n2 < n1)
  BY <1>1, SlotsDiffer
<1> QED
  BY <1>2

LEMMA LiveSame ==
    ASSUME NEW u \in Threads, Same(u)
    PROVE  /\ \A n, k \in Nat : Live(u, n, k)' <=> Live(u, n, k)
           /\ \A n : WriteSet(u, n)' = WriteSet(u, n)
           /\ \A o, c : Installing(u, o, c)' <=> Installing(u, o, c)
<1>1. \A n : WriteSet(u, n)' = WriteSet(u, n)
  BY DEF Same, WriteSet
<1>2. InSection(u)' <=> InSection(u)
  BY DEF Same, InSection
<1> QED
  BY <1>1, <1>2 DEF Same, Live, First, Installing

\* The same copies of t are live after the step, and they are the same.
Keeps(t) ==
    \A n, k \in Nat : /\ Live(t, n, k)' <=> Live(t, n, k)
                      /\ Live(t, n, k) => WriteSet(t, n)'[k] = WriteSet(t, n)[k]

\* The step installs no copy.
Stays(t) == UNCHANGED p_obj_copy /\ pc[t] # "copy" /\ pc'[t] # "copy"

LEMMA LiveQuiet ==
    ASSUME NEW t \in Threads,
           UNCHANGED <<ws_wb_counter, ws_tail_counter, ws_counter, obj_write_set>>,
           pc[t] \in BackLabels <=> pc'[t] \in BackLabels,
           InSection(t) <=> InSection(t)',
           pc[t] = "unlock_objs" <=> pc'[t] = "unlock_objs",
           i'[t] = i[t] \/ pc[t] \notin BackLabels \cup {"unlock_objs"}
    PROVE  /\ \A n, k \in Nat : Live(t, n, k)' <=> Live(t, n, k)
           /\ \A n : WriteSet(t, n)' = WriteSet(t, n)
<1>1. \A n : WriteSet(t, n)' = WriteSet(t, n)
  BY DEF WriteSet
<1> QED
  BY <1>1 DEF Live, First

LEMMA LockQuiet ==
    ASSUME TypeInv, Ring, LockInv, NEW t \in Threads,
           Stays(t), Keeps(t), \A u \in Threads \ {t} : Same(u)
    PROVE  LockInv'
<1> USE DEF Stays
<1>1. \A u \in Threads : \A n, k \in Nat :
          /\ Live(u, n, k)' <=> Live(u, n, k)
          /\ Live(u, n, k) => WriteSet(u, n)'[k] = WriteSet(u, n)[k]
  <2> SUFFICES ASSUME NEW u \in Threads, NEW n \in Nat, NEW k \in Nat
               PROVE  /\ Live(u, n, k)' <=> Live(u, n, k)
                      /\ Live(u, n, k) => WriteSet(u, n)'[k] = WriteSet(u, n)[k]
    OBVIOUS
  <2>1. CASE u = t
    BY <2>1 DEF Keeps
  <2>2. CASE u # t
    BY <2>2, LiveSame
  <2> QED
    BY <2>1, <2>2
<1>2. \A u \in Threads : \A o, c : Installing(u, o, c)' <=> Installing(u, o, c)
  <2> SUFFICES ASSUME NEW u \in Threads, NEW o, NEW c
               PROVE  Installing(u, o, c)' <=> Installing(u, o, c)
    OBVIOUS
  <2>1. CASE u = t
    BY <2>1 DEF Installing
  <2>2. CASE u # t
    BY <2>2, LiveSame
  <2> QED
    BY <2>1, <2>2
<1>3. Owned'
  <2> SUFFICES ASSUME NEW o \in Objs, NEW c \in Addr, p_obj_copy[o] = c
               PROVE  OwnedBy(o, c)'
    BY DEF Owned
  <2>1. c.th \in Threads /\ OwnedBy(o, c)
    BY CopyTypes DEF LockInv, Owned
  <2> QED
    BY <1>1, <1>2, <2>1 DEF OwnedBy, CopyAt
<1>4. Locking'
  <2>1. ASSUME NEW u \in Threads, NEW n \in Nat, NEW k \in Nat, Live(u, n, k)'
        PROVE  p_obj_copy'[WriteSet(u, n)'[k].obj] = CopyAt(u, n, k)
    BY <1>1, <2>1 DEF LockInv, Locking
  <2>2. ASSUME NEW u \in Threads, pc'[u] = "copy"
        PROVE  p_obj_copy'[cur_obj'[u]] = cur_copy'[u]
    BY <2>2 DEF LockInv, Locking, Same
  <2> QED
    BY <2>1, <2>2 DEF Locking, CopyAt
<1> QED
  BY <1>3, <1>4 DEF LockInv

LEMMA Address ==
    ASSUME NEW t1, NEW n1, NEW k1, NEW t2, NEW n2, NEW k2,
           CopyAt(t1, n1, k1) = CopyAt(t2, n2, k2)
    PROVE  t1 = t2 /\ WS_INDEX(n1) = WS_INDEX(n2) /\ k1 = k2
BY DEF CopyAt

\* A thread installs copies of its own only.
LEMMA InstallsOwn ==
    ASSUME TypeInv, Ring, NEW u \in Threads, pc[u] \in {"cas", "copy"}
    PROVE  /\ cur_copy[u].th = u
           /\ cur_copy[u] = CopyAt(u, ws_tail_counter[u], Len(WriteSet(u, ws_tail_counter[u])) + 1)
BY DEF Ring, DetectedOf, NextCopy, CopyAt, WsCurId

LEMMA LockCas ==
    ASSUME TypeInv, Ring, LockInv, NEW t \in Threads, TryLockCas(t),
           \A u \in Threads \ {t} : Same(u)
    PROVE  LockInv'
<1> DEFINE o0 == cur_obj[t]
           c0 == cur_copy[t]
<1>1. /\ o0 \in Objs /\ c0 \in Addr /\ c0 # NULL /\ c0.th = t /\ pc[t] = "cas"
  BY CopyTypes, InstallsOwn DEF TryLockCas
<1>2. \A n, k \in Nat : /\ Live(t, n, k)' <=> Live(t, n, k)
                        /\ WriteSet(t, n)' = WriteSet(t, n)
  BY CounterTypes, LiveQuiet DEF TryLockCas, Goto, BackLabels, InSection
<1>3. CASE p_obj_copy[o0] # NULL
  <2>1. Stays(t)
    BY <1>1, <1>3, CounterTypes DEF TryLockCas, Goto, Stays
  <2>2. Keeps(t)
    BY <1>2 DEF Keeps
  <2> QED
    BY <2>1, <2>2, LockQuiet
<1>4. CASE p_obj_copy[o0] = NULL
  <2>1. /\ p_obj_copy' = [p_obj_copy EXCEPT ![o0] = c0]
        /\ pc'[t] = "copy" /\ UNCHANGED <<cur_obj, cur_copy>>
    BY <1>4, CounterTypes DEF TryLockCas, Goto
  <2>2. /\ p_obj_copy'[o0] = c0
        /\ \A o \in Objs \ {o0} : p_obj_copy'[o] = p_obj_copy[o]
    BY <1>1, <2>1, CopyTypes
  <2>3. \A u \in Threads : \A n, k \in Nat : /\ Live(u, n, k)' <=> Live(u, n, k)
                                             /\ WriteSet(u, n)' = WriteSet(u, n)
    <3> SUFFICES ASSUME NEW u \in Threads, NEW n \in Nat, NEW k \in Nat
                 PROVE  /\ Live(u, n, k)' <=> Live(u, n, k)
                        /\ WriteSet(u, n)' = WriteSet(u, n)
      OBVIOUS
    <3>1. CASE u = t
      BY <3>1, <1>2
    <3>2. CASE u # t
      BY <3>2, LiveSame
    <3> QED
      BY <3>1, <3>2
  <2>4. ASSUME NEW o \in Objs, NEW c \in Addr, p_obj_copy'[o] = c
        PROVE  OwnedBy(o, c)'
    <3>1. CASE o = o0
      BY <3>1, <1>1, <2>1, <2>2, <2>4 DEF OwnedBy, Installing
    <3>2. CASE o # o0
      <4>1. c.th \in Threads /\ OwnedBy(o, c)
        BY <3>2, <2>2, <2>4, CopyTypes DEF LockInv, Owned
      <4>2. Installing(c.th, o, c) => Installing(c.th, o, c)'
        <5>1. ASSUME Installing(c.th, o, c) PROVE c.th # t
          BY <5>1, <1>1 DEF Installing
        <5> QED
          BY <5>1, <4>1, LiveSame
      <4> QED
        BY <4>1, <4>2, <2>3 DEF OwnedBy, CopyAt
    <3> QED
      BY <3>1, <3>2
  <2>5. ASSUME NEW u \in Threads, NEW n \in Nat, NEW k \in Nat, Live(u, n, k)
        PROVE  p_obj_copy'[WriteSet(u, n)[k].obj] = CopyAt(u, n, k)
    <3>1. p_obj_copy[WriteSet(u, n)[k].obj] = CopyAt(u, n, k)
      BY <2>5 DEF LockInv, Locking
    <3>2. CopyAt(u, n, k) # NULL /\ WriteSet(u, n)[k].obj \in Objs
      BY <2>5, LiveEntry
    <3> QED
      BY <3>1, <3>2, <1>4, <2>2
  <2>6. ASSUME NEW u \in Threads, pc'[u] = "copy"
        PROVE  p_obj_copy'[cur_obj'[u]] = cur_copy'[u]
    <3>1. CASE u = t
      BY <3>1, <2>1, <2>2
    <3>2. CASE u # t
      <4>1. pc[u] = "copy"
        BY <3>2, <2>6 DEF Same
      <4>2. p_obj_copy[cur_obj[u]] = cur_copy[u] /\ cur_obj[u] \in Objs /\ cur_copy[u] # NULL
        BY <4>1, CopyTypes DEF LockInv, Locking
      <4> QED
        BY <4>2, <1>4, <2>1, <2>2
    <3> QED
      BY <3>1, <3>2
  <2> HIDE DEF o0, c0
  <2>7. Owned'
    BY <2>4 DEF Owned
  <2>8. Locking'
    BY <2>3, <2>5, <2>6 DEF Locking, CopyAt
  <2> QED
    BY <2>7, <2>8 DEF LockInv
<1> QED
  BY <1>3, <1>4

\* The copy that was being installed is live from now on.
LEMMA LiveCopied ==
    ASSUME TypeInv, Ring, NEW t \in Threads, TryLockCopy(t),
           NEW tail \in Nat, tail = ws_tail_counter[t],
           NEW last \in Nat, last = Len(WriteSet(t, tail)) + 1
    PROVE  /\ Live(t, tail, last)'
           /\ WriteSet(t, tail)'[last] = NewEntry(t)
           /\ \A n, k \in Nat :
                 /\ Live(t, n, k)' <=> Live(t, n, k) \/ (n = tail /\ k = last)
                 /\ Live(t, n, k) => WriteSet(t, n)'[k] = WriteSet(t, n)[k]
<1>1. /\ WriteSet(t, tail) \in Seq(Entry) /\ last \in Nat
      /\ WsCurId(t) = WS_INDEX(tail)
  BY CounterTypes, LenTypes DEF WsCurId
<1>2. /\ WriteSet(t, tail)' = Append(WriteSet(t, tail), NewEntry(t))
      /\ NewEntry(t) \in Entry
  BY <1>1, CopiedEntry DEF TryLockCopy, WriteSet
<1>3. /\ Len(WriteSet(t, tail)') = last /\ WriteSet(t, tail)'[last] = NewEntry(t)
      /\ \A k \in 1 .. last - 1 : WriteSet(t, tail)'[k] = WriteSet(t, tail)[k]
  BY <1>1, <1>2
<1>4. ASSUME NEW n \in Nat, ws_wb_counter[t] <= n, n < tail
      PROVE  WriteSet(t, n)' = WriteSet(t, n)
  <2>1. n \in ws_head_counter[t] .. ws_tail_counter[t] - 1
    BY <1>1, <1>4, CounterTypes DEF Ring, RingOf
  <2>2. ~Syncing(t) /\ RingOf(t)
    BY DEF TryLockCopy, Syncing, SyncLabels, Ring
  <2>3. WS_INDEX(n) # WsCurId(t) /\ WS_INDEX(n) \in Slots
    BY <2>1, <2>2, Window, LenTypes
  <2> QED
    BY <2>3, CopiedEntry DEF WriteSet
<1>5. /\ pc[t] = "copy" /\ pc'[t] = "section"
      /\ ws_wb_counter'[t] = ws_wb_counter[t] /\ ws_tail_counter'[t] = tail
  BY CounterTypes DEF TryLockCopy, Goto
<1>6. ws_wb_counter[t] \in Nat /\ ws_wb_counter[t] <= tail
  BY CounterTypes DEF Ring, RingOf
<1>7. ASSUME NEW n \in Nat, NEW k \in Nat
      PROVE  /\ Live(t, n, k)' <=> Live(t, n, k) \/ (n = tail /\ k = last)
             /\ Live(t, n, k) => WriteSet(t, n)'[k] = WriteSet(t, n)[k]
  <2>1. /\ Live(t, n, k) <=> (k > 0 /\ ws_wb_counter[t] <= n /\ n <= tail
                                /\ k <= Len(WriteSet(t, n)))
        /\ Live(t, n, k)' <=> (k > 0 /\ ws_wb_counter[t] <= n /\ n <= tail
                                 /\ k <= Len(WriteSet(t, n)'))
    BY <1>5 DEF Live, First, BackLabels, InSection
  <2>2. CASE n = tail
    <3>1. last = Len(WriteSet(t, n)) + 1 /\ Len(WriteSet(t, n)) \in Nat
      BY <2>2, <1>1
    <3>2. Len(WriteSet(t, n)') = last
          /\ \A j \in 1 .. last - 1 : WriteSet(t, n)'[j] = WriteSet(t, n)[j]
      BY <2>2, <1>3
    <3> QED
      BY <2>1, <2>2, <3>1, <3>2, <1>6
  <2>3. CASE n # tail
    <3>1. Live(t, n, k) \/ Live(t, n, k)' => WriteSet(t, n)' = WriteSet(t, n)
      BY <2>1, <2>3, <1>1, <1>4
    <3> QED
      BY <2>1, <2>3, <3>1
  <2> QED
    BY <2>2, <2>3
<1>8. Live(t, tail, last)'
  BY <1>7
<1> QED
  BY <1>3, <1>7, <1>8

LEMMA LockCopied ==
    ASSUME TypeInv, Ring, LockInv, NEW t \in Threads, TryLockCopy(t),
           \A u \in Threads \ {t} : Same(u)
    PROVE  LockInv'
<1>0. PICK tail \in Nat : tail = ws_tail_counter[t]
  BY CounterTypes
<1>a. PICK last \in Nat : last = Len(WriteSet(t, tail)) + 1
  BY <1>0, LenTypes
<1>b. PICK o0 \in Objs : o0 = cur_obj[t]
  BY CopyTypes DEF TryLockCopy
<1>1. /\ cur_copy[t] = CopyAt(t, tail, last) /\ p_obj_copy[o0] = CopyAt(t, tail, last)
      /\ pc[t] = "copy" /\ pc'[t] = "section" /\ UNCHANGED p_obj_copy
  BY <1>0, <1>a, <1>b, CounterTypes, InstallsOwn DEF TryLockCopy, Goto, LockInv, Locking
<1>2. /\ Live(t, tail, last)' /\ WriteSet(t, tail)'[last].obj = o0
      /\ \A n, k \in Nat :
            /\ Live(t, n, k)' <=> Live(t, n, k) \/ (n = tail /\ k = last)
            /\ Live(t, n, k) => WriteSet(t, n)'[k] = WriteSet(t, n)[k]
  <2>1. /\ Live(t, tail, last)' /\ WriteSet(t, tail)'[last] = NewEntry(t)
        /\ \A n, k \in Nat :
              /\ Live(t, n, k)' <=> Live(t, n, k) \/ (n = tail /\ k = last)
              /\ Live(t, n, k) => WriteSet(t, n)'[k] = WriteSet(t, n)[k]
    BY <1>0, <1>a, LiveCopied
  <2>2. NewEntry(t).obj = o0
    BY <1>b DEF NewEntry
  <2> QED
    BY <2>1, <2>2
<1>3. ASSUME NEW o \in Objs, NEW c \in Addr, p_obj_copy[o] = c
      PROVE  OwnedBy(o, c)'
  <2>1. c.th \in Threads /\ OwnedBy(o, c)
    BY <1>3, CopyTypes DEF LockInv, Owned
  <2>3. CASE c.th # t
    BY <2>1, <2>3, LiveSame DEF OwnedBy, CopyAt
  <2>4. CASE c.th = t /\ Installing(c.th, o, c)
    <3>1. c = CopyAt(t, tail, last) /\ o = o0
      BY <2>4, <1>1, <1>b DEF Installing
    <3> QED
      BY <3>1, <2>4, <1>2 DEF OwnedBy, CopyAt
  <2>5. CASE c.th = t /\ ~Installing(c.th, o, c)
    BY <2>1, <2>5, <1>2 DEF OwnedBy, CopyAt
  <2> QED
    BY <2>3, <2>4, <2>5
<1>4. ASSUME NEW u \in Threads, NEW n \in Nat, NEW k \in Nat, Live(u, n, k)'
      PROVE  p_obj_copy[WriteSet(u, n)'[k].obj] = CopyAt(u, n, k)
  <2>1. CASE u # t
    BY <2>1, <1>4, LiveSame DEF LockInv, Locking
  <2>2. CASE u = t /\ n = tail /\ k = last
    BY <2>2, <1>1, <1>2
  <2>3. CASE u = t /\ ~(n = tail /\ k = last)
    BY <2>3, <1>2, <1>4 DEF LockInv, Locking
  <2> QED
    BY <2>1, <2>2, <2>3
<1>5. ASSUME NEW u \in Threads, pc'[u] = "copy"
      PROVE  p_obj_copy[cur_obj'[u]] = cur_copy'[u]
  BY <1>1, <1>5 DEF Same, LockInv, Locking
<1>6. Owned'
  BY <1>1, <1>3 DEF Owned
<1>7. Locking'
  BY <1>1, <1>4, <1>5 DEF Locking, CopyAt
<1> QED
  BY <1>6, <1>7 DEF LockInv

\* UNLOCK of one object: its copy is no longer live, the others stay.
Dropped(t, n0, k0) ==
    \A n, k \in Nat : Live(t, n, k)' <=> Live(t, n, k) /\ ~(n = n0 /\ k = k0)

Drops(t, n0, k0) ==
    /\ Live(t, n0, k0) /\ Dropped(t, n0, k0)
    /\ p_obj_copy' = [p_obj_copy EXCEPT ![WriteSet(t, n0)[k0].obj] = NULL]
    /\ UNCHANGED obj_write_set /\ pc[t] # "copy" /\ pc'[t] # "copy"

LEMMA LockDrop ==
    ASSUME TypeInv, Ring, LockInv, NEW t \in Threads, NEW n0 \in Nat, NEW k0 \in Nat,
           Drops(t, n0, k0), \A u \in Threads \ {t} : Same(u)
    PROVE  LockInv'
<1>0. PICK o0 \in Objs : o0 = WriteSet(t, n0)[k0].obj
  BY LiveEntry DEF Drops
<1> USE <1>0 DEF Drops
<1>1. /\ p_obj_copy'[o0] = NULL /\ p_obj_copy[o0] = CopyAt(t, n0, k0)
      /\ \A o \in Objs \ {o0} : p_obj_copy'[o] = p_obj_copy[o]
  BY CopyTypes DEF LockInv, Locking
<1>2. ASSUME NEW u \in Threads, NEW n \in Nat, NEW k \in Nat
      PROVE  /\ Live(u, n, k)' <=> Live(u, n, k) /\ ~(u = t /\ n = n0 /\ k = k0)
             /\ WriteSet(u, n)' = WriteSet(u, n)
  <2>1. CASE u = t
    BY <2>1 DEF Dropped, WriteSet
  <2>2. CASE u # t
    BY <2>2, LiveSame
  <2> QED
    BY <2>1, <2>2
<1>3. ASSUME NEW o \in Objs, NEW c \in Addr, p_obj_copy'[o] = c
      PROVE  OwnedBy(o, c)'
  <2>1. o # o0 /\ c.th \in Threads /\ p_obj_copy[o] = c /\ OwnedBy(o, c)
    BY <1>1, <1>3, CopyTypes DEF LockInv, Owned
  <2>2. CASE Installing(c.th, o, c)
    <3>1. c.th # t
      BY <2>2 DEF Installing
    <3> QED
      BY <2>1, <2>2, <3>1, LiveSame DEF OwnedBy
  <2>3. CASE ~Installing(c.th, o, c)
    <3>1. PICK n \in Nat, k \in Nat : /\ Live(c.th, n, k) /\ c = CopyAt(c.th, n, k)
                                      /\ WriteSet(c.th, n)[k].obj = o
      BY <2>1, <2>3 DEF OwnedBy
    <3>2. ~(c.th = t /\ n = n0 /\ k = k0)
      BY <2>1, <3>1
    <3>3. Live(c.th, n, k)' /\ WriteSet(c.th, n)' = WriteSet(c.th, n)
      BY <1>2, <2>1, <3>1, <3>2
    <3> QED
      BY <3>1, <3>3 DEF OwnedBy, CopyAt
  <2> QED
    BY <2>2, <2>3
<1>4. ASSUME NEW u \in Threads, NEW n \in Nat, NEW k \in Nat, Live(u, n, k)'
      PROVE  p_obj_copy'[WriteSet(u, n)'[k].obj] = CopyAt(u, n, k)
  <2>1. Live(u, n, k) /\ ~(u = t /\ n = n0 /\ k = k0) /\ WriteSet(u, n)' = WriteSet(u, n)
    BY <1>2, <1>4
  <2>2. p_obj_copy[WriteSet(u, n)[k].obj] = CopyAt(u, n, k) /\ WriteSet(u, n)[k].obj \in Objs
    BY <2>1, LiveEntry DEF LockInv, Locking
  <2>3. ASSUME WriteSet(u, n)[k].obj = o0 PROVE FALSE
    <3>1. u = t /\ WS_INDEX(n) = WS_INDEX(n0) /\ k = k0
      BY <1>1, <2>2, <2>3, Address
    <3>2. /\ ws_wb_counter[t] <= n /\ n <= ws_tail_counter[t]
          /\ ws_wb_counter[t] <= n0 /\ n0 <= ws_tail_counter[t]
      BY <2>1, <3>1, LiveEntry
    <3>3. n = n0
      BY <3>1, <3>2, LiveSlots
    <3> QED
      BY <2>1, <3>1, <3>3
  <2> QED
    BY <1>1, <2>1, <2>2, <2>3
<1>5. ASSUME NEW u \in Threads, pc'[u] = "copy"
      PROVE  p_obj_copy'[cur_obj'[u]] = cur_copy'[u]
  <2>1. u # t /\ pc[u] = "copy" /\ cur_obj'[u] = cur_obj[u] /\ cur_copy'[u] = cur_copy[u]
    BY <1>5 DEF Same
  <2>2. /\ p_obj_copy[cur_obj[u]] = cur_copy[u] /\ cur_obj[u] \in Objs
        /\ cur_copy[u].th = u
    BY <2>1, CopyTypes, InstallsOwn DEF LockInv, Locking
  <2>3. cur_obj[u] # o0
    BY <1>1, <2>1, <2>2 DEF CopyAt
  <2> QED
    BY <1>1, <2>1, <2>2, <2>3
<1>6. Owned'
  BY <1>3 DEF Owned
<1>7. Locking'
  BY <1>4, <1>5 DEF Locking, CopyAt
<1> QED
  BY <1>6, <1>7 DEF LockInv

LEMMA UnlockObjsDrops ==
    ASSUME TypeInv, Ring, NEW t \in Threads, UnlockObjs(t)
    PROVE  \/ Stays(t) /\ Keeps(t)
           \/ \E k \in Nat : Drops(t, ws_tail_counter[t], k)
<1>1. PICK tail \in Nat, j \in Nat : tail = ws_tail_counter[t] /\ j = i[t]
  BY CounterTypes
<1>2. /\ \A n : WriteSet(t, n)' = WriteSet(t, n)
      /\ UNCHANGED obj_write_set
      /\ ws_tail_counter' = ws_tail_counter /\ ws_wb_counter' = ws_wb_counter
      /\ pc[t] = "unlock_objs"
  BY DEF UnlockObjs, WriteSet
<1>3. /\ Len(WriteSet(t, tail)) \in Nat /\ ws_wb_counter[t] \in Nat
      /\ ws_wb_counter[t] <= tail
  BY <1>1, LenTypes, CounterTypes DEF Ring, RingOf
<1>4. CASE j < Len(WriteSet(t, tail))
  <2>1. Live(t, tail, j + 1)
    BY <1>1, <1>2, <1>3, <1>4 DEF Live, First, BackLabels
  <2>2. PICK o0 \in Objs : o0 = WriteSet(t, tail)[j + 1].obj
    BY <2>1, LiveEntry
  <2>3. /\ p_obj_copy' = [p_obj_copy EXCEPT ![o0] = NULL]
        /\ pc'[t] = "unlock_objs" /\ i'[t] = j + 1
    BY <1>1, <1>4, <2>2, CounterTypes DEF UnlockObjs
  <2>4. Dropped(t, tail, j + 1)
    <3> SUFFICES ASSUME NEW n \in Nat, NEW k \in Nat
                 PROVE  Live(t, n, k)' <=> Live(t, n, k) /\ ~(n = tail /\ k = j + 1)
      BY DEF Dropped
    <3>1. Live(t, n, k) <=> /\ k > 0 /\ ws_wb_counter[t] <= n /\ n <= tail
                            /\ k <= Len(WriteSet(t, n)) /\ (n = tail => k > j)
      BY <1>1, <1>2 DEF Live, First, BackLabels
    <3>2. Live(t, n, k)' <=> /\ k > 0 /\ ws_wb_counter[t] <= n /\ n <= tail
                             /\ k <= Len(WriteSet(t, n)) /\ (n = tail => k > j + 1)
      BY <1>1, <1>2, <2>3 DEF Live, First, BackLabels
    <3> QED
      BY <3>1, <3>2
  <2>5. j + 1 \in Nat /\ pc[t] # "copy" /\ pc'[t] # "copy" /\ UNCHANGED obj_write_set
    BY <1>2, <2>3
  <2> QED
    BY <1>1, <2>1, <2>2, <2>3, <2>4, <2>5 DEF Drops
<1>5. CASE ~(j < Len(WriteSet(t, tail)))
  <2>1. pc'[t] = "release_cur" /\ UNCHANGED p_obj_copy
    BY <1>1, <1>5, CounterTypes DEF UnlockObjs, Goto
  <2>2. ASSUME NEW n \in Nat, NEW k \in Nat PROVE Live(t, n, k)' <=> Live(t, n, k)
    <3>1. Live(t, n, k) <=> /\ k > 0 /\ ws_wb_counter[t] <= n /\ n <= tail
                            /\ k <= Len(WriteSet(t, n)) /\ (n = tail => k > j)
      BY <1>1, <1>2 DEF Live, First, BackLabels
    <3>2. Live(t, n, k)' <=> /\ k > 0 /\ ws_wb_counter[t] <= n /\ n <= tail
                             /\ k <= Len(WriteSet(t, n)) /\ n # tail
      BY <1>1, <1>2, <2>1 DEF Live, First, BackLabels, InSection
    <3> QED
      BY <3>1, <3>2, <1>3, <1>5
  <2>3. Stays(t)
    BY <1>2, <2>1 DEF Stays
  <2>4. Keeps(t)
    BY <1>2, <2>2 DEF Keeps
  <2> QED
    BY <2>3, <2>4
<1> QED
  BY <1>4, <1>5

LEMMA UnlockDrops ==
    ASSUME TypeInv, Ring, NEW t \in Threads, Unlock(t)
    PROVE  Drops(t, ws_counter[t], i[t] + 1) /\ ws_counter[t] < ws_tail_counter[t]
<1>1. PICK tail \in Nat, j \in Nat, m \in Nat :
          tail = ws_tail_counter[t] /\ j = i[t] /\ m = ws_counter[t]
  BY CounterTypes
<1>2. /\ \A n : WriteSet(t, n)' = WriteSet(t, n)
      /\ UNCHANGED obj_write_set
      /\ ws_tail_counter'[t] = tail
      /\ pc[t] = "unlock" /\ pc'[t] = "writeback"
  BY <1>1, CounterTypes DEF Unlock, WriteSet, Goto
<1>3. /\ m < tail /\ j < Len(WriteSet(t, m)) /\ Len(WriteSet(t, m)) \in Nat
  BY <1>1, <1>2, LenTypes DEF Ring, RingOf, LoopOf, BackLabels
<1>4. Live(t, m, j + 1)
  BY <1>1, <1>2, <1>3 DEF Live, First, BackLabels
<1>5. PICK o0 \in Objs : o0 = WriteSet(t, m)[j + 1].obj
  BY <1>4, LiveEntry
<1>6. p_obj_copy' = [p_obj_copy EXCEPT ![o0] = NULL]
  BY <1>1, <1>5 DEF Unlock
<1>7. \/ j + 1 = Len(WriteSet(t, m)) /\ i'[t] = 0 /\ ws_counter'[t] = m + 1
      \/ j + 1 # Len(WriteSet(t, m)) /\ i'[t] = j + 1 /\ ws_counter'[t] = m
  BY <1>1, CounterTypes DEF Unlock
<1>8. Dropped(t, m, j + 1)
  <2> SUFFICES ASSUME NEW n \in Nat, NEW k \in Nat
               PROVE  Live(t, n, k)' <=> Live(t, n, k) /\ ~(n = m /\ k = j + 1)
    BY DEF Dropped
  <2>1. Live(t, n, k) <=> /\ k > 0 /\ m <= n /\ n < tail
                          /\ k <= Len(WriteSet(t, n)) /\ (n = m => k > j)
    BY <1>1, <1>2 DEF Live, First, BackLabels, InSection
  <2>2. Live(t, n, k)' <=> /\ k > 0 /\ ws_counter'[t] <= n /\ n < tail
                           /\ k <= Len(WriteSet(t, n)) /\ (n = ws_counter'[t] => k > i'[t])
    BY <1>1, <1>2 DEF Live, First, BackLabels, InSection
  <2>3. CASE j + 1 = Len(WriteSet(t, m)) /\ i'[t] = 0 /\ ws_counter'[t] = m + 1
    <3>1. CASE n = m
      BY <2>1, <2>2, <2>3, <3>1
    <3>2. CASE n # m
      BY <2>1, <2>2, <2>3, <3>2
    <3> QED
      BY <3>1, <3>2
  <2>4. CASE j + 1 # Len(WriteSet(t, m)) /\ i'[t] = j + 1 /\ ws_counter'[t] = m
    BY <2>1, <2>2, <2>4
  <2> QED
    BY <1>7, <2>3, <2>4
<1>9. j + 1 \in Nat /\ pc[t] # "copy" /\ pc'[t] # "copy" /\ UNCHANGED obj_write_set
  BY <1>2
<1> QED
  BY <1>1, <1>3, <1>4, <1>5, <1>6, <1>8, <1>9 DEF Drops

\* The steps that change neither the write-sets nor what locks an object.
Quiet(t) ==
    /\ UNCHANGED <<p_obj_copy, ws_wb_counter, ws_tail_counter, ws_counter, obj_write_set>>
    /\ pc[t] \in BackLabels <=> pc'[t] \in BackLabels
    /\ InSection(t) <=> InSection(t)'
    /\ pc[t] = "unlock_objs" <=> pc'[t] = "unlock_objs"
    /\ i'[t] = i[t] \/ pc[t] \notin BackLabels \cup {"unlock_objs"}
    /\ pc[t] # "copy" /\ pc'[t] # "copy"

LEMMA QuietKeeps ==
    ASSUME TypeInv, Ring, NEW t \in Threads, Quiet(t)
    PROVE  Stays(t) /\ Keeps(t)
<1>1. /\ \A n, k \in Nat : Live(t, n, k)' <=> Live(t, n, k)
      /\ \A n : WriteSet(t, n)' = WriteSet(t, n)
  BY LiveQuiet DEF Quiet
<1>2. Keeps(t)
  BY <1>1 DEF Keeps
<1> QED
  BY <1>2 DEF Quiet, Stays

LEMMA QuietSteps ==
    ASSUME TypeInv, Ring, NEW t \in Threads, Thread(t)
    PROVE  \/ Quiet(t)
           \/ TryLockCas(t) \/ TryLockCopy(t) \/ UnlockObjs(t) \/ Unlock(t)
           \/ ReadVersion(t) \/ ReaderUnlock(t) \/ CommitUnlock(t) \/ Abort(t)
           \/ ReleaseEnd(t) \/ ResetWriteSets(t) \/ Writeback(t) \/ SyncUnstamp(t)
<1> USE CounterTypes DEF Quiet, Goto, BackLabels, InSection
<1>1. CASE ThreadInit(t) \/ ThreadPublish(t) \/ SyncCheckpoint(t)
  BY <1>1 DEF ThreadInit, ThreadPublish, SyncCheckpoint, Checkpoint, SyncCall
<1>2. CASE ThreadFinish(t) \/ ThreadFinish2(t)
  BY <1>2 DEF ThreadFinish, ThreadFinish2, SyncCall
<1>3. CASE ReaderLock(t) \/ Register(t) \/ ReadCommitVersion(t)
  BY <1>3 DEF ReaderLock, Register, ReadCommitVersion, Checkpoint, SyncCall
<1>4. CASE Steal(t) \/ SendSyncRequest(t)
  BY <1>4 DEF Steal, SendSyncRequest
<1>5. ASSUME NEW o \in Objs, Deref(t, o) \/ DerefLocked(t, o) PROVE Quiet(t)
  BY <1>5 DEF Deref, DerefLocked
<1>6. ASSUME NEW o \in Objs, TryLock(t, o) \/ TryLockOwn(t, o) \/ TryLockFail(t, o)
      PROVE  Quiet(t)
  BY <1>6 DEF TryLock, TryLockOwn, TryLockFail, MayLock
<1>7. ASSUME NEW l \in WriterLocks, TryWriterLock(t, l) PROVE Quiet(t)
  BY <1>7 DEF TryWriterLock
<1>8. CASE ReleaseWriterLock(t)
  BY <1>8 DEF ReleaseWriterLock, Releasing
<1>9. CASE SyncLoad(t) \/ SyncStore(t) \/ SyncBump(t) \/ Scan(t) \/ ScanEnd(t) \/ Wait(t)
  BY <1>9 DEF SyncLoad, SyncStore, SyncBump, Scan, ScanEnd, Wait
<1>10. CASE SyncCommit(t) \/ SyncEnd(t)
  BY <1>10 DEF SyncCommit, SyncEnd, Returns
<1> QED
  BY <1>1, <1>2, <1>3, <1>4, <1>5, <1>6, <1>7, <1>8, <1>9, <1>10
  DEF Thread, Begin, Access, End, Sync

\* A section finds its write-set empty.
LEMMA EmptyAtStart ==
    ASSUME TypeInv, Ring, NEW t \in Threads, ~Syncing(t), ~Open(t)
    PROVE  WriteSet(t, ws_tail_counter[t]) = <<>>
<1>1. /\ WsCurId(t) \in Slots /\ WsCurId(t) = WS_INDEX(ws_tail_counter[t])
      /\ RingOf(t) /\ SlotsOf(t)
  BY CounterTypes, SlotIndex DEF WsCurId, Ring
<1>2. \A n \in ws_head_counter[t] .. ws_tail_counter[t] - 1 : WS_INDEX(n) # WsCurId(t)
  BY <1>1, Window
<1> QED
  BY <1>1, <1>2 DEF SlotsOf, WriteSet

\* A section starts or ends: its own write-set is empty, or goes on being live.
LEMMA BoundaryKeeps ==
    ASSUME TypeInv, Ring, NEW t \in Threads,
           ReadVersion(t) \/ ReaderUnlock(t) \/ CommitUnlock(t) \/ Abort(t)
    PROVE  Stays(t) /\ Keeps(t)
<1>1. PICK tail \in Nat : tail = ws_tail_counter[t]
  BY CounterTypes
<1>2. /\ UNCHANGED <<p_obj_copy, obj_write_set, ws_wb_counter, ws_counter, i>>
      /\ pc[t] \in {"version", "section", "failed"}
      /\ pc'[t] \in {"commit_version", "release_cur", "release_prev", "load", "unlock_objs"}
  BY CounterTypes DEF ReadVersion, ReaderUnlock, CommitUnlock, Abort, Goto, SyncCall
<1>3. \A n : WriteSet(t, n)' = WriteSet(t, n)
  BY <1>2 DEF WriteSet
<1>4. i[t] = 0
  BY <1>2 DEF Ring, LoopOf, LoopLabels
<1>5. ASSUME NEW n \in Nat, NEW k \in Nat PROVE Live(t, n, k)' <=> Live(t, n, k)
  <2>1. Live(t, n, k) <=> /\ k > 0 /\ ws_wb_counter[t] <= n /\ n <= tail
                          /\ k <= Len(WriteSet(t, n))
                          /\ n = tail => pc[t] # "version"
    BY <1>1, <1>2 DEF Live, First, BackLabels, InSection
  <2>2. CASE CommitUnlock(t)
    <3>1. /\ ws_tail_counter'[t] = tail + 1 /\ pc[t] = "section"
          /\ pc'[t] \in {"release_prev", "load"}
      BY <1>1, <2>2, CounterTypes DEF CommitUnlock, SyncCall, Goto
    <3>2. Live(t, n, k)' <=> /\ k > 0 /\ ws_wb_counter[t] <= n /\ n <= tail
                             /\ k <= Len(WriteSet(t, n))
      BY <1>2, <1>3, <3>1 DEF Live, First, BackLabels, InSection
    <3> QED
      BY <2>1, <3>1, <3>2
  <2>3. CASE Abort(t) /\ is_write_detected[t]
    <3>1. /\ ws_tail_counter'[t] = tail /\ pc'[t] = "unlock_objs" /\ pc[t] = "failed"
      BY <1>1, <2>3, CounterTypes DEF Abort, Goto
    <3>2. Live(t, n, k)' <=> /\ k > 0 /\ ws_wb_counter[t] <= n /\ n <= tail
                             /\ k <= Len(WriteSet(t, n))
      BY <1>2, <1>3, <1>4, <3>1 DEF Live, First, BackLabels, InSection
    <3> QED
      BY <2>1, <3>1, <3>2
  <2>4. CASE ReadVersion(t) \/ ReaderUnlock(t) \/ (Abort(t) /\ ~is_write_detected[t])
    <3>1. WriteSet(t, tail) = <<>>
      <4>1. CASE ReadVersion(t)
        <5>1. ~Syncing(t) /\ ~Open(t)
          BY <4>1 DEF ReadVersion, Syncing, SyncLabels, Open, InSection
        <5> QED
          BY <1>1, <5>1, EmptyAtStart
      <4>2. CASE ReaderUnlock(t) \/ (Abort(t) /\ ~is_write_detected[t])
        BY <1>1, <4>2 DEF ReaderUnlock, Abort, Ring, DetectedOf, InSection
      <4> QED
        BY <2>4, <4>1, <4>2
    <3>2. /\ ws_tail_counter'[t] = tail
          /\ pc'[t] \in {"commit_version", "release_cur"}
      BY <1>1, <2>4, CounterTypes DEF ReadVersion, ReaderUnlock, Abort, Goto
    <3>3. Live(t, n, k)' <=> /\ k > 0 /\ ws_wb_counter[t] <= n /\ n <= tail
                             /\ k <= Len(WriteSet(t, n))
                             /\ n = tail => pc'[t] = "commit_version"
      BY <1>2, <1>3, <3>2 DEF Live, First, BackLabels, InSection
    <3>4. n = tail => Len(WriteSet(t, n)) = 0
      BY <3>1
    <3> QED
      BY <2>1, <3>3, <3>4
  <2> QED
    BY <2>2, <2>3, <2>4
<1>6. UNCHANGED p_obj_copy /\ pc[t] # "copy" /\ pc'[t] # "copy"
  BY <1>2
<1> QED
  BY <1>3, <1>5, <1>6 DEF Stays, Keeps

\* The slot that the end of a section empties holds no live copy, nor do those
\* that a synchronisation takes out of the ring.
LEMMA ReleaseEndKeeps ==
    ASSUME TypeInv, Ring, NEW t \in Threads, ReleaseEnd(t)
    PROVE  Stays(t) /\ Keeps(t)
<1>1. PICK tail \in Nat : tail = ws_tail_counter[t]
  BY CounterTypes
<1>2. /\ UNCHANGED <<p_obj_copy, ws_wb_counter, ws_tail_counter>>
      /\ pc[t] \in {"release_cur", "release_prev"} /\ pc'[t] \in {"idle", "load"}
  BY CounterTypes DEF ReleaseEnd, Releasing, Checkpoint, SyncCall, Goto
<1>3. ASSUME NEW n \in Nat, ws_wb_counter[t] <= n, n < tail
      PROVE  WriteSet(t, n)' = WriteSet(t, n)
  <2>1. CASE pc[t] = "release_cur"
    <3>1. obj_write_set' = [obj_write_set EXCEPT ![t][WsCurId(t)] = <<>>]
      BY <2>1 DEF ReleaseEnd, ReleaseSlot, WsCurId
    <3>2. n \in ws_head_counter[t] .. ws_tail_counter[t] - 1 /\ RingOf(t) /\ ~Syncing(t)
      BY <1>1, <1>2, <1>3, CounterTypes DEF Ring, RingOf, Syncing, SyncLabels
    <3>3. WS_INDEX(n) # WsCurId(t) /\ WS_INDEX(n) \in Slots
      BY <3>2, Window, LenTypes
    <3>4. obj_write_set'[t][WS_INDEX(n)] = obj_write_set[t][WS_INDEX(n)]
      BY <3>1, <3>3, LogTypes
    <3> QED
      BY <3>4 DEF WriteSet
  <2>2. CASE pc[t] # "release_cur"
    BY <2>2 DEF ReleaseEnd, WriteSet
  <2> QED
    BY <2>1, <2>2
<1>4. ASSUME NEW n \in Nat, NEW k \in Nat
      PROVE  /\ Live(t, n, k) <=> /\ k > 0 /\ ws_wb_counter[t] <= n /\ n < tail
                                  /\ k <= Len(WriteSet(t, n))
             /\ Live(t, n, k)' <=> /\ k > 0 /\ ws_wb_counter[t] <= n /\ n < tail
                                   /\ k <= Len(WriteSet(t, n)')
  BY <1>1, <1>2 DEF Live, First, BackLabels, InSection
<1>5. ASSUME NEW n \in Nat, NEW k \in Nat PROVE Live(t, n, k)' <=> Live(t, n, k)
  BY <1>3, <1>4
<1>6. ASSUME NEW n \in Nat, NEW k \in Nat, Live(t, n, k)
      PROVE  WriteSet(t, n)'[k] = WriteSet(t, n)[k]
  BY <1>3, <1>4, <1>6
<1>7. UNCHANGED p_obj_copy /\ pc[t] # "copy" /\ pc'[t] # "copy"
  BY <1>2
<1> QED
  BY <1>5, <1>6, <1>7 DEF Stays, Keeps

LEMMA ResetKeeps ==
    ASSUME TypeInv, Ring, NEW t \in Threads, ResetWriteSets(t)
    PROVE  Stays(t) /\ Keeps(t)
<1>1. PICK tail \in Nat, wb \in Nat : tail = ws_tail_counter[t] /\ wb = ws_wb_counter[t]
  BY CounterTypes
<1>2. /\ UNCHANGED <<p_obj_copy, ws_wb_counter, ws_tail_counter, i>>
      /\ pc[t] = "reset" /\ pc'[t] = "writeback" /\ ws_counter'[t] = wb
  BY <1>1, CounterTypes DEF ResetWriteSets, Goto
<1>3. i[t] = 0
  BY <1>2 DEF Ring, LoopOf, LoopLabels
<1>4. ASSUME NEW n \in Nat, wb <= n, n < tail
      PROVE  WriteSet(t, n)' = WriteSet(t, n)
  <2>1. n \in ws_wb_counter[t] .. ws_tail_counter[t] - 1 /\ RingPart(t)
    BY <1>1, <1>4 DEF Ring, RingPart
  <2> QED
    BY <2>1, ResetSlots DEF WriteSet
<1>5. ASSUME NEW n \in Nat, NEW k \in Nat
      PROVE  /\ Live(t, n, k) <=> /\ k > 0 /\ wb <= n /\ n < tail
                                  /\ k <= Len(WriteSet(t, n))
             /\ Live(t, n, k)' <=> /\ k > 0 /\ wb <= n /\ n < tail
                                   /\ k <= Len(WriteSet(t, n)')
  BY <1>1, <1>2, <1>3 DEF Live, First, BackLabels, InSection
<1>6. ASSUME NEW n \in Nat, NEW k \in Nat PROVE Live(t, n, k)' <=> Live(t, n, k)
  BY <1>4, <1>5
<1>7. ASSUME NEW n \in Nat, NEW k \in Nat, Live(t, n, k)
      PROVE  WriteSet(t, n)'[k] = WriteSet(t, n)[k]
  BY <1>4, <1>5, <1>7
<1>8. UNCHANGED p_obj_copy /\ pc[t] # "copy" /\ pc'[t] # "copy"
  BY <1>2
<1> QED
  BY <1>6, <1>7, <1>8 DEF Stays, Keeps

LEMMA UnstampKeeps ==
    ASSUME TypeInv, Ring, NEW t \in Threads, SyncUnstamp(t)
    PROVE  Stays(t) /\ Keeps(t)
<1>1. /\ UNCHANGED <<p_obj_copy, obj_write_set, ws_tail_counter>>
      /\ pc[t] = "writeback" /\ pc'[t] = "commit"
      /\ ws_counter[t] = ws_tail_counter[t] /\ ws_wb_counter'[t] = ws_tail_counter[t]
  BY CounterTypes DEF SyncUnstamp, Goto
<1>2. ASSUME NEW n \in Nat, NEW k \in Nat PROVE ~Live(t, n, k) /\ ~Live(t, n, k)'
  BY <1>1, CounterTypes DEF Live, First, BackLabels, InSection
<1>3. pc[t] # "copy" /\ pc'[t] # "copy" /\ UNCHANGED p_obj_copy
  BY <1>1
<1> QED
  BY <1>2, <1>3 DEF Stays, Keeps

LEMMA LockInit == Init => LockInv
<1> SUFFICES ASSUME Init PROVE LockInv
  OBVIOUS
<1>1. \A o \in Objs : p_obj_copy[o] \notin Addr
  BY AddressesAssumption DEF Init
<1>2. ASSUME NEW t \in Threads
      PROVE  /\ pc[t] \in {"idle", "new"} /\ ws_tail_counter[t] = 0 /\ ws_wb_counter[t] = 0
  BY <1>2 DEF Init
<1>3. ASSUME NEW t \in Threads, NEW n \in Nat, NEW k \in Nat PROVE ~Live(t, n, k)
  BY <1>2 DEF Live, First, BackLabels, InSection
<1> QED
  BY <1>1, <1>2, <1>3 DEF LockInv, Owned, Locking

LEMMA LogSteps ==
    ASSUME TypeInv, Ring, NEW t \in Threads, Thread(t)
    PROVE  \/ Stays(t) /\ Keeps(t)
           \/ TryLockCas(t) \/ TryLockCopy(t) \/ UnlockObjs(t) \/ Unlock(t)
<1>1. ASSUME Writeback(t) PROVE Quiet(t)
  BY <1>1, CounterTypes DEF Writeback, Quiet, Goto, BackLabels, InSection
<1> QED
  BY <1>1, QuietSteps, QuietKeeps, BoundaryKeeps, ReleaseEndKeeps, ResetKeeps, UnstampKeeps

LEMMA LocksStep ==
    ASSUME TypeInv, Ring, LockInv, NEW t \in Threads, Thread(t)
    PROVE  LockInv'
<1>1. \A u \in Threads \ {t} : Same(u)
  BY Others
<1>2. CASE TryLockCas(t) \/ TryLockCopy(t)
  BY <1>1, <1>2, LockCas, LockCopied
<1>3. CASE UnlockObjs(t)
  BY <1>1, <1>3, UnlockObjsDrops, LockDrop, LockQuiet, CounterTypes
<1>4. CASE Unlock(t)
  <2>1. PICK n \in Nat, k \in Nat : n = ws_counter[t] /\ k = i[t] + 1
    BY CounterTypes
  <2> QED
    BY <1>1, <1>4, <2>1, UnlockDrops, LockDrop
<1> QED
  BY <1>1, <1>2, <1>3, <1>4, LogSteps, LockQuiet

LogInv == TypeInv /\ Ring /\ LockInv

LEMMA LogStays == LogInv /\ [Next]_vars => LogInv'
<1> SUFFICES ASSUME LogInv, [Next]_vars PROVE LogInv'
  OBVIOUS
<1>1. ASSUME UNCHANGED vars \/ Terminated PROVE LockInv'
  BY <1>1 DEF LogInv, Terminated, LockInv, Owned, Locking, OwnedBy, Installing, Live, First,
     InSection, WriteSet, CopyAt
<1>2. LockInv'
  BY <1>1, LocksStep DEF Next, LogInv
<1> QED
  BY <1>2, TypeStep, RingStays DEF LogInv

\* Headers and logs agree: what the CAS of rlu_try_lock installs, the write-back
\* and the roll-back take away, copy by copy.
THEOREM LockInvariant == Spec => []LogInv
<1>1. Init => LogInv
  BY TypeInit, RingInit, LockInit DEF LogInv
<1> QED
  BY <1>1, LogStays, PTL DEF Spec

LEMMA LiveCopy ==
    ASSUME TypeInv, Ring, NEW t \in Threads, NEW c
    PROVE  c \in LiveCopies(t) <=> \E n, k \in Nat : Live(t, n, k) /\ c = CopyAt(t, n, k)
<1>1. PICK tail \in Nat, wb \in Nat, m \in Nat, j \in Nat :
          tail = ws_tail_counter[t] /\ wb = ws_wb_counter[t] /\ m = ws_counter[t] /\ j = i[t]
  BY CounterTypes
<1> DEFINE back  == pc[t] \in {"writeback", "unlock"}
           abort == pc[t] = "unlock_objs"
           first == IF back THEN m ELSE wb
           last  == tail - (IF InSection(t) \/ abort THEN 0 ELSE 1)
           gone(n) == IF (back /\ n = first) \/ (abort /\ n = last) THEN j ELSE 0
           copies(n) == {[th |-> t, ws |-> WS_INDEX(n), ix |-> k] :
                            k \in gone(n) + 1 .. Len(WriteSet(t, n))}
<1>2. LiveCopies(t) = UNION {copies(n) : n \in first .. last}
  BY <1>1 DEF LiveCopies
<1>3. first \in Nat /\ last \in Int /\ \A n \in Nat : Len(WriteSet(t, n)) \in Nat
  BY <1>1, LenTypes
<1>4. ASSUME NEW n \in Nat, NEW k \in Nat
      PROVE  Live(t, n, k) <=> n \in first .. last /\ k \in gone(n) + 1 .. Len(WriteSet(t, n))
  <2>1. Len(WriteSet(t, n)) \in Nat
    BY <1>3
  <2>2. CASE back
    BY <1>1, <2>1, <2>2 DEF Live, First, BackLabels, InSection
  <2>3. CASE abort
    BY <1>1, <2>1, <2>3 DEF Live, First, BackLabels, InSection
  <2>4. CASE ~back /\ ~abort /\ InSection(t)
    BY <1>1, <2>1, <2>4 DEF Live, First, BackLabels
  <2>5. CASE ~back /\ ~abort /\ ~InSection(t)
    BY <1>1, <2>1, <2>5 DEF Live, First, BackLabels
  <2> QED
    BY <2>2, <2>3, <2>4, <2>5
<1>5. ASSUME NEW n \in first .. last, NEW k \in gone(n) + 1 .. Len(WriteSet(t, n))
      PROVE  n \in Nat /\ k \in Nat
  <2>1. n \in Nat
    BY <1>3
  <2>2. gone(n) \in Nat /\ Len(WriteSet(t, n)) \in Nat
    BY <1>1, <1>3, <2>1
  <2> HIDE DEF gone
  <2> QED
    BY <2>1, <2>2
<1> HIDE DEF first, last, gone
<1>6. c \in LiveCopies(t) <=> \E n \in first .. last :
          \E k \in gone(n) + 1 .. Len(WriteSet(t, n)) : c = CopyAt(t, n, k)
  BY <1>2 DEF CopyAt
<1> QED
  BY <1>4, <1>5, <1>6

\* The lock of an object and the log of its owner agree: p_obj_copy points to the
\* one copy that is not written back or rolled back, if there is one, however
\* commits, aborts and deferred write-backs of several threads interleave
\* (rlu.c:345, 405, 927).
THEOREM LockOwned == Spec => []LockOwnership
<1>1. LogInv => LockOwnership
  <2> SUFFICES ASSUME LogInv PROVE LockOwnership
    OBVIOUS
  <2>1. ASSUME NEW o \in Objs, p_obj_copy[o] # NULL
        PROVE  LET c == p_obj_copy[o]
               IN  \/ pc[c.th] = "copy" /\ cur_obj[c.th] = o /\ cur_copy[c.th] = c
                   \/ c \in LiveCopies(c.th)
    <3>1. PICK c \in Addr : c = p_obj_copy[o]
      BY <2>1, CopyTypes DEF LogInv
    <3>2. OwnedBy(o, c) /\ c.th \in Threads
      BY <3>1, CopyTypes DEF LogInv, LockInv, Owned
    <3>3. Installing(c.th, o, c) \/ c \in LiveCopies(c.th)
      BY <3>2, LiveCopy DEF LogInv, OwnedBy
    <3> QED
      BY <3>1, <3>3 DEF Installing
  <2>2. ASSUME NEW t \in Threads, NEW c \in LiveCopies(t)
        PROVE  p_obj_copy[At(c).obj] = c
    <3>1. PICK n \in Nat, k \in Nat : Live(t, n, k) /\ c = CopyAt(t, n, k)
      BY LiveCopy DEF LogInv
    <3>2. At(c) = WriteSet(t, n)[k]
      BY <3>1 DEF At, CopyAt, WriteSet
    <3> QED
      BY <3>1, <3>2 DEF LogInv, LockInv, Locking
  <2> QED
    BY <2>1, <2>2 DEF LockOwnership
<1> QED
  BY <1>1, LockInvariant, PTL

\* Only the end of a synchronisation clears is_sync.
LEMMA RequestSteps ==
    ASSUME TypeInv, NEW t \in Threads, Thread(t), ~SyncEnd(t), NEW u \in Threads, is_sync[u]
    PROVE  is_sync'[u]
<1>0. is_sync \in [Threads -> BOOLEAN]
  BY DEF TypeInv, TypeOK, PeerTypes
<1>1. CASE ThreadInit(t) \/ ThreadPublish(t) \/ SyncCheckpoint(t) \/ ThreadFinish(t) \/ ThreadFinish2(t)
  BY <1>1 DEF ThreadInit, ThreadPublish, SyncCheckpoint, ThreadFinish, ThreadFinish2, peerVars
<1>2. CASE Begin(t)
  BY <1>2 DEF Begin, ReaderLock, Register, ReadVersion, ReadCommitVersion, peerVars
<1>3. CASE Steal(t) \/ TryLockCas(t) \/ TryLockCopy(t)
  BY <1>3 DEF Steal, TryLockCas, TryLockCopy, peerVars
<1>4. CASE SendSyncRequest(t)
  BY <1>0, <1>4 DEF SendSyncRequest
<1>5. ASSUME NEW o \in Objs, Deref(t, o) \/ DerefLocked(t, o) \/ TryLock(t, o) \/ TryLockOwn(t, o)
      PROVE  is_sync'[u]
  BY <1>5 DEF Deref, DerefLocked, TryLock, TryLockOwn, peerVars
<1>6. ASSUME NEW o \in Objs, TryLockFail(t, o) PROVE is_sync'[u]
  BY <1>0, <1>6 DEF TryLockFail
<1>7. ASSUME NEW l \in WriterLocks, TryWriterLock(t, l) PROVE is_sync'[u]
  BY <1>7 DEF TryWriterLock, peerVars
<1>8. CASE End(t)
  BY <1>8 DEF End, ReaderUnlock, CommitUnlock, Abort, UnlockObjs, ReleaseWriterLock, ReleaseEnd,
     peerVars
<1>9. CASE Sync(t)
  BY <1>9 DEF Sync, SyncLoad, SyncStore, SyncBump, Scan, ScanEnd, Wait, ResetWriteSets,
     Writeback, Unlock, SyncUnstamp, SyncCommit, peerVars
<1> QED
  BY <1>1, <1>2, <1>3, <1>4, <1>5, <1>6, <1>7, <1>8, <1>9 DEF Thread, Access

\* A request to synchronise, sent at any time after the header was read, is not
\* erased while its receiver holds a lock, be it one of a deferred write-set: it
\* stands until a synchronisation that unlocks everything is over (rlu.c:580).
THEOREM RequestsStand == Spec => RequestsHonoured
<1>1. ASSUME LogInv, NEW t \in Threads, pc[t] = "sync_end",
             NEW o \in Objs, p_obj_copy[o] # NULL, p_obj_copy[o].th = t
      PROVE  FALSE
  <2>0. TypeInv /\ Ring /\ ws_wb_counter[t] = ws_tail_counter[t] /\ ws_tail_counter[t] \in Nat
    BY <1>1, CounterTypes DEF LogInv, Ring, RingOf
  <2>1. PICK c \in Addr : p_obj_copy[o] = c
    BY <1>1, <2>0, CopyTypes
  <2>2. OwnedBy(o, c) /\ c.th = t /\ ~Installing(t, o, c)
    BY <1>1, <2>1 DEF LogInv, LockInv, Owned, Installing
  <2>3. PICK n \in Nat, k \in Nat : Live(t, n, k)
    BY <2>2 DEF OwnedBy
  <2>4. ws_wb_counter[t] <= n /\ n <= ws_tail_counter[t] /\ n # ws_tail_counter[t]
    BY <1>1, <2>0, <2>3, LiveEntry DEF Live, InSection
  <2> QED
    BY <2>0, <2>4
<1>2. ASSUME LogInv, [Next]_vars, NEW t \in Threads, is_sync[t], ~is_sync'[t],
             NEW o \in Objs, p_obj_copy[o] # NULL
      PROVE  p_obj_copy[o].th # t
  <2>0. TypeInv /\ is_sync \in [Threads -> BOOLEAN]
    BY <1>2 DEF LogInv, TypeInv, TypeOK, PeerTypes
  <2>1. PICK u \in Threads : Thread(u)
    BY <1>2 DEF Next, Terminated, vars, peerVars
  <2>2. SyncEnd(u)
    BY <1>2, <2>0, <2>1, RequestSteps
  <2>3. pc[u] = "sync_end" /\ u = t
    BY <1>2, <2>0, <2>2 DEF SyncEnd
  <2> QED
    BY <1>1, <1>2, <2>3
<1>3. LogInv /\ [Next]_vars => [\A t \in Threads : (is_sync[t] /\ ~is_sync'[t])
          => \A o \in Objs : p_obj_copy[o] # NULL => p_obj_copy[o].th # t]_vars
  BY <1>2
<1> QED
  BY <1>3, LockInvariant, PTL DEF Spec, RequestsHonoured

-----------------------------------------------------------------------------
(* What the copies contain.  Only a commit and the memcpy of a write-back   *)
(* change the contents that are compared, and both concern objects that the *)
(* thread has locked.                                                       *)

ValueInv == LogInv /\ Values

LEMMA KeptSame ==
    ASSUME NEW u \in Threads, NEW n \in Nat, NEW k \in Nat, Kept(u, n, k), Same(u),
           NEW o, o = WriteSet(u, n)[k].obj,
           data'[o] = data[o], committed'[o] = committed[o]
    PROVE  Kept(u, n, k)'
<1>1. PICK e : e = WriteSet(u, n)[k]
  OBVIOUS
<1>2. WriteSet(u, n)'[k] = e
  BY <1>1, LiveSame
<1>3. (InSection(u)' <=> InSection(u)) /\ o = e.obj
  BY <1>1 DEF Same, InSection
<1>4. /\ n < ws_tail_counter[u] => committed[e.obj] = e.val
      /\ n = ws_tail_counter[u] => committed[e.obj] = data[e.obj]
      /\ n = ws_tail_counter[u] /\ InSection(u) =>
            e.val = data[e.obj] \cup {<<u, n_starts[u]>>} /\ e.run = run_counter[u]
      /\ pc[u] = "unlock" /\ n = ws_counter[u] /\ k = i[u] + 1 => data[e.obj] = e.val
  BY <1>1 DEF Kept
<1>5. /\ n < ws_tail_counter'[u] => committed'[e.obj] = e.val
      /\ n = ws_tail_counter'[u] => committed'[e.obj] = data'[e.obj]
      /\ n = ws_tail_counter'[u] /\ InSection(u)' =>
            e.val = data'[e.obj] \cup {<<u, n_starts'[u]>>} /\ e.run = run_counter'[u]
      /\ pc'[u] = "unlock" /\ n = ws_counter'[u] /\ k = i'[u] + 1 => data'[e.obj] = e.val
  BY <1>3, <1>4 DEF Same
<1> QED
  BY <1>2, <1>5 DEF Kept

\* The steps that neither start a section nor change the contents.
Calm(t) ==
    /\ UNCHANGED <<data, committed, ws_tail_counter>>
    /\ pc'[t] # "unlock"
    /\ InSection(t)' => /\ InSection(t)
                        /\ run_counter'[t] = run_counter[t] /\ n_starts'[t] = n_starts[t]

LEMMA CalmSteps ==
    ASSUME TypeInv, NEW t \in Threads, Thread(t)
    PROVE  Calm(t) \/ ReadVersion(t) \/ CommitUnlock(t) \/ Writeback(t)
<1> USE CounterTypes DEF Calm, Goto, InSection
<1>1. CASE ThreadInit(t) \/ ThreadPublish(t) \/ SyncCheckpoint(t)
  BY <1>1 DEF ThreadInit, ThreadPublish, SyncCheckpoint, Checkpoint, SyncCall
<1>2. CASE ThreadFinish(t) \/ ThreadFinish2(t)
  BY <1>2 DEF ThreadFinish, ThreadFinish2, SyncCall
<1>3. CASE ReaderLock(t) \/ Register(t) \/ ReadCommitVersion(t)
  BY <1>3 DEF ReaderLock, Register, ReadCommitVersion, Checkpoint, SyncCall
<1>4. CASE Steal(t) \/ TryLockCas(t) \/ TryLockCopy(t) \/ SendSyncRequest(t)
  BY <1>4 DEF Steal, TryLockCas, TryLockCopy, SendSyncRequest
<1>5. ASSUME NEW o \in Objs, Deref(t, o) \/ DerefLocked(t, o) PROVE Calm(t)
  BY <1>5 DEF Deref, DerefLocked
<1>6. ASSUME NEW o \in Objs, TryLock(t, o) \/ TryLockOwn(t, o) \/ TryLockFail(t, o)
      PROVE  Calm(t)
  BY <1>6 DEF TryLock, TryLockOwn, TryLockFail, MayLock
<1>7. ASSUME NEW l \in WriterLocks, TryWriterLock(t, l) PROVE Calm(t)
  BY <1>7 DEF TryWriterLock
<1>8. CASE ReaderUnlock(t) \/ Abort(t)
  BY <1>8 DEF ReaderUnlock, Abort
<1>9. CASE UnlockObjs(t) \/ ReleaseWriterLock(t) \/ ReleaseEnd(t)
  BY <1>9 DEF UnlockObjs, ReleaseWriterLock, ReleaseEnd, Releasing, Checkpoint, SyncCall
<1>10. CASE SyncLoad(t) \/ SyncStore(t) \/ SyncBump(t) \/ Scan(t) \/ ScanEnd(t) \/ Wait(t)
  BY <1>10 DEF SyncLoad, SyncStore, SyncBump, Scan, ScanEnd, Wait
<1>11. CASE ResetWriteSets(t) \/ Unlock(t)
  BY <1>11 DEF ResetWriteSets, Unlock
<1>12. CASE SyncUnstamp(t) \/ SyncCommit(t) \/ SyncEnd(t)
  BY <1>12 DEF SyncUnstamp, SyncCommit, SyncEnd, Returns
<1> QED
  BY <1>1, <1>2, <1>3, <1>4, <1>5, <1>6, <1>7, <1>8, <1>9, <1>10, <1>11, <1>12
  DEF Thread, Begin, Access, End, Sync

LEMMA KeptCalm ==
    ASSUME NEW t \in Threads, NEW n \in Nat, NEW k \in Nat, Kept(t, n, k), Calm(t),
           WriteSet(t, n)'[k] = WriteSet(t, n)[k]
    PROVE  Kept(t, n, k)'
<1>1. PICK e : e = WriteSet(t, n)[k]
  OBVIOUS
<1>2. WriteSet(t, n)'[k] = e
  BY <1>1
<1>4. /\ n < ws_tail_counter[t] => committed[e.obj] = e.val
      /\ n = ws_tail_counter[t] => committed[e.obj] = data[e.obj]
      /\ n = ws_tail_counter[t] /\ InSection(t) =>
            e.val = data[e.obj] \cup {<<t, n_starts[t]>>} /\ e.run = run_counter[t]
  BY <1>1 DEF Kept
<1>5. /\ n < ws_tail_counter'[t] => committed'[e.obj] = e.val
      /\ n = ws_tail_counter'[t] => committed'[e.obj] = data'[e.obj]
      /\ n = ws_tail_counter'[t] /\ InSection(t)' =>
            e.val = data'[e.obj] \cup {<<t, n_starts'[t]>>} /\ e.run = run_counter'[t]
      /\ pc'[t] # "unlock"
  BY <1>4 DEF Calm
<1> QED
  BY <1>2, <1>5 DEF Kept

\* An object has one live copy at most, and none while a copy is being installed.
LEMMA LiveUnique ==
    ASSUME LogInv, NEW t1 \in Threads, NEW n1 \in Nat, NEW k1 \in Nat, Live(t1, n1, k1),
           NEW t2 \in Threads, NEW n2 \in Nat, NEW k2 \in Nat, Live(t2, n2, k2),
           WriteSet(t1, n1)[k1].obj = WriteSet(t2, n2)[k2].obj
    PROVE  t1 = t2 /\ n1 = n2 /\ k1 = k2
<1>1. CopyAt(t1, n1, k1) = CopyAt(t2, n2, k2)
  BY DEF LogInv, LockInv, Locking
<1>2. t1 = t2 /\ WS_INDEX(n1) = WS_INDEX(n2) /\ k1 = k2
  BY <1>1, Address
<1>3. /\ ws_wb_counter[t1] <= n1 /\ n1 <= ws_tail_counter[t1]
      /\ ws_wb_counter[t1] <= n2 /\ n2 <= ws_tail_counter[t1]
  BY <1>2, LiveEntry DEF LogInv
<1> QED
  BY <1>2, <1>3, LiveSlots DEF LogInv

LEMMA LiveNotCopying ==
    ASSUME LogInv, NEW t \in Threads, NEW n \in Nat, NEW k \in Nat, Live(t, n, k),
           NEW u \in Threads, pc[u] = "copy"
    PROVE  cur_obj[u] # WriteSet(t, n)[k].obj
<1> SUFFICES ASSUME cur_obj[u] = WriteSet(t, n)[k].obj PROVE FALSE
  OBVIOUS
<1>1. PICK tail \in Nat : tail = ws_tail_counter[u]
  BY CounterTypes DEF LogInv
<1>2. PICK last \in Nat : last = Len(WriteSet(u, tail)) + 1
  BY <1>1, LenTypes DEF LogInv
<1>3. cur_copy[u] = CopyAt(u, tail, last)
  BY <1>1, <1>2, InstallsOwn DEF LogInv
<1>4. CopyAt(u, tail, last) = CopyAt(t, n, k)
  BY <1>3 DEF LogInv, LockInv, Locking
<1>5. u = t /\ WS_INDEX(tail) = WS_INDEX(n) /\ last = k
  BY <1>4, Address
<1>6. ws_wb_counter[t] <= n /\ n <= tail /\ ws_wb_counter[t] <= tail
  BY <1>1, <1>5, LiveEntry, CounterTypes DEF LogInv, Ring, RingOf
<1>7. n = tail
  BY <1>1, <1>5, <1>6, LiveSlots DEF LogInv
<1> QED
  BY <1>1, <1>2, <1>5, <1>7, LenTypes DEF Live, LogInv

LEMMA ValuesFrom ==
    ASSUME Values, NEW t \in Threads, \A u \in Threads \ {t} : Same(u),
           UNCHANGED <<data, committed>>,
           \A n, k \in Nat : Live(t, n, k)' => Kept(t, n, k)',
           \A o \in Objs : p_obj_copy'[o] = NULL => committed[o] = data[o],
           pc'[t] = "copy" => committed[cur_obj'[t]] = data[cur_obj'[t]]
    PROVE  Values'
<1>1. ASSUME NEW u \in Threads, NEW n \in Nat, NEW k \in Nat, Live(u, n, k)'
      PROVE  Kept(u, n, k)'
  <2>1. CASE u = t
    BY <1>1, <2>1
  <2>2. CASE u # t
    <3>1. Live(u, n, k) /\ Same(u)
      BY <1>1, <2>2, LiveSame
    <3>2. Kept(u, n, k)
      BY <3>1 DEF Values
    <3> QED
      BY <3>1, <3>2, KeptSame
  <2> QED
    BY <2>1, <2>2
<1>2. ASSUME NEW u \in Threads, pc'[u] = "copy"
      PROVE  committed'[cur_obj'[u]] = data'[cur_obj'[u]]
  <2>1. CASE u = t
    BY <1>2, <2>1
  <2>2. CASE u # t
    BY <1>2, <2>2 DEF Same, Values
  <2> QED
    BY <2>1, <2>2
<1> QED
  BY <1>1, <1>2 DEF Values

LEMMA ValuesCalm ==
    ASSUME LogInv, Values, NEW t \in Threads, Calm(t), Stays(t), Keeps(t),
           \A u \in Threads \ {t} : Same(u)
    PROVE  Values'
<1>1. ASSUME NEW n \in Nat, NEW k \in Nat, Live(t, n, k)' PROVE Kept(t, n, k)'
  <2>1. Live(t, n, k) /\ WriteSet(t, n)'[k] = WriteSet(t, n)[k]
    BY <1>1 DEF Keeps
  <2>2. Kept(t, n, k)
    BY <2>1 DEF Values
  <2> QED
    BY <2>1, <2>2, KeptCalm
<1>2. \A o \in Objs : p_obj_copy'[o] = NULL => committed[o] = data[o]
  BY DEF Stays, Values
<1> QED
  BY <1>1, <1>2, ValuesFrom DEF Calm, Stays

LEMMA ValuesReadVersion ==
    ASSUME LogInv, Values, NEW t \in Threads, ReadVersion(t), Stays(t), Keeps(t),
           \A u \in Threads \ {t} : Same(u)
    PROVE  Values'
<1>1. ~Syncing(t) /\ ~Open(t) /\ pc[t] = "version" /\ pc'[t] = "commit_version"
  BY CounterTypes DEF LogInv, ReadVersion, Syncing, SyncLabels, Open, InSection, Goto
<1>2. PICK tail \in Nat : tail = ws_tail_counter[t]
  BY CounterTypes DEF LogInv
<1>3. WriteSet(t, tail) = <<>>
  BY <1>1, <1>2, EmptyAtStart DEF LogInv
<1>4. ASSUME NEW n \in Nat, NEW k \in Nat, Live(t, n, k)' PROVE Kept(t, n, k)'
  <2>1. Live(t, n, k) /\ WriteSet(t, n)'[k] = WriteSet(t, n)[k]
    BY <1>4 DEF Keeps
  <2>2. Kept(t, n, k) /\ n < tail
    BY <1>1, <1>2, <2>1 DEF Values, Live, InSection
  <2> QED
    BY <1>1, <1>2, <2>1, <2>2 DEF Kept, ReadVersion
<1>5. \A o \in Objs : p_obj_copy'[o] = NULL => committed[o] = data[o]
  BY DEF Stays, Values
<1>6. UNCHANGED <<data, committed>>
  BY DEF ReadVersion
<1> QED
  BY <1>4, <1>5, <1>6, ValuesFrom DEF Stays

LEMMA ValuesCas ==
    ASSUME LogInv, Values, NEW t \in Threads, TryLockCas(t), Calm(t),
           \A u \in Threads \ {t} : Same(u)
    PROVE  Values'
<1>1. \A n, k \in Nat : /\ Live(t, n, k)' <=> Live(t, n, k)
                        /\ WriteSet(t, n)' = WriteSet(t, n)
  BY CounterTypes, LiveQuiet DEF LogInv, TryLockCas, Goto, BackLabels, InSection
<1>2. ASSUME NEW n \in Nat, NEW k \in Nat, Live(t, n, k)' PROVE Kept(t, n, k)'
  <2>1. Live(t, n, k) /\ WriteSet(t, n)'[k] = WriteSet(t, n)[k]
    BY <1>1, <1>2
  <2>2. Kept(t, n, k)
    BY <2>1 DEF Values
  <2> QED
    BY <2>1, <2>2, KeptCalm
<1>3. PICK o0 \in Objs, c0 \in Addr : o0 = cur_obj[t] /\ c0 = cur_copy[t] /\ c0 # NULL
  BY CopyTypes DEF TryLockCas, LogInv
<1>4. \/ UNCHANGED p_obj_copy /\ pc'[t] = "failed"
      \/ /\ p_obj_copy[o0] = NULL /\ p_obj_copy' = [p_obj_copy EXCEPT ![o0] = c0]
         /\ cur_obj'[t] = o0
  BY <1>3, CounterTypes DEF TryLockCas, Goto, LogInv
<1>5. \A o \in Objs : p_obj_copy'[o] = NULL => p_obj_copy[o] = NULL
  BY <1>3, <1>4, CopyTypes DEF LogInv
<1>6. \A o \in Objs : p_obj_copy'[o] = NULL => committed[o] = data[o]
  BY <1>5 DEF Values
<1>7. pc'[t] = "copy" => committed[cur_obj'[t]] = data[cur_obj'[t]]
  BY <1>4 DEF Values
<1> QED
  BY <1>2, <1>6, <1>7, ValuesFrom DEF Calm

LEMMA ValuesCopied ==
    ASSUME LogInv, Values, NEW t \in Threads, TryLockCopy(t), Calm(t),
           \A u \in Threads \ {t} : Same(u)
    PROVE  Values'
<1>1. PICK tail \in Nat : tail = ws_tail_counter[t]
  BY CounterTypes DEF LogInv
<1>2. PICK last \in Nat : last = Len(WriteSet(t, tail)) + 1
  BY <1>1, LenTypes DEF LogInv
<1>3. PICK o0 \in Objs : o0 = cur_obj[t]
  BY CopyTypes DEF TryLockCopy, LogInv
<1>4. /\ WriteSet(t, tail)'[last] = NewEntry(t)
      /\ \A n, k \in Nat :
            /\ Live(t, n, k)' <=> Live(t, n, k) \/ (n = tail /\ k = last)
            /\ Live(t, n, k) => WriteSet(t, n)'[k] = WriteSet(t, n)[k]
  BY <1>1, <1>2, LiveCopied DEF LogInv
<1>5. /\ pc[t] = "copy" /\ pc'[t] = "section"
      /\ UNCHANGED <<p_obj_copy, data, committed, ws_tail_counter, run_counter, n_starts>>
  BY CounterTypes DEF TryLockCopy, Goto, LogInv
<1>6. committed[o0] = data[o0]
  BY <1>3, <1>5 DEF Values
<1>7. Kept(t, tail, last)'
  <2>1. PICK e : e = NewEntry(t)
    OBVIOUS
  <2>2. WriteSet(t, tail)'[last] = e
    BY <1>4, <2>1
  <2>3. /\ e.obj = o0 /\ e.val = data[o0] \cup {<<t, n_starts[t]>>}
        /\ e.run = run_counter[t]
    BY <1>3, <2>1 DEF NewEntry
  <2> QED
    BY <1>1, <1>5, <1>6, <2>2, <2>3 DEF Kept
<1>8. ASSUME NEW n \in Nat, NEW k \in Nat, Live(t, n, k)' PROVE Kept(t, n, k)'
  <2>1. CASE Live(t, n, k)
    <3>1. Kept(t, n, k) /\ WriteSet(t, n)'[k] = WriteSet(t, n)[k]
      BY <1>4, <2>1 DEF Values
    <3> QED
      BY <3>1, KeptCalm
  <2>2. CASE n = tail /\ k = last
    BY <1>7, <2>2
  <2> QED
    BY <1>4, <1>8, <2>1, <2>2
<1>9. \A o \in Objs : p_obj_copy'[o] = NULL => committed[o] = data[o]
  BY <1>5 DEF Values
<1> QED
  BY <1>5, <1>8, <1>9, ValuesFrom

LEMMA ValuesDrop ==
    ASSUME LogInv, Values, NEW t \in Threads, NEW n0 \in Nat, NEW k0 \in Nat,
           Drops(t, n0, k0), Calm(t), \A u \in Threads \ {t} : Same(u),
           NEW o0 \in Objs, o0 = WriteSet(t, n0)[k0].obj, committed[o0] = data[o0]
    PROVE  Values'
<1>1. p_obj_copy' = [p_obj_copy EXCEPT ![o0] = NULL]
  BY DEF Drops
<1>2. \A o \in Objs : p_obj_copy'[o] = NULL => committed[o] = data[o]
  BY <1>1, CopyTypes DEF Values, LogInv
<1>3. ASSUME NEW n \in Nat, NEW k \in Nat, Live(t, n, k)' PROVE Kept(t, n, k)'
  <2>1. Live(t, n, k) /\ WriteSet(t, n)'[k] = WriteSet(t, n)[k]
    BY <1>3 DEF Drops, Dropped, WriteSet
  <2>2. Kept(t, n, k)
    BY <2>1 DEF Values
  <2> QED
    BY <2>1, <2>2, KeptCalm
<1> QED
  BY <1>2, <1>3, ValuesFrom DEF Calm, Drops

LEMMA ValuesCommit ==
    ASSUME LogInv, Values, NEW t \in Threads, CommitUnlock(t), Stays(t), Keeps(t),
           \A u \in Threads \ {t} : Same(u)
    PROVE  Values'
<1>1. PICK tail \in Nat : tail = ws_tail_counter[t]
  BY CounterTypes DEF LogInv
<1>2. PICK x : x = <<t, n_starts[t]>>
  OBVIOUS
<1>3. PICK done : done = Updated(t)
  OBVIOUS
<1>4. /\ UNCHANGED <<data, p_obj_copy, obj_write_set>>
      /\ ws_tail_counter'[t] = tail + 1
      /\ pc[t] = "section" /\ pc'[t] \in {"release_prev", "load"}
  BY <1>1, CounterTypes DEF CommitUnlock, SyncCall, Goto, LogInv
<1>5. \A o \in Objs : /\ o \in done => committed'[o] = committed[o] \cup {x}
                      /\ o \notin done => committed'[o] = committed[o]
  BY <1>2, <1>3 DEF CommitUnlock
<1>6. /\ done = {WriteSet(t, tail)[k].obj : k \in DOMAIN WriteSet(t, tail)}
      /\ WriteSet(t, tail) \in Seq(Entry)
  BY <1>1, <1>3, LenTypes DEF Updated, LogInv
<1>7. ASSUME NEW o \in done
      PROVE  \E k \in Nat : Live(t, tail, k) /\ WriteSet(t, tail)[k].obj = o
  <2>1. PICK k \in DOMAIN WriteSet(t, tail) : WriteSet(t, tail)[k].obj = o
    BY <1>6
  <2>2. k \in Nat \ {0} /\ k <= Len(WriteSet(t, tail))
    BY <1>6, <2>1
  <2>3. Live(t, tail, k)
    BY <1>1, <1>4, <2>2, CounterTypes DEF Live, First, BackLabels, InSection, LogInv, Ring, RingOf
  <2> QED
    BY <2>1, <2>2, <2>3
<1>8. ASSUME NEW u \in Threads, NEW n \in Nat, NEW k \in Nat, Live(u, n, k),
             u # t \/ n # tail
      PROVE  WriteSet(u, n)[k].obj \notin done
  BY <1>7, <1>8, LiveUnique
<1>9. ASSUME NEW o \in Objs, p_obj_copy[o] = NULL PROVE o \notin done
  BY <1>7, <1>9, LiveEntry DEF LogInv, LockInv, Locking
<1>10. ASSUME NEW u \in Threads, pc[u] = "copy" PROVE cur_obj[u] \notin done
  BY <1>7, <1>10, LiveNotCopying
<1>11. ASSUME NEW n \in Nat, NEW k \in Nat, Live(t, n, k)' PROVE Kept(t, n, k)'
  <2>1. Live(t, n, k) /\ WriteSet(t, n)' = WriteSet(t, n)
    BY <1>4, <1>11 DEF Keeps, WriteSet
  <2>2. PICK e : e = WriteSet(t, n)[k]
    OBVIOUS
  <2>3. n <= tail /\ e.obj \in Objs /\ Kept(t, n, k)
    BY <1>1, <2>1, <2>2, LiveEntry DEF Values, LogInv
  <2>4. committed'[e.obj] = e.val
    <3>1. CASE n = tail
      <4>1. k \in DOMAIN WriteSet(t, tail)
        BY <2>1, <3>1, LiveEntry DEF LogInv
      <4>2. e.obj \in done
        BY <1>6, <2>2, <3>1, <4>1
      <4>3. committed[e.obj] = data[e.obj] /\ e.val = data[e.obj] \cup {x}
        BY <1>1, <1>2, <1>4, <2>2, <2>3, <3>1 DEF Kept, InSection
      <4> QED
        BY <1>5, <2>3, <4>2, <4>3
    <3>2. CASE n # tail
      <4>1. e.obj \notin done
        BY <1>8, <2>1, <2>2, <3>2
      <4>2. committed[e.obj] = e.val
        BY <1>1, <2>2, <2>3, <3>2 DEF Kept
      <4> QED
        BY <1>5, <2>3, <4>1, <4>2
    <3> QED
      BY <3>1, <3>2
  <2>5. n < tail + 1 /\ WriteSet(t, n)'[k] = e
    BY <2>1, <2>2, <2>3
  <2> QED
    BY <1>4, <2>4, <2>5 DEF Kept
<1>12. ASSUME NEW u \in Threads, NEW n \in Nat, NEW k \in Nat, Live(u, n, k)'
       PROVE  Kept(u, n, k)'
  <2>1. CASE u = t
    BY <1>11, <1>12, <2>1
  <2>2. CASE u # t
    <3>1. Live(u, n, k) /\ Same(u)
      BY <1>12, <2>2, LiveSame
    <3>2. Kept(u, n, k)
      BY <3>1 DEF Values
    <3>3. PICK o \in Objs : o = WriteSet(u, n)[k].obj
      BY <3>1, LiveEntry DEF LogInv
    <3>4. committed'[o] = committed[o] /\ data'[o] = data[o]
      BY <1>4, <1>5, <1>8, <2>2, <3>1, <3>3
    <3> QED
      BY <3>1, <3>2, <3>3, <3>4, KeptSame
  <2> QED
    BY <2>1, <2>2
<1>13. ASSUME NEW o \in Objs, p_obj_copy'[o] = NULL PROVE committed'[o] = data'[o]
  BY <1>4, <1>5, <1>9, <1>13 DEF Values
<1>14. ASSUME NEW u \in Threads, pc'[u] = "copy"
       PROVE  committed'[cur_obj'[u]] = data'[cur_obj'[u]]
  <2>1. pc[u] = "copy" /\ cur_obj'[u] = cur_obj[u] /\ cur_obj[u] \in Objs
    BY <1>4, <1>14, CopyTypes DEF Same, LogInv
  <2> QED
    BY <1>4, <1>5, <1>10, <2>1 DEF Values
<1> QED
  BY <1>12, <1>13, <1>14 DEF Values

LEMMA ValuesWriteback ==
    ASSUME LogInv, Values, NEW t \in Threads, Writeback(t), Stays(t), Keeps(t),
           \A u \in Threads \ {t} : Same(u)
    PROVE  Values'
<1>1. PICK m \in Nat, k0 \in Nat, tail \in Nat :
          m = ws_counter[t] /\ k0 = i[t] + 1 /\ tail = ws_tail_counter[t]
  BY CounterTypes DEF LogInv
<1>2. /\ m < tail /\ k0 <= Len(WriteSet(t, m)) /\ k0 > i[t] /\ k0 > 0
      /\ pc[t] = "writeback" /\ pc'[t] = "unlock"
      /\ UNCHANGED <<p_obj_copy, obj_write_set, committed, ws_tail_counter, ws_counter, i>>
  BY <1>1, CounterTypes, LenTypes DEF Writeback, Goto, LogInv, WriteSet
<1>3. Live(t, m, k0)
  BY <1>1, <1>2 DEF Live, First, BackLabels
<1>4. PICK e0 \in Entry : e0 = WriteSet(t, m)[k0] /\ e0.obj \in Objs
  BY <1>3, LiveEntry DEF LogInv
<1>5. /\ data'[e0.obj] = e0.val
      /\ \A o \in Objs : o # e0.obj => data'[o] = data[o]
  <2>1. data' = [data EXCEPT ![e0.obj] = e0.val]
    BY <1>1, <1>4 DEF Writeback
  <2>2. data \in [Objs -> Value]
    BY DEF LogInv, TypeInv, TypeOK, GlobalTypes
  <2> QED
    BY <1>4, <2>1, <2>2
<1>6. ASSUME NEW u \in Threads, NEW n \in Nat, NEW k \in Nat, Live(u, n, k),
             ~(u = t /\ n = m /\ k = k0)
      PROVE  /\ WriteSet(u, n)[k].obj \in Objs
             /\ data'[WriteSet(u, n)[k].obj] = data[WriteSet(u, n)[k].obj]
  <2>1. WriteSet(u, n)[k].obj \in Objs
    BY <1>6, LiveEntry DEF LogInv
  <2>2. WriteSet(u, n)[k].obj # e0.obj
    BY <1>3, <1>4, <1>6, LiveUnique
  <2> QED
    BY <1>5, <2>1, <2>2
<1>7. ASSUME NEW n \in Nat, NEW k \in Nat, Live(t, n, k)' PROVE Kept(t, n, k)'
  <2>1. Live(t, n, k) /\ WriteSet(t, n)' = WriteSet(t, n)
    BY <1>2, <1>7 DEF Keeps, WriteSet
  <2>2. PICK e : e = WriteSet(t, n)[k]
    OBVIOUS
  <2>3. Kept(t, n, k) /\ n < tail
    BY <1>1, <1>2, <2>1 DEF Values, Live, InSection
  <2>4. committed[e.obj] = e.val
    BY <1>1, <2>2, <2>3 DEF Kept
  <2>5. n = m /\ k = k0 => data'[e.obj] = e.val
    BY <1>4, <1>5, <2>2
  <2>6. WriteSet(t, n)'[k] = e
    BY <2>1, <2>2
  <2> QED
    BY <1>1, <1>2, <2>3, <2>4, <2>5, <2>6 DEF Kept
<1>8. ASSUME NEW u \in Threads, NEW n \in Nat, NEW k \in Nat, Live(u, n, k)'
      PROVE  Kept(u, n, k)'
  <2>1. CASE u = t
    BY <1>7, <1>8, <2>1
  <2>2. CASE u # t
    <3>1. Live(u, n, k) /\ Same(u)
      BY <1>8, <2>2, LiveSame
    <3>2. Kept(u, n, k)
      BY <3>1 DEF Values
    <3>3. PICK o \in Objs : o = WriteSet(u, n)[k].obj
      BY <3>1, LiveEntry DEF LogInv
    <3>4. committed'[o] = committed[o] /\ data'[o] = data[o]
      BY <1>2, <1>6, <2>2, <3>1, <3>3
    <3> QED
      BY <3>1, <3>2, <3>3, <3>4, KeptSame
  <2> QED
    BY <2>1, <2>2
<1>9. ASSUME NEW o \in Objs, p_obj_copy'[o] = NULL PROVE committed'[o] = data'[o]
  <2>1. p_obj_copy[e0.obj] = CopyAt(t, m, k0)
    BY <1>3, <1>4 DEF LogInv, LockInv, Locking
  <2>2. p_obj_copy[e0.obj] # NULL
    BY <1>3, <2>1, LiveEntry DEF LogInv
  <2> QED
    BY <1>2, <1>5, <1>9, <2>2 DEF Values
<1>10. ASSUME NEW u \in Threads, pc'[u] = "copy"
       PROVE  committed'[cur_obj'[u]] = data'[cur_obj'[u]]
  <2>1. pc[u] = "copy" /\ cur_obj'[u] = cur_obj[u] /\ cur_obj[u] \in Objs
    BY <1>2, <1>10, CopyTypes DEF Same, LogInv
  <2>2. cur_obj[u] # e0.obj
    BY <1>3, <1>4, <2>1, LiveNotCopying
  <2> QED
    BY <1>2, <1>5, <2>1, <2>2 DEF Values
<1> QED
  BY <1>8, <1>9, <1>10 DEF Values

LEMMA ValuesUnlocked ==
    ASSUME LogInv, Values, NEW t \in Threads, Unlock(t) \/ UnlockObjs(t), Calm(t),
           \A u \in Threads \ {t} : Same(u)
    PROVE  Values'
<1>1. CASE Unlock(t)
  <2>1. PICK m \in Nat, k0 \in Nat : m = ws_counter[t] /\ k0 = i[t] + 1
    BY CounterTypes DEF LogInv
  <2>2. Drops(t, m, k0) /\ m < ws_tail_counter[t] /\ Live(t, m, k0)
    BY <1>1, <2>1, UnlockDrops DEF LogInv, Drops
  <2>3. PICK o0 \in Objs : o0 = WriteSet(t, m)[k0].obj
    BY <2>2, LiveEntry DEF LogInv
  <2>4. Kept(t, m, k0) /\ pc[t] = "unlock"
    BY <1>1, <2>2 DEF Values, Unlock
  <2>5. committed[o0] = data[o0]
    BY <2>1, <2>2, <2>3, <2>4 DEF Kept
  <2> QED
    BY <2>2, <2>3, <2>5, ValuesDrop
<1>2. CASE UnlockObjs(t)
  <2>1. PICK tail \in Nat : tail = ws_tail_counter[t]
    BY CounterTypes DEF LogInv
  <2>2. CASE Stays(t) /\ Keeps(t)
    BY <2>2, ValuesCalm
  <2>3. ASSUME NEW k0 \in Nat, Drops(t, tail, k0) PROVE Values'
    <3>1. Live(t, tail, k0)
      BY <2>3 DEF Drops
    <3>2. PICK o0 \in Objs : o0 = WriteSet(t, tail)[k0].obj
      BY <3>1, LiveEntry DEF LogInv
    <3>3. Kept(t, tail, k0)
      BY <3>1 DEF Values
    <3>4. committed[o0] = data[o0]
      BY <2>1, <3>2, <3>3 DEF Kept
    <3> QED
      BY <2>3, <3>2, <3>4, ValuesDrop
  <2> QED
    BY <1>2, <2>1, <2>2, <2>3, UnlockObjsDrops DEF LogInv
<1> QED
  BY <1>1, <1>2

LEMMA ValuesStep ==
    ASSUME LogInv, Values, NEW t \in Threads, Thread(t)
    PROVE  Values'
<1>1. \A u \in Threads \ {t} : Same(u)
  BY Others DEF LogInv
<1>2. \/ Stays(t) /\ Keeps(t)
      \/ TryLockCas(t) \/ TryLockCopy(t) \/ UnlockObjs(t) \/ Unlock(t)
  BY LogSteps DEF LogInv
<1>3. CASE Calm(t)
  BY <1>1, <1>2, <1>3, ValuesCalm, ValuesCas, ValuesCopied, ValuesUnlocked
<1>4. CASE ReadVersion(t) \/ CommitUnlock(t) \/ Writeback(t)
  <2>1. ~(TryLockCas(t) \/ TryLockCopy(t) \/ UnlockObjs(t) \/ Unlock(t))
    BY <1>4 DEF ReadVersion, CommitUnlock, Writeback, TryLockCas, TryLockCopy, UnlockObjs, Unlock
  <2> QED
    BY <1>1, <1>2, <1>4, <2>1, ValuesReadVersion, ValuesCommit, ValuesWriteback
<1> QED
  BY <1>3, <1>4, CalmSteps DEF LogInv

LEMMA ValueStays == ValueInv /\ [Next]_vars => ValueInv'
<1> SUFFICES ASSUME ValueInv, [Next]_vars PROVE ValueInv'
  OBVIOUS
<1>1. ASSUME UNCHANGED vars \/ Terminated PROVE Values'
  BY <1>1 DEF ValueInv, Terminated, Values, Kept, Live, First, InSection, WriteSet
<1>2. Values'
  BY <1>1, ValuesStep DEF Next, ValueInv
<1> QED
  BY <1>2, LogStays DEF ValueInv

LEMMA ValueInit == Init => ValueInv
<1> SUFFICES ASSUME Init PROVE ValueInv
  OBVIOUS
<1>1. ASSUME NEW t \in Threads
      PROVE  pc[t] \in {"idle", "new"} /\ ws_tail_counter[t] = 0 /\ ws_wb_counter[t] = 0
  BY <1>1 DEF Init
<1>2. ASSUME NEW t \in Threads, NEW n \in Nat, NEW k \in Nat PROVE ~Live(t, n, k)
  BY <1>1 DEF Live, First, BackLabels, InSection
<1>3. \A o \in Objs : committed[o] = data[o]
  BY DEF Init
<1>4. Values
  BY <1>1, <1>2, <1>3 DEF Values
<1> QED
  BY <1>4, TypeInit, RingInit, LockInit DEF ValueInv, LogInv

\* Copies and objects have the contents that the committed sections wrote,
\* between any two steps of a commit, a write-back or a roll-back.
THEOREM ValueInvariant == Spec => []ValueInv
BY ValueInit, ValueStays, PTL DEF Spec

\* No committed update is lost or applied twice: an object, with the write-backs
\* that are still deferred for it, has exactly the updates of the sections that
\* ended with rlu_reader_unlock (rlu.c:388-417, 455-473), for any number of
\* threads that commit, abort, synchronise and write back at the same time.
THEOREM NoUpdateLost == Spec => []NoLostUpdate
<1>1. ValueInv => NoLostUpdate
  <2> SUFFICES ASSUME ValueInv, NEW o \in Objs
               PROVE  LET c == p_obj_copy[o]
                      IN  committed[o] = IF c # NULL /\ c.ws # WsCurId(c.th)
                                         THEN At(c).val ELSE data[o]
    BY DEF NoLostUpdate
  <2>1. CASE p_obj_copy[o] = NULL
    BY <2>1 DEF ValueInv, Values
  <2>2. CASE p_obj_copy[o] # NULL
    <3>1. PICK c \in Addr : c = p_obj_copy[o]
      BY <2>2, CopyTypes DEF ValueInv, LogInv
    <3>2. OwnedBy(o, c) /\ c.th \in Threads /\ c # NULL
      BY <3>1, CopyTypes DEF ValueInv, LogInv, LockInv, Owned
    <3>3. PICK t \in Threads, tail \in Nat : t = c.th /\ tail = ws_tail_counter[t]
      BY <3>2, CounterTypes DEF ValueInv, LogInv
    <3>4. CASE Installing(c.th, o, c)
      <4>1. c = NextCopy(t)
        BY <3>3, <3>4 DEF ValueInv, LogInv, Ring, DetectedOf, Installing
      <4>3. c.ws = WsCurId(t)
        BY <4>1 DEF NextCopy
      <4>2. committed[o] = data[o]
        BY <3>2, <3>4 DEF ValueInv, Values, Installing
      <4> QED
        BY <3>1, <3>3, <4>2, <4>3
    <3>5. ASSUME NEW n \in Nat, NEW k \in Nat, Live(t, n, k), c = CopyAt(t, n, k),
                 WriteSet(t, n)[k].obj = o
          PROVE  committed[o] = IF c.ws # WsCurId(t) THEN At(c).val ELSE data[o]
      <4>1. At(c) = WriteSet(t, n)[k] /\ c.ws = WS_INDEX(n) /\ WsCurId(t) = WS_INDEX(tail)
        BY <3>3, <3>5 DEF At, CopyAt, WriteSet, WsCurId
      <4>2. Kept(t, n, k) /\ ws_wb_counter[t] <= n /\ n <= tail /\ ws_wb_counter[t] <= tail
        BY <3>3, <3>5, LiveEntry, CounterTypes DEF ValueInv, LogInv, Values, Ring, RingOf
      <4>3. CASE n = tail
        BY <3>3, <3>5, <4>1, <4>2, <4>3 DEF Kept
      <4>4. CASE n # tail
        <5>1. WS_INDEX(n) # WS_INDEX(tail)
          BY <3>3, <4>2, <4>4, LiveSlots DEF ValueInv, LogInv
        <5>2. c.ws # WsCurId(t) /\ n < tail
          BY <4>1, <4>2, <4>4, <5>1
        <5>3. committed[o] = At(c).val
          BY <3>3, <3>5, <4>1, <4>2, <5>2 DEF Kept
        <5> QED
          BY <5>2, <5>3
      <4> QED
        BY <4>3, <4>4
    <3> QED
      BY <3>1, <3>2, <3>3, <3>4, <3>5 DEF OwnedBy
  <2> QED
    BY <2>1, <2>2
<1> QED
  BY <1>1, ValueInvariant, PTL

-----------------------------------------------------------------------------
(* The writer locks of the coarse type. *)

\* The step leaves alone which writer locks t has.
HeldQuiet(t) ==
    /\ UNCHANGED g_rlu_writer_locks
    /\ \A k \in Nat : /\ HeldAt(t, k)' <=> HeldAt(t, k)
                      /\ HeldAt(t, k) => HeldLock(t, k)' = HeldLock(t, k)

\* Most steps do not even look at them.
Idle(t) ==
    /\ UNCHANGED <<g_rlu_writer_locks, ws_tail_counter, ws_writer_locks>>
    /\ Open(t)' <=> Open(t)
    /\ Holding(t)' <=> Holding(t)
    /\ Given(t)' = Given(t)

LEMMA IdleQuiet ==
    ASSUME NEW t \in Threads, Idle(t)
    PROVE  HeldQuiet(t)
<1>1. HeldSlot(t)' = HeldSlot(t)
  BY DEF Idle, HeldSlot
<1> QED
  BY <1>1 DEF Idle, HeldQuiet, HeldAt, HeldLock

LEMMA IdleSteps ==
    ASSUME TypeInv, Ring, NEW t \in Threads, Thread(t)
    PROVE  \/ Idle(t)
           \/ ReadVersion(t) \/ CommitUnlock(t) \/ ReleaseEnd(t) \/ ResetWriteSets(t)
           \/ ReleaseWriterLock(t) \/ \E l \in WriterLocks : TryWriterLock(t, l)
<1> USE CounterTypes DEF Idle, Goto, Open, InSection, Holding, Given, Releasing, Syncing,
        SyncLabels
<1>1. CASE ThreadInit(t) \/ ThreadPublish(t) \/ SyncCheckpoint(t)
  BY <1>1 DEF ThreadInit, ThreadPublish, SyncCheckpoint, Checkpoint, SyncCall
<1>2. CASE ThreadFinish(t) \/ ThreadFinish2(t)
  BY <1>2 DEF ThreadFinish, ThreadFinish2, SyncCall
<1>3. CASE ReaderLock(t) \/ Register(t) \/ ReadCommitVersion(t)
  BY <1>3 DEF ReaderLock, Register, ReadCommitVersion, Checkpoint, SyncCall
<1>4. CASE Steal(t) \/ TryLockCas(t) \/ TryLockCopy(t) \/ SendSyncRequest(t)
  BY <1>4 DEF Steal, TryLockCas, TryLockCopy, SendSyncRequest
<1>5. ASSUME NEW o \in Objs, Deref(t, o) \/ DerefLocked(t, o) PROVE Idle(t)
  BY <1>5 DEF Deref, DerefLocked
<1>6. ASSUME NEW o \in Objs, TryLock(t, o) \/ TryLockOwn(t, o) \/ TryLockFail(t, o)
      PROVE  Idle(t)
  BY <1>6 DEF TryLock, TryLockOwn, TryLockFail, MayLock
<1>8. CASE ReaderUnlock(t) \/ Abort(t)
  <2>1. i[t] = 0
    BY <1>8 DEF ReaderUnlock, Abort, Ring, LoopOf, LoopLabels
  <2> QED
    BY <1>8, <2>1 DEF ReaderUnlock, Abort
<1>9. CASE UnlockObjs(t)
  BY <1>9 DEF UnlockObjs
<1>10. CASE SyncLoad(t) \/ SyncStore(t) \/ SyncBump(t) \/ Scan(t) \/ ScanEnd(t) \/ Wait(t)
  BY <1>10 DEF SyncLoad, SyncStore, SyncBump, Scan, ScanEnd, Wait
<1>11. CASE Writeback(t) \/ Unlock(t) \/ SyncUnstamp(t) \/ SyncCommit(t)
  BY <1>11 DEF Writeback, Unlock, SyncUnstamp, SyncCommit
<1>12. CASE SyncEnd(t)
  <2>1. i[t] = 0
    BY <1>12 DEF SyncEnd, Ring, LoopOf, LoopLabels
  <2> QED
    BY <1>12, <2>1 DEF SyncEnd, Returns
<1> QED
  BY <1>1, <1>2, <1>3, <1>4, <1>5, <1>6, <1>8, <1>9, <1>10, <1>11, <1>12
  DEF Thread, Begin, Access, End, Sync

LEMMA HeldSteps ==
    ASSUME TypeInv, Ring, NEW t \in Threads, Thread(t)
    PROVE  \/ HeldQuiet(t)
           \/ ReleaseWriterLock(t) \/ \E l \in WriterLocks : TryWriterLock(t, l)
<1>0. PICK tail \in Nat, wb \in Nat : tail = ws_tail_counter[t] /\ wb = ws_wb_counter[t]
  BY CounterTypes
<1> USE DEF Goto
<1>1. CASE ReadVersion(t)
  <2>1. ~Syncing(t) /\ ~Open(t) /\ ~Holding(t)
    BY <1>1 DEF ReadVersion, Syncing, SyncLabels, Open, InSection, Holding
  <2>2. /\ WsCurId(t) \in Slots /\ WsCurId(t) = WS_INDEX(tail)
        /\ RingOf(t) /\ SlotsOf(t)
    BY <1>0, LenTypes DEF WsCurId, Ring
  <2>3. \A n \in ws_head_counter[t] .. ws_tail_counter[t] - 1 : WS_INDEX(n) # WsCurId(t)
    BY <2>1, <2>2, Window
  <2>4. ws_writer_locks[t][WS_INDEX(tail)] = <<>>
    BY <2>1, <2>2, <2>3 DEF SlotsOf
  <2>5. /\ Open(t)' /\ UNCHANGED <<g_rlu_writer_locks, ws_writer_locks, ws_tail_counter>>
        /\ pc'[t] = "commit_version"
    BY <1>1, CounterTypes DEF ReadVersion, Open, InSection
  <2>6. HeldSlot(t)' = WS_INDEX(tail) /\ Given(t)' = 0
    BY <1>0, <2>5 DEF HeldSlot, Given, Releasing
  <2>7. \A k \in Nat : ~HeldAt(t, k) /\ ~HeldAt(t, k)'
    BY <2>1, <2>4, <2>5, <2>6 DEF HeldAt
  <2> QED
    BY <2>5, <2>7 DEF HeldQuiet
<1>2. CASE CommitUnlock(t)
  <2>1. /\ UNCHANGED <<g_rlu_writer_locks, ws_writer_locks>>
        /\ ws_tail_counter'[t] = tail + 1 /\ pc[t] = "section"
        /\ pc'[t] = "release_prev" \/ (pc'[t] = "load" /\ ret'[t] = "release_prev")
        /\ i'[t] = i[t]
    BY <1>0, <1>2, CounterTypes DEF CommitUnlock, SyncCall
  <2>2. i[t] = 0
    BY <2>1 DEF Ring, LoopOf, LoopLabels
  <2>3. Holding(t) /\ Holding(t)' /\ Open(t) /\ ~Open(t)'
    BY <2>1 DEF Holding, Open, InSection, Syncing, SyncLabels
  <2>4. HeldSlot(t) = WS_INDEX(tail) /\ HeldSlot(t)' = WS_INDEX(tail)
    BY <1>0, <2>1, <2>3 DEF HeldSlot
  <2>5. Given(t) = 0 /\ Given(t)' = 0
    BY <2>1, <2>2 DEF Given, Releasing
  <2> QED
    BY <2>1, <2>3, <2>4, <2>5 DEF HeldQuiet, HeldAt, HeldLock
<1>3. CASE ReleaseEnd(t)
  <2>1. /\ UNCHANGED g_rlu_writer_locks
        /\ pc'[t] = "idle" \/ (pc'[t] = "load" /\ ret'[t] = "idle")
    BY <1>3, CounterTypes DEF ReleaseEnd, Checkpoint, SyncCall
  <2>2. ~Holding(t)'
    BY <2>1 DEF Holding, Open, InSection, Syncing, SyncLabels
  <2>3. /\ HeldSlot(t) = ReleaseSlot(t) /\ Given(t) = i[t]
        /\ i[t] = Len(ws_writer_locks[t][ReleaseSlot(t)])
    BY <1>3 DEF ReleaseEnd, Releasing, HeldSlot, ReleaseSlot, Open, InSection, Given
  <2>4. \A k \in Nat : ~HeldAt(t, k) /\ ~HeldAt(t, k)'
    BY <2>2, <2>3, CounterTypes DEF HeldAt
  <2> QED
    BY <2>1, <2>4 DEF HeldQuiet
<1>4. CASE ResetWriteSets(t)
  <2>1. /\ UNCHANGED <<g_rlu_writer_locks, ws_tail_counter, ret>>
        /\ pc[t] = "reset" /\ pc'[t] = "writeback"
    BY <1>4, CounterTypes DEF ResetWriteSets
  <2>2. /\ ~Open(t) /\ ~Open(t)' /\ Given(t) = 0 /\ Given(t)' = 0
        /\ Holding(t) <=> ret[t] = "release_prev"
        /\ Holding(t)' <=> ret[t] = "release_prev"
    BY <2>1 DEF Open, InSection, Given, Releasing, Holding, Syncing, SyncLabels
  <2>3. HeldSlot(t) = WS_INDEX(tail - 1) /\ HeldSlot(t)' = WS_INDEX(tail - 1)
    BY <1>0, <2>1, <2>2 DEF HeldSlot
  <2>4. ASSUME ret[t] = "release_prev"
        PROVE  ws_writer_locks'[t][WS_INDEX(tail - 1)] = ws_writer_locks[t][WS_INDEX(tail - 1)]
    <3>1. tail - 1 \in ws_wb_counter[t] .. ws_tail_counter[t] - 1 /\ RingPart(t)
      BY <1>0, <2>1, <2>4 DEF Ring, RingPart, RingOf, Syncing, SyncLabels
    <3> QED
      BY <1>4, <3>1, ResetSlots
  <2> QED
    BY <2>1, <2>2, <2>3, <2>4 DEF HeldQuiet, HeldAt, HeldLock
<1> QED
  BY <1>1, <1>2, <1>3, <1>4, IdleSteps, IdleQuiet

LEMMA HoldsKeep ==
    ASSUME NEW u \in Threads, HoldsOf(u),
           \A l \in WriterLocks : g_rlu_writer_locks'[l] = u <=> g_rlu_writer_locks[l] = u,
           \A k \in Nat : HeldAt(u, k) => HeldLock(u, k) \in WriterLocks,
           \A k \in Nat : /\ HeldAt(u, k)' <=> HeldAt(u, k)
                          /\ HeldAt(u, k) => HeldLock(u, k)' = HeldLock(u, k)
    PROVE  HoldsOf(u)'
BY DEF HoldsOf

LEMMA HeldTyped ==
    ASSUME TypeInv, Ring, NEW u \in Threads, NEW k \in Nat, HeldAt(u, k)
    PROVE  HeldLock(u, k) \in WriterLocks
<1>1. PICK n \in Nat : HeldSlot(u) = WS_INDEX(n)
  BY CounterTypes DEF HeldAt, Holding, HeldSlot, Ring, RingOf
<1>2. PICK locks \in Seq(WriterLocks) : locks = ws_writer_locks[u][WS_INDEX(n)]
  BY LenTypes
<1>3. k \in 1 .. Len(locks)
  BY <1>1, <1>2, CounterTypes DEF HeldAt, Given
<1>4. locks[k] \in WriterLocks
  BY <1>2, <1>3
<1> QED
  BY <1>1, <1>2, <1>4 DEF HeldLock

LEMMA HeldSame ==
    ASSUME NEW u \in Threads, Same(u)
    PROVE  \A k \in Nat : (HeldAt(u, k)' <=> HeldAt(u, k)) /\ HeldLock(u, k)' = HeldLock(u, k)
<1>1. /\ Open(u)' <=> Open(u)
      /\ Holding(u)' <=> Holding(u)
      /\ Given(u)' = Given(u)
  BY DEF Same, Open, InSection, Holding, Syncing, Given, Releasing
<1>2. HeldSlot(u)' = HeldSlot(u)
  BY <1>1 DEF Same, HeldSlot
<1> QED
  BY <1>1, <1>2 DEF Same, HeldAt, HeldLock

LEMMA HoldsTaken ==
    ASSUME TypeInv, Ring, NEW t \in Threads, NEW l0 \in WriterLocks, TryWriterLock(t, l0),
           g_rlu_writer_locks[l0] = NULL, HoldsOf(t)
    PROVE  HoldsOf(t)'
<1>1. PICK tail \in Nat : tail = ws_tail_counter[t]
  BY CounterTypes
<1>2. PICK s \in Slots : s = WS_INDEX(tail)
  BY <1>1, LenTypes
<1>3. PICK locks \in Seq(WriterLocks) : locks = ws_writer_locks[t][s]
  BY LogTypes
<1>4. PICK last \in Nat : last = Len(locks) + 1
  OBVIOUS
<1>5. /\ pc[t] = "section" /\ UNCHANGED <<pc, ws_tail_counter>>
      /\ ws_writer_locks'[t][s] = Append(locks, l0)
      /\ g_rlu_writer_locks' = [g_rlu_writer_locks EXCEPT ![l0] = t]
  BY <1>1, <1>2, <1>3, LogTypes DEF TryWriterLock, WsCurId
<1>6. /\ Holding(t) /\ Holding(t)' /\ Given(t) = 0 /\ Given(t)' = 0
      /\ HeldSlot(t) = s /\ HeldSlot(t)' = s
  BY <1>1, <1>2, <1>5 DEF Holding, Open, InSection, Given, Releasing, HeldSlot
<1>7. /\ \A k \in Nat : HeldAt(t, k) <=> 0 < k /\ k < last
      /\ \A k \in Nat : HeldAt(t, k)' <=> 0 < k /\ k <= last
  BY <1>3, <1>4, <1>5, <1>6 DEF HeldAt
<1>8. /\ \A k \in Nat : HeldAt(t, k) => HeldLock(t, k)' = HeldLock(t, k)
      /\ HeldLock(t, last)' = l0
      /\ HeldAt(t, last)'
  BY <1>3, <1>4, <1>5, <1>6, <1>7 DEF HeldLock
<1>9. g_rlu_writer_locks'[l0] = t
      /\ \A l \in WriterLocks \ {l0} : g_rlu_writer_locks'[l] = g_rlu_writer_locks[l]
  BY <1>5 DEF TypeInv, TypeOK, GlobalTypes
<1>10. \A k \in Nat : HeldAt(t, k)' => HeldAt(t, k) \/ k = last
  BY <1>4, <1>7
<1>11. \A k \in Nat : HeldAt(t, k) => /\ HeldLock(t, k) \in WriterLocks \ {l0}
                                     /\ g_rlu_writer_locks[HeldLock(t, k)] = t
  BY HeldTyped, AddressesAssumption DEF HoldsOf
<1>12. \A k \in Nat : HeldAt(t, k) => HeldAt(t, k)'
  BY <1>7
<1>13. ASSUME NEW l \in WriterLocks, g_rlu_writer_locks'[l] = t
       PROVE  \E k \in Nat : HeldAt(t, k)' /\ HeldLock(t, k)' = l
  <2>1. CASE l = l0
    BY <1>8, <2>1
  <2>2. CASE l # l0
    <3>1. g_rlu_writer_locks[l] = t
      BY <1>9, <1>13, <2>2
    <3>2. PICK k \in Nat : HeldAt(t, k) /\ HeldLock(t, k) = l
      BY <3>1 DEF HoldsOf
    <3> QED
      BY <1>8, <1>12, <3>2
  <2> QED
    BY <2>1, <2>2
<1>14. ASSUME NEW k \in Nat, HeldAt(t, k)'
       PROVE  g_rlu_writer_locks'[HeldLock(t, k)'] = t
  BY <1>8, <1>9, <1>10, <1>11, <1>14
<1>15. ASSUME NEW j \in Nat, NEW k \in Nat, HeldAt(t, j)', HeldAt(t, k)', j # k
       PROVE  HeldLock(t, j)' # HeldLock(t, k)'
  BY <1>8, <1>10, <1>11, <1>15 DEF HoldsOf
<1> QED
  BY <1>13, <1>14, <1>15 DEF HoldsOf

LEMMA HoldsGiven ==
    ASSUME TypeInv, Ring, NEW t \in Threads, ReleaseWriterLock(t), HoldsOf(t)
    PROVE  /\ HoldsOf(t)'
           /\ \E l0 \in WriterLocks :
                 /\ g_rlu_writer_locks[l0] = t
                 /\ g_rlu_writer_locks' = [g_rlu_writer_locks EXCEPT ![l0] = NULL]
<1>1. PICK j \in Nat, k0 \in Nat : j = i[t] /\ k0 = j + 1
  BY CounterTypes
<1>2. /\ UNCHANGED <<pc, ret, ws_tail_counter, ws_writer_locks>> /\ Releasing(t)
      /\ i'[t] = j + 1
  BY <1>1, CounterTypes DEF ReleaseWriterLock
<1>3. PICK s : s = ReleaseSlot(t)
  OBVIOUS
<1>4. /\ Holding(t) /\ Holding(t)' /\ Given(t) = j /\ Given(t)' = j + 1
      /\ HeldSlot(t) = s /\ HeldSlot(t)' = s
  BY <1>1, <1>2, <1>3 DEF Holding, Open, InSection, Syncing, SyncLabels, Given, Releasing,
     HeldSlot, ReleaseSlot
<1>5. /\ \A k \in Nat : HeldLock(t, k)' = HeldLock(t, k)
      /\ \A k \in Nat : HeldAt(t, k)' <=> HeldAt(t, k) /\ k # k0
  BY <1>1, <1>2, <1>4 DEF HeldLock, HeldAt
<1>6. HeldAt(t, k0)
  <2>1. PICK n \in Nat : s = WS_INDEX(n)
    BY <1>2, <1>3, CounterTypes DEF ReleaseSlot, Releasing, Ring, RingOf
  <2>2. j < Len(ws_writer_locks[t][s]) /\ Len(ws_writer_locks[t][s]) \in Nat
    BY <1>1, <1>3, <2>1, LenTypes DEF ReleaseWriterLock
  <2> QED
    BY <1>1, <1>4, <2>2 DEF HeldAt
<1>7. PICK l0 \in WriterLocks : l0 = HeldLock(t, k0)
  BY <1>6, HeldTyped
<1>8. /\ g_rlu_writer_locks[l0] = t
      /\ g_rlu_writer_locks' = [g_rlu_writer_locks EXCEPT ![l0] = NULL]
  BY <1>1, <1>3, <1>4, <1>6, <1>7 DEF HoldsOf, ReleaseWriterLock, HeldLock
<1>9. g_rlu_writer_locks'[l0] = NULL
      /\ \A l \in WriterLocks \ {l0} : g_rlu_writer_locks'[l] = g_rlu_writer_locks[l]
  BY <1>8 DEF TypeInv, TypeOK, GlobalTypes
<1>10. ASSUME NEW l \in WriterLocks, g_rlu_writer_locks'[l] = t
       PROVE  \E k \in Nat : HeldAt(t, k)' /\ HeldLock(t, k)' = l
  <2>1. l # l0 /\ g_rlu_writer_locks[l] = t
    BY <1>9, <1>10, AddressesAssumption
  <2>2. PICK k \in Nat : HeldAt(t, k) /\ HeldLock(t, k) = l
    BY <2>1 DEF HoldsOf
  <2> QED
    BY <1>5, <1>7, <2>1, <2>2
<1>11. ASSUME NEW k \in Nat, HeldAt(t, k)'
       PROVE  g_rlu_writer_locks'[HeldLock(t, k)'] = t
  <2>1. HeldAt(t, k) /\ k # k0 /\ HeldLock(t, k) \in WriterLocks
    BY <1>5, <1>11, HeldTyped
  <2>2. HeldLock(t, k) # l0 /\ g_rlu_writer_locks[HeldLock(t, k)] = t
    BY <1>6, <1>7, <2>1 DEF HoldsOf
  <2> QED
    BY <1>5, <1>9, <2>1, <2>2
<1>12. \A m, k \in Nat : HeldAt(t, m)' /\ HeldAt(t, k)' /\ m # k =>
           HeldLock(t, m)' # HeldLock(t, k)'
  BY <1>5 DEF HoldsOf
<1> QED
  BY <1>8, <1>10, <1>11, <1>12 DEF HoldsOf

\* A thread that gives its writer locks back has locked nothing any more: the
\* coarse type defers no write-back.
LEMMA NothingLocked ==
    ASSUME LogInv, Coarse, NEW t \in Threads, Releasing(t),
           NEW o \in Objs, NEW c \in Addr, p_obj_copy[o] = c
    PROVE  c.th # t
<1> SUFFICES ASSUME c.th = t PROVE FALSE
  OBVIOUS
<1>1. OwnedBy(o, c) /\ ~Installing(t, o, c)
  BY DEF LogInv, LockInv, Owned, Releasing, Installing
<1>2. PICK n \in Nat, k \in Nat : Live(t, n, k)
  BY <1>1 DEF OwnedBy
<1>3. ws_wb_counter[t] <= n /\ n < ws_tail_counter[t]
  BY <1>2, CounterTypes DEF Live, First, BackLabels, Releasing, InSection, LogInv
<1>4. ws_tail_counter[t] < ws_wb_counter[t] + max_write_sets
  BY DEF LogInv, Ring, RingOf, Syncing, SyncLabels, Releasing
<1> QED
  BY <1>3, <1>4, CounterTypes, WriteSetsAssumption DEF LogInv

LEMMA PointersStep ==
    ASSUME LogInv, NEW t \in Threads, Thread(t),
           NEW o \in Objs, NEW c \in Addr, p_obj_copy'[o] = c
    PROVE  p_obj_copy[o] = c \/ (TryLockCas(t) /\ o = cur_obj[t] /\ c = cur_copy[t])
<1>1. p_obj_copy \in [Objs -> Addr \cup {NULL}] /\ c # NULL
  BY CopyTypes DEF LogInv
<1>2. ASSUME NEW o0, p_obj_copy' = [p_obj_copy EXCEPT ![o0] = NULL] PROVE p_obj_copy[o] = c
  BY <1>1, <1>2
<1>3. CASE Unlock(t) \/ UnlockObjs(t)
  <2>1. UNCHANGED p_obj_copy \/ \E o0 : p_obj_copy' = [p_obj_copy EXCEPT ![o0] = NULL]
    BY <1>3 DEF Unlock, UnlockObjs
  <2> QED
    BY <1>2, <2>1
<1>4. CASE TryLockCopy(t) \/ Stays(t)
  BY <1>4 DEF TryLockCopy, Stays
<1>5. CASE TryLockCas(t)
  BY <1>1, <1>5 DEF TryLockCas
<1> QED
  BY <1>3, <1>4, <1>5, LogSteps DEF LogInv

\* A thread comes to the CAS from rlu_try_lock, which the coarse type calls
\* under the writer lock, and to the copy from the CAS.
LEMMA CasSteps ==
    ASSUME LogInv, NEW t \in Threads, Thread(t), pc'[t] \in {"cas", "copy"}
    PROVE  /\ UNCHANGED g_rlu_writer_locks
           /\ \/ pc[t] = "cas" /\ cur_obj'[t] = cur_obj[t]
              \/ \E o \in Objs : TryLock(t, o) /\ cur_obj'[t] = o
<1> USE CounterTypes DEF Goto, LogInv
<1>1. CASE ThreadInit(t) \/ ThreadPublish(t) \/ SyncCheckpoint(t)
  BY <1>1 DEF ThreadInit, ThreadPublish, SyncCheckpoint, Checkpoint, SyncCall
<1>2. CASE ThreadFinish(t) \/ ThreadFinish2(t)
  BY <1>2 DEF ThreadFinish, ThreadFinish2, SyncCall
<1>3. CASE Begin(t)
  BY <1>3 DEF Begin, ReaderLock, Register, ReadVersion, ReadCommitVersion, Checkpoint, SyncCall
<1>4. CASE Steal(t) \/ TryLockCopy(t) \/ SendSyncRequest(t)
  BY <1>4 DEF Steal, TryLockCopy, SendSyncRequest
<1>5. CASE TryLockCas(t)
  BY <1>5 DEF TryLockCas
<1>6. ASSUME NEW o \in Objs, Deref(t, o) \/ DerefLocked(t, o) PROVE FALSE
  BY <1>6 DEF Deref, DerefLocked
<1>7. ASSUME NEW o \in Objs, TryLockOwn(t, o) \/ TryLockFail(t, o) PROVE FALSE
  BY <1>7 DEF TryLockOwn, TryLockFail, MayLock
<1>8. ASSUME NEW o \in Objs, TryLock(t, o)
      PROVE  cur_obj'[t] = o /\ UNCHANGED g_rlu_writer_locks
  BY <1>8, CopyTypes DEF TryLock
<1>9. ASSUME NEW l \in WriterLocks, TryWriterLock(t, l) PROVE FALSE
  BY <1>9 DEF TryWriterLock
<1>10. CASE End(t)
  BY <1>10 DEF End, ReaderUnlock, CommitUnlock, Abort, UnlockObjs, ReleaseWriterLock,
     ReleaseEnd, Releasing, Checkpoint, SyncCall
<1>11. CASE Sync(t)
  BY <1>11 DEF Sync, SyncLoad, SyncStore, SyncBump, Scan, ScanEnd, Wait, ResetWriteSets,
     Writeback, Unlock, SyncUnstamp, SyncCommit, SyncEnd, Returns
<1> QED
  BY <1>1, <1>2, <1>3, <1>4, <1>5, <1>6, <1>7, <1>8, <1>9, <1>10, <1>11
  DEF Thread, Access

\* What a step of t does to the writer locks: it takes one that is free, gives
\* one of its own back, or changes none.
LEMMA WriterLockSteps ==
    ASSUME TypeInv, Ring, NEW t \in Threads, Thread(t), HoldsOf(t)
    PROVE  /\ HoldsOf(t)'
           /\ \/ UNCHANGED g_rlu_writer_locks
              \/ \E l0 \in WriterLocks :
                    /\ g_rlu_writer_locks[l0] = NULL /\ UNCHANGED p_obj_copy
                    /\ g_rlu_writer_locks' = [g_rlu_writer_locks EXCEPT ![l0] = t]
              \/ Releasing(t) /\ \E l0 \in WriterLocks :
                    /\ g_rlu_writer_locks[l0] = t /\ UNCHANGED p_obj_copy
                    /\ g_rlu_writer_locks' = [g_rlu_writer_locks EXCEPT ![l0] = NULL]
<1>1. CASE HeldQuiet(t)
  BY <1>1, HoldsKeep, HeldTyped DEF HeldQuiet
<1>2. CASE ReleaseWriterLock(t)
  BY <1>2, HoldsGiven DEF ReleaseWriterLock
<1>3. ASSUME NEW l \in WriterLocks, TryWriterLock(t, l), g_rlu_writer_locks[l] = NULL
      PROVE  /\ HoldsOf(t)' /\ UNCHANGED p_obj_copy
             /\ g_rlu_writer_locks' = [g_rlu_writer_locks EXCEPT ![l] = t]
  BY <1>3, HoldsTaken DEF TryWriterLock
<1>4. ASSUME NEW l \in WriterLocks, TryWriterLock(t, l), g_rlu_writer_locks[l] # NULL
      PROVE  HeldQuiet(t)
  <2>1. /\ pc[t] = "section" /\ pc'[t] = "failed"
        /\ UNCHANGED <<g_rlu_writer_locks, ws_tail_counter, ws_writer_locks>>
    BY <1>4, CounterTypes DEF TryWriterLock, Goto
  <2>2. Idle(t)
    BY <2>1 DEF Idle, Open, InSection, Holding, Given, Releasing
  <2> QED
    BY <2>2, IdleQuiet
<1> QED
  BY <1>1, <1>2, <1>3, <1>4, HeldSteps

LEMMA CoarseStep ==
    ASSUME LogInv, Coarse, CoarseInv, NEW t \in Threads, Thread(t)
    PROVE  CoarseInv'
<1>0. /\ \A o \in Objs : LockOf[o] \in WriterLocks
      /\ g_rlu_writer_locks \in [WriterLocks -> Threads \cup {NULL}]
      /\ HoldsOf(t) /\ TypeInv /\ Ring
  BY ObjectsAssumption DEF LogInv, TypeInv, TypeOK, GlobalTypes, CoarseInv
<1>1. /\ HoldsOf(t)'
      /\ \A l \in WriterLocks :
            \/ g_rlu_writer_locks'[l] = g_rlu_writer_locks[l]
            \/ g_rlu_writer_locks[l] = NULL /\ g_rlu_writer_locks'[l] = t
            \/ /\ g_rlu_writer_locks[l] = t /\ g_rlu_writer_locks'[l] = NULL
               /\ Releasing(t)
      /\ \/ UNCHANGED g_rlu_writer_locks
         \/ UNCHANGED p_obj_copy
  <2>1. CASE UNCHANGED g_rlu_writer_locks
    BY <1>0, <2>1, WriterLockSteps
  <2>2. CASE \E l0 \in WriterLocks :
                 /\ g_rlu_writer_locks[l0] = NULL /\ UNCHANGED p_obj_copy
                 /\ g_rlu_writer_locks' = [g_rlu_writer_locks EXCEPT ![l0] = t]
    BY <1>0, <2>2, WriterLockSteps
  <2>3. CASE Releasing(t) /\ \E l0 \in WriterLocks :
                 /\ g_rlu_writer_locks[l0] = t /\ UNCHANGED p_obj_copy
                 /\ g_rlu_writer_locks' = [g_rlu_writer_locks EXCEPT ![l0] = NULL]
    BY <1>0, <2>3, WriterLockSteps
  <2> QED
    BY <1>0, <2>1, <2>2, <2>3, WriterLockSteps
<1>2. ASSUME NEW u \in Threads \ {t}, NEW l \in WriterLocks
      PROVE  g_rlu_writer_locks'[l] = u <=> g_rlu_writer_locks[l] = u
  BY <1>1, AddressesAssumption
<1>3. ASSUME NEW u \in Threads PROVE HoldsOf(u)'
  <2>1. CASE u = t
    BY <1>1, <2>1
  <2>2. CASE u # t
    <3>1. HoldsOf(u) /\ Same(u)
      BY <2>2, Others DEF CoarseInv, LogInv
    <3> QED
      BY <1>0, <1>2, <2>2, <3>1, HeldSame, HeldTyped, HoldsKeep
  <2> QED
    BY <2>1, <2>2
<1>4. ASSUME NEW o \in Objs, NEW c \in Addr, p_obj_copy'[o] = c
      PROVE  g_rlu_writer_locks'[LockOf[o]] = c.th
  <2>1. CASE p_obj_copy[o] = c
    <3>1. g_rlu_writer_locks[LockOf[o]] = c.th /\ c.th \in Threads
      BY <2>1, CopyTypes DEF CoarseInv, Covered, LogInv
    <3>2. Releasing(t) => c.th # t
      BY <2>1, NothingLocked
    <3> QED
      BY <1>0, <1>1, <3>1, <3>2, AddressesAssumption
  <2>2. CASE TryLockCas(t) /\ o = cur_obj[t] /\ c = cur_copy[t]
    <3>1. c.th = t /\ pc[t] = "cas" /\ UNCHANGED g_rlu_writer_locks
      BY <1>0, <2>2, InstallsOwn DEF TryLockCas
    <3> QED
      BY <2>2, <3>1 DEF CoarseInv, Covered
  <2> QED
    BY <1>4, <2>1, <2>2, PointersStep
<1>5. ASSUME NEW u \in Threads, pc'[u] \in {"cas", "copy"}
      PROVE  g_rlu_writer_locks'[LockOf[cur_obj'[u]]] = u
  <2>1. CASE u = t
    <3>1. /\ UNCHANGED g_rlu_writer_locks
          /\ \/ pc[t] = "cas" /\ cur_obj'[t] = cur_obj[t]
             \/ \E o \in Objs : TryLock(t, o) /\ cur_obj'[t] = o
      BY <1>5, <2>1, CasSteps
    <3>2. ASSUME NEW o \in Objs, TryLock(t, o) PROVE g_rlu_writer_locks[LockOf[o]] = t
      BY <3>2 DEF TryLock, MayLock
    <3> QED
      BY <2>1, <3>1, <3>2 DEF CoarseInv, Covered
  <2>2. CASE u # t
    <3>1. /\ pc[u] \in {"cas", "copy"} /\ cur_obj'[u] = cur_obj[u]
          /\ cur_obj[u] \in Objs
      BY <1>0, <1>5, <2>2, Others, CopyTypes DEF Same
    <3>2. g_rlu_writer_locks[LockOf[cur_obj[u]]] = u
      BY <3>1 DEF CoarseInv, Covered
    <3> QED
      BY <1>0, <1>2, <2>2, <3>1, <3>2
  <2> QED
    BY <2>1, <2>2
<1> QED
  BY <1>3, <1>4, <1>5 DEF CoarseInv, Covered

LEMMA CoarseInit == Init => CoarseInv
<1> SUFFICES ASSUME Init, Coarse PROVE (\A t \in Threads : HoldsOf(t)) /\ Covered
  BY DEF CoarseInv
<1>1. /\ \A l \in WriterLocks : g_rlu_writer_locks[l] = NULL
      /\ \A o \in Objs : p_obj_copy[o] \notin Addr
      /\ \A t \in Threads : pc[t] \in {"idle", "new"}
  BY AddressesAssumption DEF Init
<1>2. ASSUME NEW t \in Threads, NEW k \in Nat PROVE ~HeldAt(t, k)
  BY <1>1 DEF HeldAt, Holding, Open, InSection, Syncing, SyncLabels
<1>3. \A t \in Threads : HoldsOf(t)
  BY <1>1, <1>2, AddressesAssumption DEF HoldsOf
<1> QED
  BY <1>1, <1>3 DEF Covered

\* In the coarse type, g_rlu_writer_locks agrees with the writer locks noted in the
\* write-sets, and no object is locked without its writer lock.
THEOREM CoarseInvariant == Spec => [](ValueInv /\ CoarseInv)
<1>1. LogInv /\ CoarseInv /\ [Next]_vars => CoarseInv'
  <2> SUFFICES ASSUME LogInv, CoarseInv, [Next]_vars PROVE CoarseInv'
    OBVIOUS
  <2>1. CASE UNCHANGED vars \/ Terminated
    <3>1. \A t \in Threads : Same(t)
      BY <2>1 DEF Terminated, Same
    <3>2. UNCHANGED <<g_rlu_writer_locks, p_obj_copy, pc, cur_obj>>
      BY <2>1 DEF Terminated
    <3>3. ASSUME NEW t \in Threads, HoldsOf(t) PROVE HoldsOf(t)'
      BY <3>1, <3>2, <3>3, HeldSame, HeldTyped, HoldsKeep DEF LogInv
    <3>4. Covered => Covered'
      BY <3>2 DEF Covered
    <3> QED
      BY <3>3, <3>4 DEF CoarseInv
  <2>2. ASSUME NEW t \in Threads, Thread(t) PROVE CoarseInv'
    <3>1. CASE Coarse
      BY <2>2, <3>1, CoarseStep
    <3>2. CASE ~Coarse
      BY <3>2 DEF CoarseInv
    <3> QED
      BY <3>1, <3>2
  <2> QED
    BY <2>1, <2>2 DEF Next
<1>2. ValueInv => LogInv
  BY DEF ValueInv
<1> QED
  BY <1>1, <1>2, CoarseInit, ValueInvariant, PTL DEF Spec

\* rlu_lock never fails (rlu.c:942): whoever has the writer lock of an object finds
\* it unlocked or locked by the same section, for any number of writers, writer
\* locks and objects, after aborts and in the middle of other write-backs.
THEOREM LockNeverFails == Spec => []CoarseLockNeverFails
<1>1. ValueInv /\ CoarseInv => CoarseLockNeverFails
  <2> SUFFICES ASSUME ValueInv, CoarseInv, NEW t \in Threads, NEW o \in Objs,
                      pc[t] \in {"section", "cas"}, Coarse,
                      g_rlu_writer_locks[LockOf[o]] = t, p_obj_copy[o] # NULL
               PROVE  p_obj_copy[o].th = t /\ At(p_obj_copy[o]).run = run_counter[t]
    BY DEF CoarseLockNeverFails
  <2>1. PICK c \in Addr : c = p_obj_copy[o]
    BY CopyTypes DEF ValueInv, LogInv
  <2>2. c.th = t
    BY <2>1 DEF CoarseInv, Covered
  <2>3. OwnedBy(o, c)
    BY <2>1 DEF ValueInv, LogInv, LockInv, Owned
  <2>4. PICK n \in Nat, k \in Nat : Live(t, n, k) /\ c = CopyAt(t, n, k)
    BY <2>2, <2>3 DEF OwnedBy, Installing
  <2>5. ws_wb_counter[t] <= n /\ n <= ws_tail_counter[t] /\ Kept(t, n, k)
    BY <2>4, LiveEntry DEF ValueInv, LogInv, Values
  <2>6. ws_tail_counter[t] < ws_wb_counter[t] + max_write_sets
    BY DEF ValueInv, LogInv, Ring, RingOf, Syncing, SyncLabels
  <2>7. n = ws_tail_counter[t]
    BY <2>5, <2>6, CounterTypes, WriteSetsAssumption DEF ValueInv, LogInv
  <2>8. WriteSet(t, n)[k].run = run_counter[t]
    BY <2>5, <2>7 DEF Kept, InSection
  <2>9. At(c) = WriteSet(t, n)[k]
    BY <2>4 DEF At, CopyAt, WriteSet
  <2> QED
    BY <2>1, <2>2, <2>8, <2>9
<1> QED
  BY <1>1, CoarseInvariant, PTL

\* Writer locks cover the write-back and the roll-back (README-RLU.md:87): as long
\* as an object is locked its owner has the writer lock, and no thread keeps a
\* writer lock between its sections.
THEOREM WriterLocksHold == Spec => []WriterLocksCover
<1>1. ValueInv /\ CoarseInv => WriterLocksCover
  <2> SUFFICES ASSUME ValueInv, CoarseInv, Coarse PROVE WriterLocksCover
    BY DEF WriterLocksCover
  <2>1. ASSUME NEW o \in Objs, p_obj_copy[o] # NULL
        PROVE  g_rlu_writer_locks[LockOf[o]] = p_obj_copy[o].th
    <3>1. PICK c \in Addr : c = p_obj_copy[o]
      BY <2>1, CopyTypes DEF ValueInv, LogInv
    <3> QED
      BY <3>1 DEF CoarseInv, Covered
  <2>2. ASSUME NEW l \in WriterLocks, g_rlu_writer_locks[l] # NULL
        PROVE  pc[g_rlu_writer_locks[l]] \notin {"idle", "register", "version"}
    <3>1. PICK t \in Threads : t = g_rlu_writer_locks[l]
      BY <2>2 DEF ValueInv, LogInv, TypeInv, TypeOK, GlobalTypes
    <3>2. Holding(t)
      BY <3>1 DEF CoarseInv, HoldsOf, HeldAt
    <3> QED
      BY <3>1, <3>2 DEF Holding, Open, InSection, Syncing, SyncLabels
  <2> QED
    BY <2>1, <2>2 DEF WriterLocksCover
<1> QED
  BY <1>1, CoarseInvariant, PTL
=============================================================================
