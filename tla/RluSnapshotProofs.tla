------------------------- MODULE RluSnapshotProofs -------------------------
(***************************************************************************)
(* What a section sees of the others' updates.                             *)
(*                                                                         *)
(* A. The copies that sections take from other threads stay as they are    *)
(* while the section lasts, and none is left when their owner has          *)
(* finished.  This holds for fine-grained writers too, however stale their *)
(* stamps, until g_rlu_writer_version reaches MAX_VERSION.  A section      *)
(* takes a copy only from a writer whose stamp is not above its            *)
(* local_version.  So the synchronisation that writes the copy back does   *)
(* not wait for the section, and the one that reuses its slot is a later   *)
(* one, with a stamp above the local_version: that one waits.              *)
(*                                                                         *)
(* B. What a section sees is one snapshot, and C. Rlu implements           *)
(* RluSnapshot, provided that synchronisations do not overlap: then the    *)
(* version a writer stamps itself with is the one it publishes.  A single  *)
(* writer and a single writer lock both provide for it; two fine-grained   *)
(* writers do not.                                                         *)
(***************************************************************************)
EXTENDS RluLogProofs, RluImplements

USE DEF vars, objVars, versionVars, joinVars, globalVars, peerVars, flagVars,
        counterVars, logVars, ownVars, syncVars, loopVars, ctlVars, callVars,
        ghostVars, clientVars

-----------------------------------------------------------------------------
(* A. The copies that sections take. *)

\* MAX_VERSION is LONG_MAX - 1 (rlu.c:36): above every version in use.
VersionsBelowMax == g_rlu_writer_version < MAX_VERSION

StampedLabels == {"bump", "scan", "wait", "reset", "writeback", "unlock"}

Unstamped ==
    \A t \in Threads : pc[t] \notin StampedLabels => writer_version[t] = MAX_VERSION

\* The synchronisation that t is in, if any, waits for the section of u.
Behind(u, t) ==
    /\ pc[t] = "store" => local_version[u] < stamp[t]
    /\ pc[t] \in StampedLabels => local_version[u] < writer_version[t]

\* c is the copy of o in the committed write-set with counter n of its owner.
CopyOf(o, c, n) ==
    /\ n < ws_tail_counter[c.th]
    /\ c.ws = WS_INDEX(n)
    /\ c.ix \in DOMAIN WriteSet(c.th, n)
    /\ WriteSet(c.th, n)[c.ix].obj = o

\* A section that has read a header and will read the owner's writer_version.
MayTake(u, o, c) ==
    pc[c.th] \in StampedLabels \cup {"store"} =>
        \/ Behind(u, c.th)
        \/ \E n \in Nat : ws_wb_counter[c.th] <= n /\ CopyOf(o, c, n)

Pending ==
    \A u \in Threads : \A o \in Objs : \A c \in Addr :
        (pc[u] = "steal" /\ cur_obj[u] = o /\ cur_copy[u] = c) =>
            c.th # u /\ MayTake(u, o, c)

\* A copy that a section has taken is in the ring of its owner, and if it is
\* written back, the next synchronisation of the owner waits for the section.
HasTaken(u, o, c) ==
    \E n \in Nat : /\ ws_head_counter[c.th] <= n /\ CopyOf(o, c, n)
                   /\ n < ws_wb_counter[c.th] => Behind(u, c.th)

Taken ==
    \A u \in Threads :
        /\ refs[u] # {} => InSection(u)
        /\ \A o \in Objs : \A c \in Addr :
              (<<o, c>> \in refs[u] /\ c.th # u) => HasTaken(u, o, c)

\* The first synchronisation of rlu_thread_finish leaves nothing to write back,
\* the second one nothing in the ring.
FinishingOf(t) ==
    /\ pc[t] = "finish2" \/ (Syncing(t) /\ ret[t] = "done") =>
          ws_wb_counter[t] = ws_tail_counter[t]
    /\ (\/ pc[t] = "done"
        \/ ret[t] = "done" /\ pc[t] \in {"writeback", "unlock", "commit", "sync_end"})
          => ws_head_counter[t] = ws_tail_counter[t]

Finishing == \A t \in Threads : FinishingOf(t)

StealInv == Unstamped /\ Pending /\ Taken /\ Finishing

-----------------------------------------------------------------------------
(* What a step does to the stamp and to the ring of its thread. *)

LEMMA VersionTypes ==
    ASSUME TypeInv
    PROVE  /\ pc \in [Threads -> Labels] /\ ret \in [Threads -> Returns]
           /\ stamp \in [Threads -> Nat] /\ writer_version \in [Threads -> Nat]
           /\ local_version \in [Threads -> Nat] /\ g_rlu_writer_version \in Nat
           /\ refs \in [Threads -> SUBSET (Objs \X Ptr)]
           /\ MAX_VERSION \in Nat
BY ObjectsAssumption DEF TypeInv, TypeOK, GlobalTypes, PeerTypes, ControlTypes, ClientTypes

LEMMA StampSteps ==
    ASSUME TypeInv, NEW t \in Threads, Thread(t)
    PROVE  \/ /\ pc'[t] \notin StampedLabels \cup {"store"}
              /\ pc[t] \notin StampedLabels /\ writer_version'[t] = writer_version[t]
           \/ /\ pc[t] \in StampedLabels /\ pc'[t] \in StampedLabels
              /\ writer_version'[t] = writer_version[t]
           \/ SyncLoad(t) \/ SyncStore(t) \/ SyncUnstamp(t)
<1> USE VersionTypes DEF StampedLabels, Goto
<1>1. CASE ThreadInit(t) \/ ThreadPublish(t) \/ SyncCheckpoint(t)
  BY <1>1 DEF ThreadInit, ThreadPublish, SyncCheckpoint, Checkpoint, SyncCall
<1>2. CASE ThreadFinish(t) \/ ThreadFinish2(t)
  BY <1>2 DEF ThreadFinish, ThreadFinish2, SyncCall
<1>3. CASE Begin(t)
  BY <1>3 DEF Begin, ReaderLock, Register, ReadVersion, ReadCommitVersion, Checkpoint, SyncCall
<1>4. CASE Steal(t) \/ TryLockCas(t) \/ TryLockCopy(t) \/ SendSyncRequest(t)
  BY <1>4 DEF Steal, TryLockCas, TryLockCopy, SendSyncRequest
<1>5. CASE \E o \in Objs : Deref(t, o) \/ DerefLocked(t, o)
  BY <1>5 DEF Deref, DerefLocked
<1>6. CASE \E o \in Objs : TryLock(t, o) \/ TryLockOwn(t, o) \/ TryLockFail(t, o)
  BY <1>6 DEF TryLock, TryLockOwn, TryLockFail, MayLock
<1>7. CASE \E l \in WriterLocks : TryWriterLock(t, l)
  BY <1>7 DEF TryWriterLock
<1>8. CASE ReaderUnlock(t) \/ CommitUnlock(t) \/ Abort(t)
  BY <1>8 DEF ReaderUnlock, CommitUnlock, Abort, SyncCall
<1>9. CASE UnlockObjs(t) \/ ReleaseWriterLock(t) \/ ReleaseEnd(t)
  BY <1>9 DEF UnlockObjs, ReleaseWriterLock, ReleaseEnd, Releasing, Checkpoint, SyncCall
<1>10. CASE SyncBump(t) \/ Scan(t) \/ ScanEnd(t) \/ Wait(t)
  BY <1>10 DEF SyncBump, Scan, ScanEnd, Wait
<1>11. CASE ResetWriteSets(t) \/ Writeback(t) \/ Unlock(t)
  BY <1>11 DEF ResetWriteSets, Writeback, Unlock
<1>12. CASE SyncCommit(t) \/ SyncEnd(t)
  BY <1>12 DEF SyncCommit, SyncEnd, Returns
<1> QED
  BY <1>1, <1>2, <1>3, <1>4, <1>5, <1>6, <1>7, <1>8, <1>9, <1>10, <1>11, <1>12
  DEF Thread, Access, End, Sync

LEMMA UnstampedStep ==
    ASSUME TypeInv, Unstamped, NEW t \in Threads, Thread(t)
    PROVE  Unstamped'
<1>1. ASSUME NEW u \in Threads, pc'[u] \notin StampedLabels
      PROVE  writer_version'[u] = MAX_VERSION
  <2>1. CASE u # t
    BY <1>1, <2>1, Others DEF Same, Unstamped
  <2>2. CASE u = t /\ SyncUnstamp(t)
    BY <2>2, VersionTypes DEF SyncUnstamp
  <2>3. CASE u = t /\ (SyncLoad(t) \/ SyncStore(t))
    BY <1>1, <2>3, VersionTypes DEF SyncLoad, SyncStore, Goto, Unstamped, StampedLabels
  <2>4. CASE u = t /\ ~(SyncLoad(t) \/ SyncStore(t) \/ SyncUnstamp(t))
    BY <1>1, <2>4, StampSteps DEF Unstamped
  <2> QED
    BY <2>1, <2>2, <2>3, <2>4
<1> QED
  BY <1>1 DEF Unstamped

\* A synchronisation that waits for a section goes on to: it stamps itself with
\* more than any local_version.
LEMMA BehindStep ==
    ASSUME TypeInv, GraceInv, NEW t \in Threads, NEW u \in Threads, Thread(t),
           Behind(u, t), local_version'[u] = local_version[u]
    PROVE  Behind(u, t)'
<1> USE VersionTypes
<1>1. CASE SyncLoad(t)
  <2>1. pc'[t] = "store" /\ stamp'[t] = g_rlu_writer_version + 1
    BY <1>1 DEF SyncLoad, Goto
  <2>2. local_version[u] <= g_rlu_writer_version
    BY DEF GraceInv, Stamped
  <2> QED
    BY <2>1, <2>2 DEF Behind, StampedLabels
<1>2. CASE SyncStore(t)
  <2>1. pc[t] = "store" /\ pc'[t] = "bump" /\ writer_version'[t] = stamp[t]
    BY <1>2 DEF SyncStore, Goto
  <2> QED
    BY <2>1 DEF Behind
<1>3. CASE SyncUnstamp(t)
  <2>1. pc'[t] = "commit"
    BY <1>3 DEF SyncUnstamp, Goto
  <2> QED
    BY <2>1 DEF Behind, StampedLabels
<1>4. CASE pc'[t] \notin StampedLabels \cup {"store"}
  BY <1>4 DEF Behind
<1>5. CASE /\ pc[t] \in StampedLabels /\ pc'[t] \in StampedLabels
           /\ writer_version'[t] = writer_version[t]
  BY <1>5 DEF Behind, StampedLabels
<1> QED
  BY <1>1, <1>2, <1>3, <1>4, <1>5, StampSteps

-----------------------------------------------------------------------------
(* What a step does to the ring of its thread and to what its section has. *)

LEMMA RingSteps ==
    ASSUME TypeInv, NEW t \in Threads, Thread(t)
    PROVE  \/ UNCHANGED <<counterVars, obj_write_set>>
           \/ TryLockCopy(t) \/ CommitUnlock(t) \/ ReleaseEnd(t)
           \/ ResetWriteSets(t) \/ SyncUnstamp(t)
<1>1. CASE ThreadInit(t) \/ ThreadPublish(t) \/ SyncCheckpoint(t)
  BY <1>1 DEF ThreadInit, ThreadPublish, SyncCheckpoint
<1>2. CASE ThreadFinish(t) \/ ThreadFinish2(t)
  BY <1>2 DEF ThreadFinish, ThreadFinish2
<1>3. CASE Begin(t)
  BY <1>3 DEF Begin, ReaderLock, Register, ReadVersion, ReadCommitVersion
<1>4. CASE Steal(t) \/ TryLockCas(t) \/ SendSyncRequest(t)
  BY <1>4 DEF Steal, TryLockCas, SendSyncRequest
<1>5. CASE \E o \in Objs : Deref(t, o) \/ DerefLocked(t, o)
  BY <1>5 DEF Deref, DerefLocked
<1>6. CASE \E o \in Objs : TryLock(t, o) \/ TryLockOwn(t, o) \/ TryLockFail(t, o)
  BY <1>6 DEF TryLock, TryLockOwn, TryLockFail
<1>7. CASE \E l \in WriterLocks : TryWriterLock(t, l)
  BY <1>7 DEF TryWriterLock
<1>8. CASE ReaderUnlock(t) \/ Abort(t) \/ UnlockObjs(t) \/ ReleaseWriterLock(t)
  BY <1>8 DEF ReaderUnlock, Abort, UnlockObjs, ReleaseWriterLock
<1>9. CASE SyncLoad(t) \/ SyncStore(t) \/ SyncBump(t) \/ Scan(t) \/ ScanEnd(t) \/ Wait(t)
  BY <1>9 DEF SyncLoad, SyncStore, SyncBump, Scan, ScanEnd, Wait
<1>10. CASE Writeback(t) \/ Unlock(t) \/ SyncCommit(t) \/ SyncEnd(t)
  BY <1>10 DEF Writeback, Unlock, SyncCommit, SyncEnd
<1> QED
  BY <1>1, <1>2, <1>3, <1>4, <1>5, <1>6, <1>7, <1>8, <1>9, <1>10
  DEF Thread, Access, End, Sync

\* A committed write-set stays as it is until a synchronisation after the one
\* that writes it back resets it.
LEMMA InRingStep ==
    ASSUME LogInv, NEW t \in Threads, Thread(t), NEW n \in Nat,
           ws_head_counter[t] <= n, n < ws_tail_counter[t],
           pc[t] = "reset" => ws_wb_counter[t] <= n
    PROVE  /\ ws_head_counter'[t] <= n /\ n < ws_tail_counter'[t]
           /\ WriteSet(t, n)' = WriteSet(t, n)
           /\ ws_wb_counter'[t] = ws_wb_counter[t] \/ pc'[t] = "commit"
<1>0. /\ TypeInv /\ RingPart(t) /\ RingOf(t) /\ WS_INDEX(n) \in Slots
      /\ n \in ws_head_counter[t] .. ws_tail_counter[t] - 1
  BY CounterTypes, SlotIndex DEF LogInv, Ring, RingPart
<1>1. CASE UNCHANGED <<counterVars, obj_write_set>>
  BY <1>1 DEF WriteSet
<1>2. CASE TryLockCopy(t)
  <2>1. WS_INDEX(n) # WsCurId(t)
    BY <1>0, <1>2, Window DEF TryLockCopy, Syncing, SyncLabels
  <2>2. UNCHANGED counterVars
    BY <1>2 DEF TryLockCopy
  <2> QED
    BY <1>0, <1>2, <2>1, <2>2, CopiedEntry DEF WriteSet
<1>3. CASE CommitUnlock(t)
  BY <1>0, <1>3, CounterTypes DEF CommitUnlock, WriteSet
<1>4. CASE ReleaseEnd(t)
  <2>1. UNCHANGED counterVars
    BY <1>4 DEF ReleaseEnd
  <2>2. CASE pc[t] = "release_cur"
    <3>1. WS_INDEX(n) # WsCurId(t)
      BY <1>0, <2>2, Window DEF Syncing, SyncLabels
    <3>2. obj_write_set' = [obj_write_set EXCEPT ![t][WsCurId(t)] = <<>>]
      BY <1>4, <2>2 DEF ReleaseEnd, ReleaseSlot, WsCurId
    <3>3. WsCurId(t) \in Slots
      BY <1>0, CounterTypes, SlotIndex DEF WsCurId
    <3> QED
      BY <1>0, <2>1, <3>1, <3>2, <3>3, LogTypes DEF WriteSet
  <2>3. CASE pc[t] # "release_cur"
    BY <1>4, <2>1, <2>3 DEF ReleaseEnd, WriteSet
  <2> QED
    BY <2>2, <2>3
<1>5. CASE ResetWriteSets(t)
  <2>1. n \in ws_wb_counter[t] .. ws_tail_counter[t] - 1
    BY <1>0, <1>5, CounterTypes DEF ResetWriteSets
  <2> QED
    BY <1>0, <1>5, <2>1, ResetSlots, CounterTypes DEF WriteSet
<1>6. CASE SyncUnstamp(t)
  BY <1>0, <1>6, CounterTypes DEF SyncUnstamp, Goto, WriteSet
<1> QED
  BY <1>0, <1>1, <1>2, <1>3, <1>4, <1>5, <1>6, RingSteps

\* Only Steal takes a copy of another thread.
LEMMA RefsSteps ==
    ASSUME LogInv, NEW t \in Threads, Thread(t), NEW o \in Objs, NEW c \in Addr,
           <<o, c>> \in refs'[t], c.th # t
    PROVE  \/ <<o, c>> \in refs[t]
           \/ Steal(t) /\ cur_obj[t] = o /\ cur_copy[t] = c /\ MaySteal(t, c.th)
<1>0. TypeInv /\ refs \in [Threads -> SUBSET (Objs \X Ptr)] /\ c \notin Objs
  BY VersionTypes, AddressesAssumption DEF LogInv
<1>1. CASE UNCHANGED refs
  BY <1>1
<1>2. CASE Steal(t)
  <2>1. cur_obj[t] \in Objs /\ cur_copy[t] \in Addr
    BY <1>0, <1>2, CopyTypes DEF Steal
  <2>2. refs'[t] = refs[t] \cup {<<cur_obj[t], IF MaySteal(t, cur_copy[t].th)
                                              THEN cur_copy[t] ELSE cur_obj[t]>>}
    BY <1>0, <1>2 DEF Steal, Got
  <2> QED
    BY <1>0, <1>2, <2>1, <2>2
<1>3. CASE TryLockCopy(t)
  <2>1. cur_copy[t].th = t
    BY <1>0, <1>3, InstallsOwn DEF TryLockCopy, LogInv
  <2>2. refs'[t] = refs[t] \cup {<<cur_obj[t], cur_copy[t]>>}
    BY <1>0, <1>3 DEF TryLockCopy, Got
  <2> QED
    BY <2>1, <2>2
<1>4. ASSUME NEW b \in Objs, Deref(t, b) PROVE <<o, c>> \in refs[t]
  <2> DEFINE d == p_obj_copy[b]
             p == IF is_check_locks[t] /\ d # NULL /\ d.th = t THEN d ELSE b
  <2>1. refs'[t] = refs[t] \cup {<<b, p>>}
    BY <1>0, <1>4 DEF Deref, Got
  <2>2. <<o, c>> # <<b, p>>
    BY <1>0
  <2> QED
    BY <2>1, <2>2
<1>5. ASSUME NEW b \in Objs, TryLockOwn(t, b) PROVE <<o, c>> \in refs[t]
  <2>1. refs'[t] = refs[t] \cup {<<b, p_obj_copy[b]>>} /\ p_obj_copy[b].th = t
    BY <1>0, <1>5 DEF TryLockOwn, Got
  <2> QED
    BY <2>1
<1>6. CASE ReaderUnlock(t) \/ CommitUnlock(t) \/ Abort(t)
  BY <1>0, <1>6 DEF ReaderUnlock, CommitUnlock, Abort, LeaveSection
<1>7. CASE ThreadInit(t) \/ ThreadPublish(t) \/ SyncCheckpoint(t)
  BY <1>1, <1>7 DEF ThreadInit, ThreadPublish, SyncCheckpoint
<1>8. CASE ThreadFinish(t) \/ ThreadFinish2(t)
  BY <1>1, <1>8 DEF ThreadFinish, ThreadFinish2
<1>9. CASE Begin(t)
  BY <1>1, <1>9 DEF Begin, ReaderLock, Register, ReadVersion, ReadCommitVersion
<1>10. ASSUME NEW b \in Objs, DerefLocked(t, b) \/ TryLock(t, b) \/ TryLockFail(t, b)
       PROVE  <<o, c>> \in refs[t]
  BY <1>1, <1>10 DEF DerefLocked, TryLock, TryLockFail
<1>11. CASE TryLockCas(t) \/ SendSyncRequest(t) \/ (\E l \in WriterLocks : TryWriterLock(t, l))
  BY <1>1, <1>11 DEF TryLockCas, TryWriterLock, SendSyncRequest
<1>12. CASE UnlockObjs(t) \/ ReleaseWriterLock(t) \/ ReleaseEnd(t)
  BY <1>1, <1>12 DEF UnlockObjs, ReleaseWriterLock, ReleaseEnd
<1>13. CASE Sync(t)
  BY <1>1, <1>13 DEF Sync, SyncLoad, SyncStore, SyncBump, Scan, ScanEnd, Wait,
     ResetWriteSets, Writeback, Unlock, SyncUnstamp, SyncCommit, SyncEnd
<1> QED
  BY <1>2, <1>3, <1>4, <1>5, <1>6, <1>7, <1>8, <1>9, <1>10, <1>11, <1>12, <1>13
  DEF Thread, Access, End

\* A section has pointers only after it has read its local_version.
LEMMA SectionKeeps ==
    ASSUME TypeInv, NEW t \in Threads, Thread(t), refs[t] # {} => InSection(t),
           refs'[t] # {}
    PROVE  InSection(t)' /\ local_version'[t] = local_version[t]
<1> USE VersionTypes DEF InSection, Goto
<1>1. CASE ThreadInit(t) \/ ThreadPublish(t) \/ SyncCheckpoint(t)
  BY <1>1 DEF ThreadInit, ThreadPublish, SyncCheckpoint
<1>2. CASE ThreadFinish(t) \/ ThreadFinish2(t)
  BY <1>2 DEF ThreadFinish, ThreadFinish2
<1>3. CASE Begin(t)
  BY <1>3 DEF Begin, ReaderLock, Register, ReadVersion, ReadCommitVersion
<1>4. CASE Steal(t) \/ TryLockCas(t) \/ TryLockCopy(t) \/ SendSyncRequest(t)
  BY <1>4 DEF Steal, TryLockCas, TryLockCopy, SendSyncRequest
<1>5. CASE \E o \in Objs : Deref(t, o) \/ DerefLocked(t, o)
  BY <1>5 DEF Deref, DerefLocked
<1>6. CASE \E o \in Objs : TryLock(t, o) \/ TryLockOwn(t, o) \/ TryLockFail(t, o)
  BY <1>6 DEF TryLock, TryLockOwn, TryLockFail, MayLock
<1>7. CASE \E l \in WriterLocks : TryWriterLock(t, l)
  BY <1>7 DEF TryWriterLock
<1>8. CASE ReaderUnlock(t) \/ CommitUnlock(t) \/ Abort(t)
  BY <1>8 DEF ReaderUnlock, CommitUnlock, Abort, LeaveSection
<1>9. CASE UnlockObjs(t) \/ ReleaseWriterLock(t) \/ ReleaseEnd(t)
  BY <1>9 DEF UnlockObjs, ReleaseWriterLock, ReleaseEnd, Releasing
<1>10. CASE SyncLoad(t) \/ SyncStore(t) \/ SyncBump(t) \/ Scan(t) \/ ScanEnd(t) \/ Wait(t)
  BY <1>10 DEF SyncLoad, SyncStore, SyncBump, Scan, ScanEnd, Wait
<1>11. CASE ResetWriteSets(t) \/ Writeback(t) \/ Unlock(t)
  BY <1>11 DEF ResetWriteSets, Writeback, Unlock
<1>12. CASE SyncUnstamp(t) \/ SyncCommit(t) \/ SyncEnd(t)
  BY <1>12 DEF SyncUnstamp, SyncCommit, SyncEnd
<1> QED
  BY <1>1, <1>2, <1>3, <1>4, <1>5, <1>6, <1>7, <1>8, <1>9, <1>10, <1>11, <1>12
  DEF Thread, Access, End, Sync

-----------------------------------------------------------------------------
(* The header that a section has read. *)

\* The steps of the other threads leave the owner alone.
LEMMA CopySame ==
    ASSUME NEW o, NEW c, Same(c.th)
    PROVE  /\ \A n : CopyOf(o, c, n)' <=> CopyOf(o, c, n)
           /\ \A u : local_version'[u] = local_version[u] =>
                        /\ Behind(u, c.th)' <=> Behind(u, c.th)
                        /\ MayTake(u, o, c)' <=> MayTake(u, o, c)
                        /\ HasTaken(u, o, c)' <=> HasTaken(u, o, c)
<1>1. \A n : CopyOf(o, c, n)' <=> CopyOf(o, c, n)
  BY DEF Same, CopyOf, WriteSet
<1>2. ASSUME NEW u, local_version'[u] = local_version[u]
      PROVE  Behind(u, c.th)' <=> Behind(u, c.th)
  BY <1>2 DEF Same, Behind
<1>3. /\ pc'[c.th] = pc[c.th] /\ ws_wb_counter'[c.th] = ws_wb_counter[c.th]
      /\ ws_head_counter'[c.th] = ws_head_counter[c.th]
  BY DEF Same
<1> QED
  BY <1>1, <1>2, <1>3 DEF MayTake, HasTaken

\* A section reads the header of a copy that the current synchronisation of its
\* owner writes back, if there is one.
LEMMA ReadHeader ==
    ASSUME LogInv, NEW u \in Threads, NEW o \in Objs, NEW c \in Addr, p_obj_copy[o] = c
    PROVE  MayTake(u, o, c)
<1> DEFINE w == c.th
<1> SUFFICES ASSUME pc[w] \in StampedLabels \cup {"store"}
             PROVE  \E n \in Nat : ws_wb_counter[w] <= n /\ CopyOf(o, c, n)
  BY DEF MayTake
<1>1. TypeInv /\ Ring /\ w \in Threads /\ OwnedBy(o, c)
  BY CopyTypes DEF LogInv, LockInv, Owned
<1>2. ~Installing(w, o, c)
  BY DEF Installing, StampedLabels
<1>3. PICK n \in Nat, k \in Nat : /\ Live(w, n, k) /\ c = CopyAt(w, n, k)
                                  /\ WriteSet(w, n)[k].obj = o
  BY <1>1, <1>2 DEF OwnedBy
<1>4. ws_wb_counter[w] <= n /\ n <= ws_tail_counter[w] /\ k \in DOMAIN WriteSet(w, n)
  BY <1>1, <1>3, LiveEntry
<1>5. n # ws_tail_counter[w]
  BY <1>3 DEF Live, InSection, StampedLabels
<1>6. c.ws = WS_INDEX(n) /\ c.ix = k /\ n < ws_tail_counter[w]
  BY <1>1, <1>3, <1>4, <1>5, CounterTypes DEF CopyAt
<1> QED
  BY <1>3, <1>4, <1>6 DEF CopyOf

LEMMA ToSteal ==
    ASSUME TypeInv, NEW t \in Threads, Thread(t), pc'[t] = "steal"
    PROVE  \E o \in Objs : DerefLocked(t, o)
<1> USE VersionTypes DEF Goto
<1>1. CASE ThreadInit(t) \/ ThreadPublish(t) \/ SyncCheckpoint(t)
  BY <1>1 DEF ThreadInit, ThreadPublish, SyncCheckpoint, Checkpoint, SyncCall
<1>2. CASE ThreadFinish(t) \/ ThreadFinish2(t)
  BY <1>2 DEF ThreadFinish, ThreadFinish2, SyncCall
<1>3. CASE Begin(t)
  BY <1>3 DEF Begin, ReaderLock, Register, ReadVersion, ReadCommitVersion, Checkpoint, SyncCall
<1>4. CASE Steal(t) \/ TryLockCas(t) \/ TryLockCopy(t) \/ SendSyncRequest(t)
  BY <1>4 DEF Steal, TryLockCas, TryLockCopy, SendSyncRequest
<1>5. CASE \E o \in Objs : Deref(t, o)
  BY <1>5 DEF Deref
<1>6. CASE \E o \in Objs : TryLock(t, o) \/ TryLockOwn(t, o) \/ TryLockFail(t, o)
  BY <1>6 DEF TryLock, TryLockOwn, TryLockFail, MayLock
<1>7. CASE \E l \in WriterLocks : TryWriterLock(t, l)
  BY <1>7 DEF TryWriterLock
<1>8. CASE ReaderUnlock(t) \/ CommitUnlock(t) \/ Abort(t)
  BY <1>8 DEF ReaderUnlock, CommitUnlock, Abort, SyncCall
<1>9. CASE UnlockObjs(t) \/ ReleaseWriterLock(t) \/ ReleaseEnd(t)
  BY <1>9 DEF UnlockObjs, ReleaseWriterLock, ReleaseEnd, Releasing, Checkpoint, SyncCall
<1>10. CASE SyncLoad(t) \/ SyncStore(t) \/ SyncBump(t) \/ Scan(t) \/ ScanEnd(t) \/ Wait(t)
  BY <1>10 DEF SyncLoad, SyncStore, SyncBump, Scan, ScanEnd, Wait
<1>11. CASE ResetWriteSets(t) \/ Writeback(t) \/ Unlock(t)
  BY <1>11 DEF ResetWriteSets, Writeback, Unlock
<1>12. CASE SyncUnstamp(t) \/ SyncCommit(t) \/ SyncEnd(t)
  BY <1>12 DEF SyncUnstamp, SyncCommit, SyncEnd, Returns
<1> QED
  BY <1>1, <1>2, <1>3, <1>4, <1>5, <1>6, <1>7, <1>8, <1>9, <1>10, <1>11, <1>12
  DEF Thread, Access, End, Sync

LEMMA MayTakeStep ==
    ASSUME LogInv, GraceInv, NEW u \in Threads, NEW o \in Objs, NEW c \in Addr,
           Thread(c.th), MayTake(u, o, c), local_version'[u] = local_version[u]
    PROVE  MayTake(u, o, c)'
<1> DEFINE w == c.th
<1>0. TypeInv /\ RingOf(w) /\ w \in Threads
  BY CopyTypes DEF LogInv, Ring
<1>1. CASE pc'[w] \notin StampedLabels \cup {"store"}
  BY <1>1 DEF MayTake
<1>2. CASE SyncLoad(w)
  <2>1. pc'[w] = "store" /\ stamp'[w] = g_rlu_writer_version + 1
    BY <1>0, <1>2, VersionTypes DEF SyncLoad, Goto
  <2>2. local_version[u] <= g_rlu_writer_version
    BY DEF GraceInv, Stamped
  <2>3. Behind(u, w)'
    BY <1>0, <2>1, <2>2, VersionTypes DEF Behind, StampedLabels
  <2> QED
    BY <2>3 DEF MayTake
<1>3. CASE pc[w] \in StampedLabels \cup {"store"} /\ pc'[w] # "commit"
  <2>1. CASE Behind(u, w)
    BY <1>0, <2>1, BehindStep DEF MayTake
  <2>2. CASE ~Behind(u, w)
    <3>1. PICK n \in Nat : ws_wb_counter[w] <= n /\ CopyOf(o, c, n)
      BY <1>3, <2>2 DEF MayTake
    <3>2. ws_head_counter[w] <= n /\ n < ws_tail_counter[w]
      BY <1>0, <3>1, CounterTypes DEF RingOf, CopyOf
    <3>3. /\ n < ws_tail_counter'[w] /\ WriteSet(w, n)' = WriteSet(w, n)
          /\ ws_wb_counter'[w] = ws_wb_counter[w]
      BY <1>0, <1>3, <3>1, <3>2, InRingStep
    <3>4. CopyOf(o, c, n)'
      BY <3>1, <3>3 DEF CopyOf
    <3> QED
      BY <3>1, <3>3, <3>4 DEF MayTake
  <2> QED
    BY <2>1, <2>2
<1>4. SyncStore(w) => pc[w] = "store" /\ pc'[w] = "bump"
  BY <1>0, VersionTypes DEF SyncStore, Goto
<1>5. SyncUnstamp(w) => pc'[w] = "commit"
  BY <1>0, VersionTypes DEF SyncUnstamp, Goto
<1>6. "commit" \notin StampedLabels \cup {"store"}
  BY DEF StampedLabels
<1> QED
  BY <1>0, <1>1, <1>2, <1>3, <1>4, <1>5, <1>6, StampSteps

LEMMA PendingStep ==
    ASSUME LogInv, GraceInv, Pending, NEW t \in Threads, Thread(t)
    PROVE  Pending'
<1> SUFFICES ASSUME NEW u \in Threads, NEW o \in Objs, NEW c \in Addr,
                    pc'[u] = "steal", cur_obj'[u] = o, cur_copy'[u] = c
             PROVE  c.th # u /\ MayTake(u, o, c)'
  BY DEF Pending
<1>0. TypeInv /\ c.th \in Threads
  BY CopyTypes DEF LogInv
<1>1. CASE u # t
  <2>1. Same(u)
    BY <1>0, <1>1, Others
  <2>2. c.th # u /\ MayTake(u, o, c) /\ local_version'[u] = local_version[u]
    BY <2>1 DEF Pending, Same
  <2>3. CASE c.th = t
    BY <2>2, <2>3, MayTakeStep
  <2>4. CASE c.th # t
    <3>1. Same(c.th)
      BY <1>0, <2>4, Others
    <3> QED
      BY <2>2, <3>1, CopySame
  <2> QED
    BY <2>2, <2>3, <2>4
<1>2. CASE u = t
  <2>1. PICK b \in Objs : DerefLocked(t, b)
    BY <1>0, <1>2, ToSteal
  <2>2. /\ b = o /\ p_obj_copy[o] = c /\ c.th # t
        /\ local_version'[t] = local_version[t]
    BY <1>0, <1>2, <2>1, CopyTypes DEF DerefLocked
  <2>3. MayTake(t, o, c) /\ Same(c.th)
    BY <1>0, <2>2, ReadHeader, Others
  <2> QED
    BY <1>2, <2>2, <2>3, CopySame
<1> QED
  BY <1>1, <1>2

-----------------------------------------------------------------------------
(* The copies that a section has taken. *)

\* The owner of a copy that a section has taken does not reset its write-set.
LEMMA TakenInRing ==
    ASSUME LogInv, GraceInv, NEW u \in Threads, NEW o \in Objs, NEW c \in Addr,
           NEW n \in Nat, c.th # u, InSection(u), Thread(c.th),
           ws_head_counter[c.th] <= n, CopyOf(o, c, n),
           n < ws_wb_counter[c.th] => Behind(u, c.th)
    PROVE  /\ ws_head_counter'[c.th] <= n /\ n < ws_tail_counter'[c.th]
           /\ WriteSet(c.th, n)' = WriteSet(c.th, n)
           /\ ws_wb_counter'[c.th] = ws_wb_counter[c.th] \/ pc'[c.th] = "commit"
<1> DEFINE w == c.th
<1>0. TypeInv /\ w \in Threads /\ n < ws_tail_counter[w]
  BY CopyTypes DEF LogInv, CopyOf
<1>1. ASSUME pc[w] = "reset" PROVE ws_wb_counter[w] <= n
  <2>1. local_version[u] >= writer_version[w]
    BY <1>0, <1>1 DEF GraceInv, Scanned, Waited, LateEnough
  <2>2. ~Behind(u, w)
    BY <1>0, <1>1, <2>1, VersionTypes DEF Behind, StampedLabels
  <2> QED
    BY <1>0, <2>2, CounterTypes
<1> QED
  BY <1>0, <1>1, InRingStep

LEMMA HasTakenStep ==
    ASSUME LogInv, GraceInv, NEW u \in Threads, NEW o \in Objs, NEW c \in Addr,
           c.th # u, InSection(u), Thread(c.th), HasTaken(u, o, c),
           local_version'[u] = local_version[u]
    PROVE  HasTaken(u, o, c)'
<1> DEFINE w == c.th
<1>0. TypeInv /\ w \in Threads
  BY CopyTypes DEF LogInv
<1>1. PICK n \in Nat : /\ ws_head_counter[w] <= n /\ CopyOf(o, c, n)
                       /\ n < ws_wb_counter[w] => Behind(u, w)
  BY DEF HasTaken
<1>2. /\ ws_head_counter'[w] <= n /\ n < ws_tail_counter'[w]
      /\ WriteSet(w, n)' = WriteSet(w, n)
      /\ ws_wb_counter'[w] = ws_wb_counter[w] \/ pc'[w] = "commit"
  BY <1>1, TakenInRing
<1>3. CopyOf(o, c, n)'
  BY <1>1, <1>2 DEF CopyOf
<1>4. n < ws_wb_counter'[w] => Behind(u, w)'
  <2>1. CASE pc'[w] = "commit"
    BY <2>1 DEF Behind, StampedLabels
  <2>2. CASE ws_wb_counter'[w] = ws_wb_counter[w]
    BY <1>0, <1>1, <2>2, BehindStep
  <2> QED
    BY <1>2, <2>1, <2>2
<1> QED
  BY <1>2, <1>3, <1>4 DEF HasTaken

\* What a section takes is not yet written back, or only now.
LEMMA StealTakes ==
    ASSUME LogInv, GraceInv, Unstamped, Pending, VersionsBelowMax,
           NEW u \in Threads, NEW o \in Objs, NEW c \in Addr, Steal(u),
           cur_obj[u] = o, cur_copy[u] = c, MaySteal(u, c.th)
    PROVE  HasTaken(u, o, c)
<1> DEFINE w == c.th
<1>0. TypeInv /\ w \in Threads /\ RingOf(w) /\ pc[u] = "steal"
  BY CopyTypes DEF LogInv, Ring, Steal
<1>1. writer_version[w] <= local_version[u] /\ local_version[u] <= g_rlu_writer_version
  BY DEF MaySteal, GraceInv, Stamped
<1>2. pc[w] \in StampedLabels
  BY <1>0, <1>1, VersionTypes DEF Unstamped, VersionsBelowMax
<1>3. ~Behind(u, w)
  BY <1>0, <1>1, <1>2, VersionTypes DEF Behind
<1>4. PICK n \in Nat : ws_wb_counter[w] <= n /\ CopyOf(o, c, n)
  BY <1>0, <1>2, <1>3 DEF Pending, MayTake
<1>5. ws_head_counter[w] <= n /\ ~(n < ws_wb_counter[w])
  BY <1>0, <1>4, CounterTypes DEF RingOf
<1> QED
  BY <1>4, <1>5 DEF HasTaken

LEMMA TakenStep ==
    ASSUME LogInv, GraceInv, StealInv, VersionsBelowMax, NEW t \in Threads, Thread(t)
    PROVE  Taken'
<1>0. TypeInv
  BY DEF LogInv
<1>1. ASSUME NEW u \in Threads, refs'[u] # {} PROVE InSection(u)'
  <2>1. CASE u = t
    BY <1>0, <1>1, <2>1, SectionKeeps DEF StealInv, Taken
  <2>2. CASE u # t
    <3>1. Same(u)
      BY <1>0, <2>2, Others
    <3> QED
      BY <1>1, <3>1 DEF StealInv, Taken, Same, InSection
  <2> QED
    BY <2>1, <2>2
<1>2. ASSUME NEW u \in Threads, NEW o \in Objs, NEW c \in Addr,
             <<o, c>> \in refs'[u], c.th # u
      PROVE  HasTaken(u, o, c)'
  <2>0. c.th \in Threads
    BY <1>0, CopyTypes
  <2>1. CASE u # t
    <3>1. Same(u)
      BY <1>0, <2>1, Others
    <3>2. <<o, c>> \in refs[u] /\ local_version'[u] = local_version[u]
      BY <1>2, <3>1 DEF Same
    <3>3. InSection(u) /\ HasTaken(u, o, c)
      BY <1>2, <3>2 DEF StealInv, Taken
    <3>4. CASE c.th = t
      BY <1>2, <3>2, <3>3, <3>4, HasTakenStep
    <3>5. CASE c.th # t
      <4>1. Same(c.th)
        BY <1>0, <2>0, <3>5, Others
      <4> QED
        BY <3>2, <3>3, <4>1, CopySame
    <3> QED
      BY <3>4, <3>5
  <2>2. CASE u = t
    <3>1. Same(c.th)
      BY <1>0, <1>2, <2>0, <2>2, Others
    <3>2. local_version'[u] = local_version[u]
      BY <1>0, <1>2, <2>2, SectionKeeps DEF StealInv, Taken
    <3>3. HasTaken(u, o, c)
      <4>1. CASE <<o, c>> \in refs[u]
        BY <1>2, <4>1 DEF StealInv, Taken
      <4>2. CASE Steal(u) /\ cur_obj[u] = o /\ cur_copy[u] = c /\ MaySteal(u, c.th)
        BY <4>2, StealTakes DEF StealInv
      <4> QED
        BY <1>2, <2>2, <4>1, <4>2, RefsSteps
    <3> QED
      BY <3>1, <3>2, <3>3, CopySame
  <2> QED
    BY <2>1, <2>2
<1> QED
  BY <1>1, <1>2 DEF Taken

-----------------------------------------------------------------------------
(* The two synchronisations of rlu_thread_finish. *)

LEMMA FinishingStep ==
    ASSUME LogInv, NEW t \in Threads, Thread(t), FinishingOf(t)
    PROVE  FinishingOf(t)'
<1>0. TypeInv /\ RingOf(t)
  BY DEF LogInv, Ring
<1> USE <1>0, CounterTypes DEF FinishingOf, Goto, Syncing, SyncLabels
<1>1. CASE ThreadInit(t) \/ ThreadPublish(t) \/ SyncCheckpoint(t)
  BY <1>1 DEF ThreadInit, ThreadPublish, SyncCheckpoint, Checkpoint, SyncCall
<1>2. CASE ThreadFinish(t) \/ ThreadFinish2(t)
  BY <1>2 DEF ThreadFinish, ThreadFinish2, SyncCall, RingOf
<1>3. CASE Begin(t)
  BY <1>3 DEF Begin, ReaderLock, Register, ReadVersion, ReadCommitVersion, Checkpoint, SyncCall
<1>4. CASE Steal(t) \/ TryLockCas(t) \/ TryLockCopy(t) \/ SendSyncRequest(t)
  BY <1>4 DEF Steal, TryLockCas, TryLockCopy, SendSyncRequest
<1>5. CASE \E o \in Objs : Deref(t, o) \/ DerefLocked(t, o)
  BY <1>5 DEF Deref, DerefLocked
<1>6. CASE \E o \in Objs : TryLock(t, o) \/ TryLockOwn(t, o) \/ TryLockFail(t, o)
  BY <1>6 DEF TryLock, TryLockOwn, TryLockFail, MayLock
<1>7. CASE \E l \in WriterLocks : TryWriterLock(t, l)
  BY <1>7 DEF TryWriterLock
<1>8. CASE ReaderUnlock(t) \/ CommitUnlock(t) \/ Abort(t)
  BY <1>8 DEF ReaderUnlock, CommitUnlock, Abort, SyncCall
<1>9. CASE UnlockObjs(t) \/ ReleaseWriterLock(t) \/ ReleaseEnd(t)
  BY <1>9 DEF UnlockObjs, ReleaseWriterLock, ReleaseEnd, Releasing, Checkpoint, SyncCall
<1>10. CASE SyncLoad(t) \/ SyncStore(t) \/ SyncBump(t) \/ Scan(t) \/ ScanEnd(t) \/ Wait(t)
  BY <1>10 DEF SyncLoad, SyncStore, SyncBump, Scan, ScanEnd, Wait
<1>11. CASE ResetWriteSets(t) \/ Writeback(t) \/ Unlock(t)
  BY <1>11 DEF ResetWriteSets, Writeback, Unlock
<1>12. CASE SyncUnstamp(t) \/ SyncCommit(t)
  BY <1>12 DEF SyncUnstamp, SyncCommit
<1>13. CASE SyncEnd(t)
  BY <1>13 DEF SyncEnd, Returns, RingOf
<1> QED
  BY <1>1, <1>2, <1>3, <1>4, <1>5, <1>6, <1>7, <1>8, <1>9, <1>10, <1>11, <1>12, <1>13
  DEF Thread, Access, End, Sync

-----------------------------------------------------------------------------
(* The invariant. *)

LEMMA StealInit == Init => StealInv
<1> SUFFICES ASSUME Init PROVE StealInv
  OBVIOUS
<1>1. \A t \in Threads : /\ pc[t] \in {"idle", "new"} /\ ret[t] = "idle"
                         /\ writer_version[t] = MAX_VERSION /\ refs[t] = {}
  BY DEF Init
<1> QED
  BY <1>1 DEF StealInv, Unstamped, Pending, Taken, Finishing, FinishingOf, Syncing, SyncLabels

LEMMA StealStep ==
    ASSUME LogInv, GraceInv, StealInv, VersionsBelowMax, NEW t \in Threads, Thread(t)
    PROVE  StealInv'
<1>0. TypeInv
  BY DEF LogInv
<1>1. Unstamped' /\ Pending' /\ Taken'
  BY <1>0, UnstampedStep, PendingStep, TakenStep DEF StealInv
<1>2. ASSUME NEW u \in Threads PROVE FinishingOf(u)'
  <2>1. CASE u = t
    BY <2>1, FinishingStep DEF StealInv, Finishing
  <2>2. CASE u # t
    BY <1>0, <2>2, Others DEF StealInv, Finishing, FinishingOf, Same, Syncing
  <2> QED
    BY <2>1, <2>2
<1> QED
  BY <1>1, <1>2 DEF StealInv, Finishing

LEMMA StealUnchanged ==
    ASSUME StealInv, UNCHANGED vars
    PROVE  StealInv'
<1>1. \A u, t \in Threads : Behind(u, t)' <=> Behind(u, t)
  BY DEF Behind
<1>2. \A o \in Objs : \A c \in Addr : \A n \in Nat : CopyOf(o, c, n)' <=> CopyOf(o, c, n)
  BY DEF CopyOf, WriteSet
<1>3. \A u \in Threads : \A o \in Objs : \A c \in Addr :
          /\ MayTake(u, o, c)' <=> MayTake(u, o, c)
          /\ HasTaken(u, o, c)' <=> HasTaken(u, o, c)
  <2> SUFFICES ASSUME NEW u \in Threads, NEW o \in Objs, NEW c \in Addr
               PROVE  /\ MayTake(u, o, c)' <=> MayTake(u, o, c)
                      /\ HasTaken(u, o, c)' <=> HasTaken(u, o, c)
    OBVIOUS
  <2>1. c.th \in Threads
    BY DEF Addr
  <2> QED
    BY <1>1, <1>2, <2>1 DEF MayTake, HasTaken
<1>4. Unstamped' /\ Finishing'
  BY DEF StealInv, Unstamped, Finishing, FinishingOf, Syncing
<1>5. Pending' /\ Taken'
  BY <1>3 DEF StealInv, Pending, Taken, InSection
<1> QED
  BY <1>4, <1>5 DEF StealInv
\* The invariant of the copies that sections take, with those it rests on, for as
\* long as g_rlu_writer_version has not reached MAX_VERSION (2^63 - 2
\* synchronisations, rlu.c:36).
THEOREM StealInvariant ==
    Spec /\ []VersionsBelowMax => [](LogInv /\ GraceInv /\ StealInv)
<1>1. LogInv /\ GraceInv /\ StealInv /\ VersionsBelowMax /\ [Next]_vars => StealInv'
  BY StealUnchanged, StealStep DEF Next, Terminated
<1>2. LogInv => TypeOK
  BY DEF LogInv, TypeInv
<1> QED
  BY <1>1, <1>2, LockInvariant, GraceInit, GraceStep, StealInit, PTL DEF Spec

\* After rlu_thread_finish the thread has locked no object, no section has a
\* pointer into its log, and none that has read one of its headers takes the copy:
\* the log may be freed (rlu.c:687-701), for any number of threads and sections.
THEOREM FinishedUnreferenced ==
    Spec /\ []VersionsBelowMax => []FinishedLogUnreferenced
<1>1. LogInv /\ GraceInv /\ StealInv /\ VersionsBelowMax => FinishedLogUnreferenced
  <2> SUFFICES ASSUME LogInv, GraceInv, StealInv, VersionsBelowMax,
                      NEW t \in Threads, NEW u \in Threads, pc[t] = "done"
               PROVE  /\ \A o \in Objs : p_obj_copy[o] # NULL => p_obj_copy[o].th # t
                      /\ (pc[u] = "steal" /\ cur_copy[u].th = t) => ~MaySteal(u, t)
                      /\ \A r \in refs[u] : r[2] \in Addr => r[2].th # t
    BY DEF FinishedLogUnreferenced
  <2>0. /\ TypeInv /\ Ring /\ RingOf(t) /\ ws_head_counter[t] = ws_tail_counter[t]
        /\ ws_wb_counter[t] = ws_tail_counter[t]
    BY CounterTypes DEF LogInv, Ring, RingOf, StealInv, Finishing, FinishingOf
  <2>1. ASSUME NEW o \in Objs, p_obj_copy[o] # NULL, p_obj_copy[o].th = t PROVE FALSE
    <3>1. PICK c \in Addr : p_obj_copy[o] = c
      BY <2>0, <2>1, CopyTypes
    <3>2. OwnedBy(o, c) /\ c.th = t /\ ~Installing(t, o, c)
      BY <2>1, <3>1 DEF LogInv, LockInv, Owned, Installing
    <3>3. PICK n \in Nat, k \in Nat : Live(t, n, k)
      BY <3>2 DEF OwnedBy
    <3>4. ws_wb_counter[t] <= n /\ n <= ws_tail_counter[t] /\ n # ws_tail_counter[t]
      BY <2>0, <3>3, LiveEntry DEF Live, InSection
    <3> QED
      BY <2>0, <3>4, CounterTypes
  <2>2. ASSUME MaySteal(u, t) PROVE FALSE
    <3>1. writer_version[t] = MAX_VERSION
      BY DEF StealInv, Unstamped, StampedLabels
    <3>2. local_version[u] <= g_rlu_writer_version
      BY DEF GraceInv, Stamped
    <3> QED
      BY <2>0, <2>2, <3>1, <3>2, VersionTypes DEF MaySteal, VersionsBelowMax
  <2>3. ASSUME NEW r \in refs[u], r[2] \in Addr, r[2].th = t PROVE FALSE
    <3>1. PICK o \in Objs, c \in Addr : r = <<o, c>> /\ c.th = t
      BY <2>0, <2>3, VersionTypes
    <3>2. InSection(u) /\ u # t
      BY <2>3 DEF StealInv, Taken, InSection
    <3>3. HasTaken(u, o, c)
      BY <2>3, <3>1, <3>2 DEF StealInv, Taken
    <3>4. PICK n \in Nat : ws_head_counter[t] <= n /\ n < ws_tail_counter[t]
      BY <3>1, <3>3 DEF HasTaken, CopyOf
    <3> QED
      BY <2>0, <3>4, CounterTypes
  <2> QED
    BY <2>1, <2>2, <2>3
<1> QED
  BY <1>1, StealInvariant, PTL

LEMMA StolenKept ==
    ASSUME LogInv, GraceInv, StealInv, NEW t \in Threads, Thread(t),
           NEW u \in Threads, NEW o \in Objs, NEW c \in Addr, <<o, c>> \in refs[u], c.th # u
    PROVE  /\ c.ix \in DOMAIN obj_write_set'[c.th][c.ws]
           /\ At(c)' = At(c)
<1>0. TypeInv /\ c.th \in Threads
  BY CopyTypes DEF LogInv
<1>1. InSection(u) /\ HasTaken(u, o, c)
  BY DEF StealInv, Taken
<1>2. PICK n \in Nat : /\ ws_head_counter[c.th] <= n /\ CopyOf(o, c, n)
                       /\ n < ws_wb_counter[c.th] => Behind(u, c.th)
  BY <1>1 DEF HasTaken
<1>3. WriteSet(c.th, n)' = WriteSet(c.th, n)
  <2>1. CASE t = c.th
    BY <1>1, <1>2, <2>1, TakenInRing
  <2>2. CASE t # c.th
    BY <1>0, <2>2, Others DEF Same, WriteSet
  <2> QED
    BY <2>1, <2>2
<1>4. c.ix \in DOMAIN WriteSet(c.th, n) /\ c.ws = WS_INDEX(n)
  BY <1>2 DEF CopyOf
<1> QED
  BY <1>3, <1>4 DEF WriteSet, At

\* A copy that a section has taken from another thread stays that object's copy,
\* unchanged, while the section lasts: the log is not reused under a reader
\* (rlu.c:838-840), however many write-sets its owner commits, defers and writes
\* back meanwhile.
THEOREM StolenStays ==
    Spec /\ []VersionsBelowMax => StolenCopyStable
<1>1. ASSUME LogInv, GraceInv, StealInv, [Next]_vars,
             NEW u \in Threads, NEW r \in refs[u] \cap refs'[u],
             r[2] \in Addr, r[2].th # u
      PROVE  /\ r[2].ix \in DOMAIN obj_write_set'[r[2].th][r[2].ws]
             /\ At(r[2])' = At(r[2])
  <2>0. TypeInv
    BY <1>1 DEF LogInv
  <2>1. PICK o \in Objs, c \in Addr : r = <<o, c>>
    <3>1. refs[u] \subseteq Objs \X Ptr /\ r \in refs[u]
      BY <1>1, <2>0, VersionTypes
    <3>2. r[1] \in Objs /\ r = <<r[1], r[2]>>
      BY <3>1
    <3> QED
      BY <1>1, <3>2
  <2>2. r[2] = c /\ c.th # u /\ <<o, c>> \in refs[u]
    BY <1>1, <2>1
  <2>3. CASE UNCHANGED vars \/ Terminated
    <3>1. HasTaken(u, o, c)
      BY <1>1, <2>2 DEF StealInv, Taken
    <3>2. c.ix \in DOMAIN obj_write_set[c.th][c.ws]
      BY <3>1 DEF HasTaken, CopyOf, WriteSet
    <3> QED
      BY <2>2, <2>3, <3>2 DEF Terminated, At
  <2>4. ASSUME NEW t \in Threads, Thread(t)
        PROVE  c.ix \in DOMAIN obj_write_set'[c.th][c.ws] /\ At(c)' = At(c)
    BY <1>1, <2>2, <2>4, StolenKept
  <2> QED
    BY <1>1, <2>2, <2>3, <2>4 DEF Next
<1>2. LogInv /\ GraceInv /\ StealInv /\ [Next]_vars =>
          [\A t \in Threads : \A r \in refs[t] \cap refs'[t] :
              (r[2] \in Addr /\ r[2].th # t)
                  => /\ r[2].ix \in DOMAIN obj_write_set'[r[2].th][r[2].ws]
                     /\ At(r[2])' = At(r[2])]_vars
  BY <1>1
<1> QED
  BY <1>2, StealInvariant, PTL DEF Spec, StolenCopyStable

-----------------------------------------------------------------------------
(* B. One snapshot. *)

\* From the load of g_rlu_writer_version to the increment of g_rlu_commit_version.
CriticalLabels == {"store", "bump", "scan", "wait", "reset", "writeback", "unlock", "commit"}

SyncsExclude ==
    \A t, u \in Threads :
        (pc[t] \in CriticalLabels /\ pc[u] \in CriticalLabels) => t = u

-----------------------------------------------------------------------------
(* The versions. *)

Exact ==
    \A w \in Threads :
        /\ pc[w] = "store" => stamp[w] = g_rlu_writer_version + 1
        /\ pc[w] = "bump" => writer_version[w] = g_rlu_writer_version + 1
        /\ Publishing(w) => writer_version[w] = g_rlu_writer_version

\* g_rlu_commit_version is one behind while a synchronisation is in progress.
Counted ==
    /\ (\E w \in Threads : Publishing(w) \/ pc[w] = "commit") =>
          g_rlu_writer_version = g_rlu_commit_version + 1
    /\ (\A w \in Threads : ~Publishing(w) /\ pc[w] # "commit") =>
          g_rlu_writer_version = g_rlu_commit_version

\* The section of t is to read what w has published.
Reads(t, w) == Publishing(w) /\ writer_version[w] <= local_version[t]

\* A section that does not look at the locks of other threads need not.
Unconcerned ==
    \A t \in Threads : pc[t] \in SectionLabels \ {"commit_version"} =>
        /\ is_steal[t] => is_check_locks[t]
        /\ ~is_steal[t] => \A w \in Threads : ~Reads(t, w)

VersionInv == Exact /\ Counted /\ Unconcerned

-----------------------------------------------------------------------------
(* The snapshot. *)

\* What a section with the local_version of t is to see in o.
Shown(t, o) ==
    LET c == p_obj_copy[o]
    IN  IF c # NULL /\ Reads(t, c.th) /\ Complete(c) THEN At(c).val ELSE data[o]

Viewed == \A t \in Threads : InSection(t) => \A o \in Objs : snap[t][o] = Shown(t, o)

\* A section that has read a header takes the copy in time, or need not.
Stealing ==
    \A t \in Threads : \A o \in Objs : \A c \in Addr :
        (pc[t] = "steal" /\ cur_obj[t] = o /\ cur_copy[t] = c) =>
            /\ \A d \in Addr : (p_obj_copy[o] = d /\ Reads(t, d.th)) => d = c
            /\ Reads(t, c.th) => \A n \in Nat :
                  (ws_wb_counter[c.th] <= n /\ CopyOf(o, c, n)) => At(c).val = snap[t][o]

\* Right: what section t got for o, and still has.
Right(t, o, p) ==
    /\ p \in Objs => p = o /\ data[o] = snap[t][o]
    /\ p \in Addr /\ p.th # t => At(p).val = snap[t][o]
    /\ p \in Addr /\ p.th = t => p_obj_copy[o] = p /\ ~Installing(t, o, p)

Held == \A t \in Threads : \A o \in Objs : \A p \in Ptr : <<o, p>> \in refs[t] => Right(t, o, p)

\* The section of t has its number, and has not committed.
Numbered(t) ==
    \/ pc[t] \in {"register", "version"} \/ InSection(t)
    \/ Syncing(t) /\ ret[t] = "register"

NewUpdates ==
    \A t \in Threads : \A o \in Objs : \A m \in Nat : <<t, m>> \in committed[o] =>
        m <= n_starts[t] /\ (Numbered(t) => m < n_starts[t])

SnapInv == VersionInv /\ Viewed /\ Stealing /\ Held /\ NewUpdates

-----------------------------------------------------------------------------
(* What a step does to the versions and to the section of its thread. *)

LEMMA VersionSteps ==
    ASSUME TypeInv, NEW t \in Threads, Thread(t)
    PROVE  \/ /\ UNCHANGED versionVars
              /\ pc[t] \notin CriticalLabels /\ pc'[t] \notin CriticalLabels
           \/ /\ UNCHANGED versionVars /\ Publishing(t) /\ Publishing(t)'
              /\ writer_version'[t] = writer_version[t]
           \/ SyncLoad(t) \/ SyncStore(t) \/ SyncBump(t) \/ SyncUnstamp(t) \/ SyncCommit(t)
<1> USE VersionTypes DEF CriticalLabels, Publishing, Goto
<1>1. CASE ThreadInit(t) \/ ThreadPublish(t) \/ SyncCheckpoint(t)
  BY <1>1 DEF ThreadInit, ThreadPublish, SyncCheckpoint, Checkpoint, SyncCall
<1>2. CASE ThreadFinish(t) \/ ThreadFinish2(t)
  BY <1>2 DEF ThreadFinish, ThreadFinish2, SyncCall
<1>3. CASE Begin(t)
  BY <1>3 DEF Begin, ReaderLock, Register, ReadVersion, ReadCommitVersion, Checkpoint, SyncCall
<1>4. CASE Steal(t) \/ TryLockCas(t) \/ TryLockCopy(t) \/ SendSyncRequest(t)
  BY <1>4 DEF Steal, TryLockCas, TryLockCopy, SendSyncRequest
<1>5. CASE \E o \in Objs : Deref(t, o) \/ DerefLocked(t, o)
  BY <1>5 DEF Deref, DerefLocked
<1>6. CASE \E o \in Objs : TryLock(t, o) \/ TryLockOwn(t, o) \/ TryLockFail(t, o)
  BY <1>6 DEF TryLock, TryLockOwn, TryLockFail, MayLock
<1>7. CASE \E l \in WriterLocks : TryWriterLock(t, l)
  BY <1>7 DEF TryWriterLock
<1>8. CASE ReaderUnlock(t) \/ CommitUnlock(t) \/ Abort(t)
  BY <1>8 DEF ReaderUnlock, CommitUnlock, Abort, SyncCall
<1>9. CASE UnlockObjs(t) \/ ReleaseWriterLock(t) \/ ReleaseEnd(t)
  BY <1>9 DEF UnlockObjs, ReleaseWriterLock, ReleaseEnd, Releasing, Checkpoint, SyncCall
<1>10. CASE Scan(t) \/ ScanEnd(t) \/ Wait(t)
  BY <1>10 DEF Scan, ScanEnd, Wait
<1>11. CASE ResetWriteSets(t) \/ Writeback(t) \/ Unlock(t)
  BY <1>11 DEF ResetWriteSets, Writeback, Unlock
<1>12. CASE SyncEnd(t)
  BY <1>12 DEF SyncEnd, Returns
<1> QED
  BY <1>1, <1>2, <1>3, <1>4, <1>5, <1>6, <1>7, <1>8, <1>9, <1>10, <1>11, <1>12
  DEF Thread, Access, End, Sync

LEMMA FlagTypes ==
    ASSUME TypeInv
    PROVE  /\ is_steal \in [Threads -> BOOLEAN] /\ is_check_locks \in [Threads -> BOOLEAN]
           /\ snap \in [Threads -> [Objs -> Value]] /\ n_starts \in [Threads -> Nat]
           /\ data \in [Objs -> Value] /\ committed \in [Objs -> Value]
           /\ g_rlu_commit_version \in Nat
BY DEF TypeInv, TypeOK, GlobalTypes, OwnTypes, ClientTypes

\* The section of t goes on.
GoesOn(t) ==
    /\ local_version'[t] = local_version[t] /\ snap'[t] = snap[t]
    /\ n_starts'[t] = n_starts[t]

FlagsKept(t) ==
    /\ pc[t] # "commit_version" /\ pc'[t] # "commit_version"
    /\ is_steal'[t] = is_steal[t]
    /\ is_check_locks[t] => is_check_locks'[t]

LEMMA SectionSteps ==
    ASSUME TypeInv, NEW t \in Threads, Thread(t), InSection(t)'
    PROVE  \/ ReadVersion(t)
           \/ InSection(t) /\ GoesOn(t) /\ (ReadCommitVersion(t) \/ FlagsKept(t))
<1> USE VersionTypes, FlagTypes DEF InSection, GoesOn, FlagsKept, Goto
<1>1. CASE ThreadInit(t) \/ ThreadPublish(t) \/ SyncCheckpoint(t)
  BY <1>1 DEF ThreadInit, ThreadPublish, SyncCheckpoint, Checkpoint, SyncCall
<1>2. CASE ThreadFinish(t) \/ ThreadFinish2(t)
  BY <1>2 DEF ThreadFinish, ThreadFinish2, SyncCall
<1>3. CASE ReaderLock(t) \/ Register(t)
  BY <1>3 DEF ReaderLock, Register, Checkpoint, SyncCall
<1>4. CASE ReadCommitVersion(t)
  BY <1>4 DEF ReadCommitVersion
<1>5. CASE Steal(t) \/ TryLockCas(t) \/ TryLockCopy(t) \/ SendSyncRequest(t)
  BY <1>5 DEF Steal, TryLockCas, TryLockCopy, SendSyncRequest
<1>6. CASE \E o \in Objs : Deref(t, o) \/ DerefLocked(t, o)
  BY <1>6 DEF Deref, DerefLocked
<1>7. ASSUME NEW o \in Objs, TryLock(t, o)
      PROVE  InSection(t) /\ GoesOn(t) /\ FlagsKept(t)
  BY <1>7 DEF TryLock, MayLock
<1>8. ASSUME NEW o \in Objs, TryLockOwn(t, o) \/ TryLockFail(t, o)
      PROVE  InSection(t) /\ GoesOn(t) /\ FlagsKept(t)
  BY <1>8 DEF TryLockOwn, TryLockFail, MayLock
<1>9. CASE \E l \in WriterLocks : TryWriterLock(t, l)
  BY <1>9 DEF TryWriterLock
<1>10. CASE ReaderUnlock(t) \/ CommitUnlock(t) \/ Abort(t)
  BY <1>10 DEF ReaderUnlock, CommitUnlock, Abort, SyncCall
<1>11. CASE UnlockObjs(t) \/ ReleaseWriterLock(t) \/ ReleaseEnd(t)
  BY <1>11 DEF UnlockObjs, ReleaseWriterLock, ReleaseEnd, Releasing, Checkpoint, SyncCall
<1>12. CASE SyncLoad(t) \/ SyncStore(t) \/ SyncBump(t) \/ Scan(t) \/ ScanEnd(t) \/ Wait(t)
  BY <1>12 DEF SyncLoad, SyncStore, SyncBump, Scan, ScanEnd, Wait
<1>13. CASE ResetWriteSets(t) \/ Writeback(t) \/ Unlock(t)
  BY <1>13 DEF ResetWriteSets, Writeback, Unlock
<1>14. CASE SyncUnstamp(t) \/ SyncCommit(t) \/ SyncEnd(t)
  BY <1>14 DEF SyncUnstamp, SyncCommit, SyncEnd, Returns
<1> QED
  BY <1>1, <1>2, <1>3, <1>4, <1>5, <1>6, <1>7, <1>8, <1>9, <1>10, <1>11, <1>12,
     <1>13, <1>14
  DEF Thread, Begin, Access, End, Sync

\* The flags and the snapshot of a section are its thread's own.
LEMMA OtherFlags ==
    ASSUME TypeInv, NEW t \in Threads, Thread(t), NEW u \in Threads \ {t}
    PROVE  /\ is_steal'[u] = is_steal[u] /\ is_check_locks'[u] = is_check_locks[u]
           /\ snap'[u] = snap[u]
<1> USE FlagTypes
<1>1. CASE ThreadInit(t) \/ ThreadPublish(t) \/ SyncCheckpoint(t)
  BY <1>1 DEF ThreadInit, ThreadPublish, SyncCheckpoint
<1>2. CASE ThreadFinish(t) \/ ThreadFinish2(t)
  BY <1>2 DEF ThreadFinish, ThreadFinish2
<1>3. CASE Begin(t)
  BY <1>3 DEF Begin, ReaderLock, Register, ReadVersion, ReadCommitVersion
<1>4. CASE Steal(t) \/ TryLockCas(t) \/ TryLockCopy(t) \/ SendSyncRequest(t)
  BY <1>4 DEF Steal, TryLockCas, TryLockCopy, SendSyncRequest
<1>5. CASE \E o \in Objs : Deref(t, o) \/ DerefLocked(t, o)
  BY <1>5 DEF Deref, DerefLocked
<1>6. CASE \E o \in Objs : TryLock(t, o) \/ TryLockOwn(t, o) \/ TryLockFail(t, o)
  BY <1>6 DEF TryLock, TryLockOwn, TryLockFail
<1>7. CASE \E l \in WriterLocks : TryWriterLock(t, l)
  BY <1>7 DEF TryWriterLock
<1>8. CASE ReaderUnlock(t) \/ CommitUnlock(t) \/ Abort(t)
  BY <1>8 DEF ReaderUnlock, CommitUnlock, Abort, LeaveSection
<1>9. CASE UnlockObjs(t) \/ ReleaseWriterLock(t) \/ ReleaseEnd(t)
  BY <1>9 DEF UnlockObjs, ReleaseWriterLock, ReleaseEnd
<1>10. CASE Sync(t)
  BY <1>10 DEF Sync, SyncLoad, SyncStore, SyncBump, Scan, ScanEnd, Wait,
     ResetWriteSets, Writeback, Unlock, SyncUnstamp, SyncCommit, SyncEnd
<1> QED
  BY <1>1, <1>2, <1>3, <1>4, <1>5, <1>6, <1>7, <1>8, <1>9, <1>10 DEF Thread, Access, End

-----------------------------------------------------------------------------
(* The versions, as long as synchronisations exclude each other. *)

LEMMA ExactStep ==
    ASSUME TypeInv, SyncsExclude, Exact, NEW t \in Threads, Thread(t)
    PROVE  Exact'
<1> SUFFICES ASSUME NEW w \in Threads
             PROVE  /\ pc'[w] = "store" => stamp'[w] = g_rlu_writer_version' + 1
                    /\ pc'[w] = "bump" => writer_version'[w] = g_rlu_writer_version' + 1
                    /\ Publishing(w)' => writer_version'[w] = g_rlu_writer_version'
  BY DEF Exact
<1> USE VersionTypes DEF Exact, Publishing, CriticalLabels
<1>1. CASE w # t
  <2>1. Same(w)
    BY <1>1, Others
  <2>2. CASE pc[w] \in CriticalLabels
    <3>1. pc[t] \notin CriticalLabels
      BY <1>1, <2>2 DEF SyncsExclude
    <3>2. ~SyncStore(t) /\ ~SyncBump(t) /\ ~SyncUnstamp(t) /\ ~SyncCommit(t)
      BY <3>1 DEF SyncStore, SyncBump, SyncUnstamp, SyncCommit
    <3>3. g_rlu_writer_version' = g_rlu_writer_version
      BY <3>1, <3>2, VersionSteps DEF SyncLoad
    <3> QED
      BY <2>1, <3>3 DEF Same
  <2>3. CASE pc[w] \notin CriticalLabels
    BY <2>1, <2>3 DEF Same
  <2> QED
    BY <2>2, <2>3
<1>2. CASE w = t
  <2>1. CASE SyncLoad(t) \/ SyncStore(t) \/ SyncBump(t) \/ SyncUnstamp(t) \/ SyncCommit(t)
    BY <1>2, <2>1 DEF SyncLoad, SyncStore, SyncBump, SyncUnstamp, SyncCommit, Goto
  <2> QED
    BY <1>2, <2>1, VersionSteps
<1> QED
  BY <1>1, <1>2

LEMMA CountedStep ==
    ASSUME TypeInv, SyncsExclude, Counted, NEW t \in Threads, Thread(t)
    PROVE  Counted'
<1> DEFINE Busy(w) == Publishing(w) \/ pc[w] = "commit"
<1>0. \A w \in Threads \ {t} : Busy(w)' <=> Busy(w)
  BY Others DEF Same, Publishing
<1>1. pc[t] \in CriticalLabels => \A w \in Threads \ {t} : ~Busy(w)
  BY DEF SyncsExclude, CriticalLabels, Publishing
<1>2. \/ UNCHANGED versionVars /\ (Busy(t)' <=> Busy(t))
      \/ SyncBump(t) \/ SyncCommit(t)
  <2> USE VersionTypes DEF Publishing, CriticalLabels
  <2>1. CASE SyncLoad(t) \/ SyncStore(t) \/ SyncUnstamp(t)
    BY <2>1 DEF SyncLoad, SyncStore, SyncUnstamp, Goto
  <2> QED
    BY <2>1, VersionSteps
<1>3. CASE UNCHANGED versionVars /\ (Busy(t)' <=> Busy(t))
  BY <1>0, <1>3 DEF Counted
<1>4. CASE SyncBump(t)
  <2>1. /\ pc[t] = "bump" /\ pc'[t] = "scan" /\ g_rlu_commit_version' = g_rlu_commit_version
        /\ g_rlu_writer_version' = g_rlu_writer_version + 1
    BY <1>4, VersionTypes DEF SyncBump, Goto
  <2>2. ~Busy(t) /\ Busy(t)' /\ \A w \in Threads : ~Busy(w)
    BY <1>1, <2>1 DEF Publishing, CriticalLabels
  <2> QED
    BY <2>1, <2>2 DEF Counted
<1>5. CASE SyncCommit(t)
  <2>1. /\ pc[t] = "commit" /\ pc'[t] = "sync_end"
        /\ g_rlu_commit_version' = g_rlu_commit_version + 1
        /\ g_rlu_writer_version' = g_rlu_writer_version
    BY <1>5, VersionTypes DEF SyncCommit, Goto
  <2>2. Busy(t) /\ ~Busy(t)' /\ \A w \in Threads : ~Busy(w)'
    BY <1>0, <1>1, <2>1 DEF Publishing, CriticalLabels
  <2> QED
    BY <2>1, <2>2 DEF Counted
<1> QED
  BY <1>2, <1>3, <1>4, <1>5

\* No section turns to the copies of a synchronisation that began after it.
LEMMA ReadsStep ==
    ASSUME TypeInv, Stamped, Exact, NEW u \in Threads, Thread(u),
           NEW t \in Threads, NEW w \in Threads,
           local_version'[t] = local_version[t], Reads(t, w)'
    PROVE  Reads(t, w)
<1>1. CASE u # w
  BY <1>1, Others DEF Same, Reads, Publishing
<1>2. CASE u = w
  <2> USE VersionTypes DEF Reads, Publishing, Goto
  <2>1. CASE SyncBump(w)
    <3>1. writer_version[w] = g_rlu_writer_version + 1 /\ writer_version'[w] = writer_version[w]
      BY <2>1 DEF Exact, SyncBump
    <3>2. local_version[t] <= g_rlu_writer_version
      BY DEF Stamped
    <3> QED
      BY <3>1, <3>2
  <2>2. CASE SyncLoad(w) \/ SyncStore(w) \/ SyncUnstamp(w) \/ SyncCommit(w)
    BY <2>2 DEF SyncLoad, SyncStore, SyncUnstamp, SyncCommit
  <2> QED
    BY <1>2, <2>1, <2>2, VersionSteps DEF CriticalLabels
<1> QED
  BY <1>1, <1>2

LEMMA UnconcernedStep ==
    ASSUME TypeInv, Stamped, Exact, Counted, Unconcerned, NEW u \in Threads, Thread(u)
    PROVE  Unconcerned'
<1> SUFFICES ASSUME NEW t \in Threads, pc'[t] \in SectionLabels \ {"commit_version"}
             PROVE  /\ is_steal'[t] => is_check_locks'[t]
                    /\ ~is_steal'[t] => \A w \in Threads : ~Reads(t, w)'
  BY DEF Unconcerned
<1>1. CASE t # u
  <2>1. Same(t) /\ is_steal'[t] = is_steal[t] /\ is_check_locks'[t] = is_check_locks[t]
    BY <1>1, Others, OtherFlags
  <2> QED
    BY <2>1, ReadsStep DEF Unconcerned, Same
<1>2. CASE t = u
  <2>0. InSection(t)'
    BY DEF InSection, SectionLabels
  <2>1. CASE ReadVersion(t)
    BY <2>1, VersionTypes DEF ReadVersion, Goto
  <2>2. CASE GoesOn(t) /\ ReadCommitVersion(t)
    <3>1. /\ is_steal'[t] = (local_version[t] # g_rlu_commit_version)
          /\ is_check_locks'[t] = ~(/\ local_version[t] = g_rlu_commit_version
                                    /\ ws_tail_counter[t] = ws_wb_counter[t])
      BY <2>2, FlagTypes DEF ReadCommitVersion
    <3>2. ASSUME NEW w \in Threads, Reads(t, w), local_version[t] = g_rlu_commit_version
          PROVE  FALSE
      <4>1. writer_version[w] = g_rlu_writer_version /\ writer_version[w] <= local_version[t]
        BY <3>2 DEF Exact, Reads
      <4>2. g_rlu_writer_version = g_rlu_commit_version + 1
        BY <3>2 DEF Counted, Reads
      <4> QED
        BY <3>2, <4>1, <4>2, FlagTypes
    <3>3. ASSUME NEW w \in Threads, ~is_steal'[t] PROVE ~Reads(t, w)'
      BY <1>2, <2>2, <3>1, <3>2, <3>3, ReadsStep DEF GoesOn
    <3> QED
      BY <3>1, <3>3
  <2>3. CASE InSection(t) /\ GoesOn(t) /\ FlagsKept(t)
    <3>1. pc[t] \in SectionLabels \ {"commit_version"}
      BY <2>3 DEF InSection, FlagsKept, SectionLabels
    <3>2. \A w \in Threads : Reads(t, w)' => Reads(t, w)
      BY <2>3, ReadsStep DEF GoesOn
    <3> QED
      BY <2>3, <3>1, <3>2 DEF Unconcerned, FlagsKept
  <2> QED
    BY <1>2, <2>0, <2>1, <2>2, <2>3, SectionSteps
<1> QED
  BY <1>1, <1>2

LEMMA VersionStep ==
    ASSUME TypeInv, Stamped, SyncsExclude, VersionInv, NEW t \in Threads, Thread(t)
    PROVE  VersionInv'
BY ExactStep, CountedStep, UnconcernedStep DEF VersionInv

-----------------------------------------------------------------------------
(* The header of an object leads to a live copy. *)

LEMMA HeaderLive ==
    ASSUME LogInv, NEW o \in Objs, NEW c \in Addr, p_obj_copy[o] = c, pc[c.th] # "copy"
    PROVE  \E n, k \in Nat : /\ Live(c.th, n, k) /\ c = CopyAt(c.th, n, k)
                             /\ WriteSet(c.th, n)[k].obj = o /\ At(c) = WriteSet(c.th, n)[k]
                             /\ Complete(c) /\ At(c) \in Entry
<1>1. c.th \in Threads /\ OwnedBy(o, c) /\ ~Installing(c.th, o, c)
  BY CopyTypes DEF LogInv, LockInv, Owned, Installing
<1>2. PICK n \in Nat, k \in Nat : /\ Live(c.th, n, k) /\ c = CopyAt(c.th, n, k)
                                  /\ WriteSet(c.th, n)[k].obj = o
  BY <1>1 DEF OwnedBy
<1>3. k \in DOMAIN WriteSet(c.th, n) /\ WriteSet(c.th, n)[k] \in Entry
  BY <1>1, <1>2, LiveEntry DEF LogInv
<1>4. c.ws = WS_INDEX(n) /\ c.ix = k
  BY <1>2 DEF CopyAt
<1>5. At(c) = WriteSet(c.th, n)[k] /\ Complete(c)
  BY <1>3, <1>4 DEF At, Complete, WriteSet
<1> QED
  BY <1>2, <1>3, <1>5

LEMMA DataSteps ==
    ASSUME TypeInv, NEW t \in Threads, Thread(t)
    PROVE  UNCHANGED data \/ Writeback(t)
BY CalmSteps DEF Calm, ReadVersion, CommitUnlock

\* What a step of t does to the headers.
LEMMA HeaderSteps ==
    ASSUME TypeInv, Ring, NEW t \in Threads, Thread(t)
    PROVE  \/ UNCHANGED p_obj_copy
           \/ /\ pc[t] = "cas" /\ pc'[t] = "copy" /\ p_obj_copy[cur_obj[t]] = NULL
              /\ p_obj_copy' = [p_obj_copy EXCEPT ![cur_obj[t]] = cur_copy[t]]
           \/ pc[t] = "unlock_objs" /\ \E k \in Nat : Drops(t, ws_tail_counter[t], k)
           \/ Unlock(t) /\ Drops(t, ws_counter[t], i[t] + 1)
<1>1. CASE Stays(t) \/ TryLockCopy(t)
  BY <1>1 DEF Stays, TryLockCopy
<1>2. CASE TryLockCas(t)
  BY <1>2, CounterTypes DEF TryLockCas, Goto
<1>3. CASE UnlockObjs(t)
  BY <1>3, UnlockObjsDrops DEF Stays, UnlockObjs
<1>4. CASE Unlock(t)
  BY <1>4, UnlockDrops
<1> QED
  BY <1>1, <1>2, <1>3, <1>4, LogSteps

\* The object that t writes back, and unlocks next.
LEMMA BackSteps ==
    ASSUME ValueInv, NEW t \in Threads, Writeback(t) \/ Unlock(t)
    PROVE  \E o \in Objs : \E c \in Addr :
              /\ p_obj_copy[o] = c /\ c.th = t /\ pc[t] \in BackLabels
              /\ Writeback(t) => data' = [data EXCEPT ![o] = At(c).val]
              /\ Unlock(t) => p_obj_copy' = [p_obj_copy EXCEPT ![o] = NULL] /\ data[o] = At(c).val
<1>0. TypeInv /\ Ring /\ RingOf(t) /\ LoopOf(t)
  BY DEF ValueInv, LogInv, Ring
<1>1. PICK m \in Nat, k \in Nat : m = ws_counter[t] /\ k = i[t] + 1
  BY <1>0, CounterTypes
<1>2. Live(t, m, k) /\ pc[t] \in BackLabels
  <2>1. CASE Unlock(t)
    BY <1>0, <1>1, <2>1, UnlockDrops DEF Drops, Unlock, BackLabels
  <2>2. CASE Writeback(t)
    <3>1. /\ m < ws_tail_counter[t] /\ pc[t] = "writeback" /\ i[t] < Len(WriteSet(t, m))
      BY <1>1, <2>2 DEF Writeback
    <3>2. i[t] \in Nat /\ Len(WriteSet(t, m)) \in Nat
      BY <1>0, CounterTypes, LenTypes
    <3>3. k <= Len(WriteSet(t, m)) /\ k > i[t] /\ k \in Nat \ {0}
      BY <1>1, <3>1, <3>2
    <3> QED
      BY <1>0, <1>1, <3>1, <3>3, CounterTypes DEF Live, First, BackLabels
  <2> QED
    BY <2>1, <2>2
<1>3. PICK e \in Entry, o \in Objs : e = WriteSet(t, m)[k] /\ e.obj = o
  BY <1>0, <1>2, LiveEntry
<1>4. PICK c \in Addr : c = CopyAt(t, m, k)
  BY <1>0, <1>2, LiveEntry
<1>5. p_obj_copy[o] = c /\ c.th = t /\ At(c) = e
  <2>1. p_obj_copy[o] = c
    BY <1>2, <1>3, <1>4 DEF ValueInv, LogInv, LockInv, Locking
  <2> QED
    BY <1>3, <1>4, <2>1 DEF At, WriteSet, CopyAt
<1>6. Writeback(t) => data' = [data EXCEPT ![o] = e.val]
  BY <1>1, <1>3 DEF Writeback
<1>7. ASSUME Unlock(t)
      PROVE  p_obj_copy' = [p_obj_copy EXCEPT ![o] = NULL] /\ data[o] = e.val
  <2>1. Kept(t, m, k) /\ pc[t] = "unlock"
    BY <1>2, <1>7 DEF ValueInv, Values, Unlock
  <2> QED
    BY <1>1, <1>3, <1>7, <2>1 DEF Kept, Unlock
<1> QED
  BY <1>2, <1>5, <1>6, <1>7

-----------------------------------------------------------------------------
(* What is shown to a section does not change while it lasts. *)

\* The header stays, and leads to the same copy, for the sections that read it.
LEMMA HeaderKept ==
    ASSUME ValueInv, Stamped, Exact, NEW u \in Threads, Thread(u), NEW t \in Threads,
           local_version'[t] = local_version[t],
           NEW o \in Objs, NEW c \in Addr, p_obj_copy[o] = c, p_obj_copy'[o] = c
    PROVE  /\ Reads(t, c.th)' <=> Reads(t, c.th)
           /\ Reads(t, c.th) => At(c)' = At(c) /\ Complete(c) /\ Complete(c)'
<1> DEFINE w == c.th
<1>0. LogInv /\ TypeInv /\ Ring /\ w \in Threads /\ TypeInv'
  BY TypeStep, CopyTypes DEF ValueInv, LogInv, Next
<1>1. ASSUME Reads(t, w) PROVE pc[w] # "copy"
  BY <1>1 DEF Reads, Publishing
<1>2. CASE u # w
  <2>1. Same(w)
    BY <1>0, <1>2, Others
  <2>2. Reads(t, w)' <=> Reads(t, w)
    BY <2>1 DEF Same, Reads, Publishing
  <2>3. At(c)' = At(c) /\ (Complete(c)' <=> Complete(c))
    BY <2>1 DEF Same, At, Complete
  <2> QED
    BY <1>0, <1>1, <2>2, <2>3, HeaderLive
<1>3. CASE u = w
  <2>1. Reads(t, w)' => Reads(t, w)
    BY <1>0, <1>3, ReadsStep
  <2>2. ASSUME Reads(t, w)
        PROVE  Reads(t, w)' /\ At(c)' = At(c) /\ Complete(c) /\ Complete(c)'
    <3>1. PICK n \in Nat, k \in Nat : /\ Live(w, n, k) /\ c = CopyAt(w, n, k)
                                      /\ At(c) = WriteSet(w, n)[k] /\ Complete(c)
      BY <1>0, <1>1, <2>2, HeaderLive
    <3>2. Live(w, n, k)' /\ WriteSet(w, n)'[k] = WriteSet(w, n)[k]
      <4>1. CASE Stays(w) /\ Keeps(w)
        BY <3>1, <4>1 DEF Keeps
      <4>2. CASE Unlock(w)
        <5>0. ws_counter[w] \in Nat /\ i[w] \in Nat
          BY <1>0, CounterTypes
        <5>1. PICK m \in Nat, j \in Nat : m = ws_counter[w] /\ j = i[w] + 1
          BY <5>0
        <5>2. Drops(w, m, j)
          BY <1>0, <4>2, <5>1, UnlockDrops
        <5>3. WriteSet(w, m)[j].obj \in Objs /\ p_obj_copy[WriteSet(w, m)[j].obj] = CopyAt(w, m, j)
          BY <1>0, <5>2, LiveEntry DEF Drops, LogInv, LockInv, Locking
        <5>4. p_obj_copy'[WriteSet(w, m)[j].obj] = NULL
          BY <1>0, <5>2, <5>3, CopyTypes DEF Drops
        <5>5. o # WriteSet(w, m)[j].obj
          BY <1>0, <5>4, CopyTypes
        <5>6. p_obj_copy[o] = CopyAt(w, n, k) /\ ~(n = m /\ k = j)
          <6>1. WriteSet(w, n)[k].obj = o
            <7>1. PICK n2 \in Nat, k2 \in Nat : /\ Live(w, n2, k2) /\ c = CopyAt(w, n2, k2)
                                                /\ WriteSet(w, n2)[k2].obj = o
                                                /\ At(c) = WriteSet(w, n2)[k2]
              BY <1>0, <1>1, <2>2, HeaderLive
            <7> QED
              BY <3>1, <7>1
          <6> QED
            BY <3>1, <5>5, <6>1
        <5>7. Live(w, n, k)' /\ UNCHANGED obj_write_set
          BY <3>1, <5>2, <5>6 DEF Drops, Dropped
        <5> QED
          BY <5>7 DEF WriteSet
      <4>3. CASE TryLockCas(w) \/ TryLockCopy(w) \/ UnlockObjs(w)
        BY <2>2, <4>3 DEF Reads, Publishing, TryLockCas, TryLockCopy, UnlockObjs
      <4> QED
        BY <1>0, <1>3, <4>1, <4>2, <4>3, LogSteps
    <3>4. At(c)' = At(c)
      BY <3>1, <3>2 DEF At, CopyAt, WriteSet
    <3>5. Complete(c)'
      <4>1. obj_write_set'[w][WS_INDEX(n)] \in Seq(Entry)
        BY <1>0, SlotIndex DEF TypeInv, TypeOK, OwnTypes
      <4>2. k <= Len(obj_write_set'[w][WS_INDEX(n)]) /\ k \in Nat \ {0}
        BY <3>2 DEF Live, WriteSet
      <4>3. k \in DOMAIN obj_write_set'[w][WS_INDEX(n)]
        BY <4>1, <4>2
      <4> QED
        BY <3>1, <4>3 DEF Complete, CopyAt
    <3>6. ~SyncUnstamp(w)
      <4>1. ASSUME SyncUnstamp(w) PROVE FALSE
        <5>1. pc[w] = "writeback" /\ ws_counter[w] = ws_tail_counter[w]
          BY <4>1 DEF SyncUnstamp
        <5>2. ws_tail_counter[w] <= n /\ n <= ws_tail_counter[w] /\ n # ws_tail_counter[w]
          BY <3>1, <5>1 DEF Live, First, BackLabels, InSection
        <5> QED
          BY <1>0, <5>2, CounterTypes
      <4> QED
        BY <4>1
    <3>7. Reads(t, w)'
      <4>1. Publishing(w) /\ writer_version[w] <= local_version[t]
        BY <2>2 DEF Reads
      <4>2. Publishing(w)' /\ writer_version'[w] = writer_version[w]
        BY <1>0, <1>3, <3>6, <4>1, VersionSteps
        DEF CriticalLabels, Publishing, SyncLoad, SyncStore, SyncBump, SyncCommit
      <4> QED
        BY <4>1, <4>2 DEF Reads
    <3> QED
      BY <3>1, <3>4, <3>5, <3>7
  <2> QED
    BY <2>1, <2>2
<1> QED
  BY <1>2, <1>3

LEMMA ShownStep ==
    ASSUME ValueInv, GraceInv, Exact, NEW u \in Threads, Thread(u), NEW t \in Threads,
           InSection(t), InSection(t)', local_version'[t] = local_version[t], NEW o \in Objs
    PROVE  Shown(t, o)' = Shown(t, o)
<1>0. /\ LogInv /\ TypeInv /\ Ring /\ Stamped /\ data \in [Objs -> Value]
      /\ p_obj_copy \in [Objs -> Addr \cup {NULL}] /\ p_obj_copy' \in [Objs -> Addr \cup {NULL}]
  <2>1. TypeInv'
    BY TypeStep DEF ValueInv, LogInv, Next
  <2> QED
    BY <2>1, FlagTypes DEF ValueInv, LogInv, GraceInv, TypeInv, TypeOK, GlobalTypes
<1>1. CASE Writeback(u) \/ Unlock(u)
  <2>1. PICK b \in Objs, c \in Addr :
              /\ p_obj_copy[b] = c /\ c.th = u /\ pc[u] \in BackLabels
              /\ Writeback(u) => data' = [data EXCEPT ![b] = At(c).val]
              /\ Unlock(u) => p_obj_copy' = [p_obj_copy EXCEPT ![b] = NULL] /\ data[b] = At(c).val
    BY <1>1, BackSteps
  <2>2. u # t
    BY <2>1 DEF InSection, BackLabels
  <2>3. Reads(t, u)
    BY <2>1, <2>2 DEF GraceInv, Scanned, Waited, LateEnough, Reads, Publishing, BackLabels
  <2>4. Complete(c) /\ c # NULL
    BY <1>0, <2>1, HeaderLive, CopyTypes DEF BackLabels
  <2>5. Shown(t, b) = At(c).val
    BY <1>0, <2>1, <2>3, <2>4 DEF Shown
  <2>6. CASE Writeback(u)
    <3>1. UNCHANGED <<p_obj_copy, obj_write_set>>
      BY <2>6 DEF Writeback
    <3>2. data' = [data EXCEPT ![b] = At(c).val]
      BY <2>1, <2>6
    <3>3. \A d \in Addr : p_obj_copy[o] = d =>
              (Reads(t, d.th)' <=> Reads(t, d.th)) /\ (Complete(d)' <=> Complete(d)) /\ At(d)' = At(d)
      BY <1>0, <3>1, HeaderKept DEF At, Complete
    <3>4. CASE o = b
      <4>1. p_obj_copy'[o] = c /\ Reads(t, c.th)' /\ Complete(c)' /\ At(c)' = At(c)
        BY <2>1, <2>3, <2>4, <3>1, <3>3, <3>4
      <4>2. Shown(t, o)' = At(c).val
        BY <2>4, <4>1 DEF Shown
      <4> QED
        BY <2>5, <3>4, <4>2
    <3>5. CASE o # b
      BY <1>0, <3>1, <3>2, <3>3, <3>5 DEF Shown
    <3> QED
      BY <3>4, <3>5
  <2>7. CASE Unlock(u)
    <3>1. UNCHANGED <<data, obj_write_set>>
      BY <2>7 DEF Unlock
    <3>2. CASE o = b
      <4>1. p_obj_copy'[o] = NULL
        BY <1>0, <2>1, <2>7, <3>2
      <4> QED
        BY <2>1, <2>5, <2>7, <3>1, <3>2, <4>1 DEF Shown
    <3>3. CASE o # b
      <4>1. p_obj_copy'[o] = p_obj_copy[o]
        BY <1>0, <2>1, <2>7, <3>3
      <4> QED
        BY <1>0, <3>1, <4>1, HeaderKept DEF Shown, At, Complete
    <3> QED
      BY <3>2, <3>3
  <2> QED
    BY <1>1, <2>6, <2>7
<1>2. CASE ~(Writeback(u) \/ Unlock(u))
  <2>1. UNCHANGED data
    BY <1>0, <1>2, DataSteps
  <2>2. CASE p_obj_copy'[o] = p_obj_copy[o]
    BY <1>0, <2>1, <2>2, HeaderKept DEF Shown
  <2>3. CASE p_obj_copy'[o] # p_obj_copy[o]
    <3>1. CASE /\ pc[u] = "cas" /\ pc'[u] = "copy" /\ p_obj_copy[cur_obj[u]] = NULL
               /\ p_obj_copy' = [p_obj_copy EXCEPT ![cur_obj[u]] = cur_copy[u]]
      <4>1. cur_obj[u] = o /\ p_obj_copy'[o] = cur_copy[u] /\ cur_copy[u].th = u
        BY <1>0, <2>3, <3>1, InstallsOwn
      <4> QED
        BY <2>1, <3>1, <4>1 DEF Shown, Reads, Publishing
    <3>2. CASE pc[u] = "unlock_objs" /\ \E k \in Nat : Drops(u, ws_tail_counter[u], k)
      <4>1. PICK n, k \in Nat : Drops(u, n, k)
        BY <1>0, <3>2, CounterTypes
      <4>2. /\ WriteSet(u, n)[k].obj \in Objs /\ CopyAt(u, n, k) # NULL
            /\ p_obj_copy[WriteSet(u, n)[k].obj] = CopyAt(u, n, k)
            /\ p_obj_copy' = [p_obj_copy EXCEPT ![WriteSet(u, n)[k].obj] = NULL]
        BY <1>0, <4>1, LiveEntry DEF Drops, LogInv, LockInv, Locking
      <4>3. p_obj_copy[o].th = u /\ p_obj_copy'[o] = NULL
        BY <1>0, <2>3, <4>2 DEF CopyAt
      <4> QED
        BY <2>1, <3>2, <4>3 DEF Shown, Reads, Publishing
    <3> QED
      BY <1>0, <1>2, <2>3, <3>1, <3>2, HeaderSteps
  <2> QED
    BY <2>2, <2>3
<1> QED
  BY <1>1, <1>2

\* A section starts with what is published: whoever publishes is not ahead of it.
LEMMA ViewedStep ==
    ASSUME ValueInv, GraceInv, Exact, Viewed, NEW u \in Threads, Thread(u)
    PROVE  Viewed'
<1>0. TypeInv
  BY DEF ValueInv, LogInv
<1> SUFFICES ASSUME NEW t \in Threads, InSection(t)', NEW o \in Objs
             PROVE  snap'[t][o] = Shown(t, o)'
  BY DEF Viewed
<1>1. CASE InSection(t) /\ local_version'[t] = local_version[t] /\ snap'[t] = snap[t]
  BY <1>1, ShownStep DEF Viewed
<1>2. CASE t = u /\ ReadVersion(t)
  <2>1. local_version'[t] = g_rlu_writer_version /\ snap'[t][o] = Published(o)
    BY <1>0, <1>2, VersionTypes, FlagTypes DEF ReadVersion
  <2>2. UNCHANGED <<objVars, obj_write_set, writer_version>>
        /\ pc[t] = "version" /\ pc' = [pc EXCEPT ![t] = "commit_version"]
    BY <1>2 DEF ReadVersion, Goto
  <2>3. ASSUME NEW w \in Threads PROVE Reads(t, w)' <=> Publishing(w)
    <3>1. Publishing(w)' <=> Publishing(w)
      BY <1>0, <2>2, VersionTypes DEF Publishing
    <3>2. Publishing(w) => writer_version[w] <= g_rlu_writer_version
      BY <1>0, VersionTypes DEF Exact
    <3> QED
      BY <2>1, <2>2, <3>1, <3>2 DEF Reads
  <2>4. p_obj_copy[o] # NULL => p_obj_copy[o].th \in Threads
    BY <1>0, CopyTypes
  <2> QED
    BY <2>1, <2>2, <2>3, <2>4 DEF Published, Shown, Complete, At
<1>3. CASE t # u
  BY <1>0, <1>1, <1>3, Others, OtherFlags DEF Same, InSection
<1> QED
  BY <1>0, <1>1, <1>2, <1>3, SectionSteps DEF GoesOn

-----------------------------------------------------------------------------
(* The headers that sections have read. *)

LEMMA StealingStep ==
    ASSUME LogInv, GraceInv, Exact, Viewed, Stealing, NEW u \in Threads, Thread(u)
    PROVE  Stealing'
<1>0. TypeInv /\ Stamped /\ Ring
  BY DEF LogInv, GraceInv
<1> SUFFICES ASSUME NEW t \in Threads, NEW o \in Objs, NEW c \in Addr,
                    pc'[t] = "steal", cur_obj'[t] = o, cur_copy'[t] = c
             PROVE  /\ \A d \in Addr : (p_obj_copy'[o] = d /\ Reads(t, d.th)') => d = c
                    /\ Reads(t, c.th)' => \A n \in Nat :
                          (ws_wb_counter'[c.th] <= n /\ CopyOf(o, c, n)')
                              => At(c)'.val = snap'[t][o]
  BY DEF Stealing
<1> DEFINE w == c.th
<1>1. w \in Threads
  BY <1>0, CopyTypes
<1>2. CASE t # u
  <2>0. /\ pc[t] = "steal" /\ cur_obj[t] = o /\ cur_copy[t] = c
        /\ local_version'[t] = local_version[t] /\ snap'[t] = snap[t]
    BY <1>0, <1>2, Others, OtherFlags DEF Same
  <2>1. ASSUME NEW d \in Addr, p_obj_copy'[o] = d, Reads(t, d.th)' PROVE d = c
    <3>1. CASE p_obj_copy[o] = d
      <4>1. Reads(t, d.th)
        BY <1>0, <2>0, <2>1, ReadsStep, CopyTypes
      <4> QED
        BY <2>0, <3>1, <4>1 DEF Stealing
    <3>2. CASE TryLockCas(u) /\ d = cur_copy[u]
      <4>1. d.th = u /\ pc'[u] \in {"copy", "failed"}
        BY <1>0, <3>2, InstallsOwn, CounterTypes DEF TryLockCas, Goto
      <4> QED
        BY <2>1, <4>1 DEF Reads, Publishing
    <3> QED
      BY <2>1, <3>1, <3>2, PointersStep
  <2>2. ASSUME Reads(t, w)', NEW n \in Nat, ws_wb_counter'[w] <= n, CopyOf(o, c, n)'
        PROVE  At(c)'.val = snap'[t][o]
    <3>1. Reads(t, w)
      BY <1>0, <1>1, <2>0, <2>2, ReadsStep
    <3>2. ws_wb_counter[w] <= n /\ CopyOf(o, c, n) /\ At(c)' = At(c)
      <4>1. CASE u # w
        <5>1. Same(w)
          BY <1>0, <1>1, <4>1, Others
        <5> QED
          BY <2>2, <5>1 DEF Same, CopyOf, WriteSet, At
      <4>2. CASE u = w /\ UNCHANGED <<counterVars, obj_write_set>>
        BY <2>2, <4>2 DEF CopyOf, WriteSet, At
      <4>3. CASE ResetWriteSets(w)
        <5>1. UNCHANGED <<ws_wb_counter, ws_tail_counter>> /\ pc[w] = "reset"
          BY <4>3 DEF ResetWriteSets
        <5>2. ws_wb_counter[w] <= n /\ n < ws_tail_counter[w] /\ ws_head_counter[w] <= n
          BY <1>0, <1>1, <2>2, <5>1, CounterTypes DEF CopyOf, Ring, RingOf
        <5>3. WriteSet(w, n)' = WriteSet(w, n)
          BY <1>1, <4>3, <5>1, <5>2, InRingStep DEF Thread, Sync
        <5>4. CopyOf(o, c, n) /\ c.ws = WS_INDEX(n)
          BY <2>2, <5>1, <5>3 DEF CopyOf
        <5> QED
          BY <5>2, <5>3, <5>4 DEF At, WriteSet
      <4> QED
        <5>1. ~(TryLockCopy(w) \/ CommitUnlock(w) \/ ReleaseEnd(w))
          BY <3>1 DEF Reads, Publishing, TryLockCopy, CommitUnlock, ReleaseEnd, Releasing
        <5>2. ~SyncUnstamp(w)
          BY <1>0, <1>1, <2>2, CounterTypes DEF Reads, Publishing, SyncUnstamp, Goto
        <5> QED
          BY <1>0, <1>1, <4>1, <4>2, <4>3, <5>1, <5>2, RingSteps
    <3> QED
      BY <2>0, <3>1, <3>2 DEF Stealing
  <2> QED
    BY <2>1, <2>2
<1>3. CASE t = u
  <2>1. PICK b \in Objs : DerefLocked(t, b)
    BY <1>0, <1>3, ToSteal
  <2>2. /\ b = o /\ p_obj_copy[o] = c /\ w # t /\ c # NULL
        /\ UNCHANGED <<p_obj_copy, obj_write_set, data, snap, writer_version, local_version>>
        /\ pc[t] = "section" /\ pc'[t] = "steal"
    BY <1>0, <1>3, <2>1, CopyTypes, CounterTypes DEF DerefLocked, Goto
  <2>3. ASSUME Reads(t, w)', NEW n \in Nat, CopyOf(o, c, n)' PROVE At(c)'.val = snap'[t][o]
    <3>1. Reads(t, w)
      BY <1>0, <1>1, <1>3, <2>2, <2>3, ReadsStep
    <3>2. Complete(c)
      BY <2>2, <2>3 DEF CopyOf, Complete, WriteSet
    <3>3. snap[t][o] = Shown(t, o)
      BY <2>2 DEF Viewed, InSection
    <3> QED
      BY <2>2, <3>1, <3>2, <3>3 DEF Shown, At
  <2> QED
    BY <2>2, <2>3
<1> QED
  BY <1>2, <1>3

-----------------------------------------------------------------------------
(* What sections have got. *)

\* What a section has got stays right.
LEMMA RightKept ==
    ASSUME ValueInv, GraceInv, StealInv, Exact, Viewed, NEW u \in Threads, Thread(u),
           NEW t \in Threads, NEW o \in Objs, NEW p \in Ptr, <<o, p>> \in refs[t],
           InSection(t), InSection(t)', GoesOn(t), Right(t, o, p)
    PROVE  Right(t, o, p)'
<1>0. /\ LogInv /\ TypeInv /\ Ring /\ data \in [Objs -> Value]
      /\ p_obj_copy \in [Objs -> Addr \cup {NULL}] /\ snap'[t] = snap[t]
      /\ \A c \in Addr : c # NULL
  BY FlagTypes, CopyTypes DEF ValueInv, LogInv, GoesOn
<1>1. ASSUME p \in Objs PROVE p = o /\ data'[o] = snap'[t][o]
  <2>1. p = o /\ data[o] = snap[t][o]
    BY <1>1 DEF Right
  <2>2. CASE Writeback(u)
    <3>1. PICK b \in Objs, c \in Addr :
              /\ p_obj_copy[b] = c /\ c.th = u /\ pc[u] \in BackLabels
              /\ data' = [data EXCEPT ![b] = At(c).val]
      BY <2>2, BackSteps
    <3>2. Reads(t, u)
      BY <3>1 DEF GraceInv, Scanned, Waited, LateEnough, Reads, Publishing, BackLabels, InSection
    <3>3. Complete(c) /\ c # NULL
      BY <1>0, <3>1, HeaderLive DEF BackLabels
    <3>4. snap[t][b] = At(c).val
      BY <3>1, <3>2, <3>3 DEF Viewed, Shown
    <3> QED
      BY <1>0, <2>1, <3>1, <3>4
  <2> QED
    BY <1>0, <2>1, <2>2, DataSteps
<1>2. ASSUME p \in Addr, p.th # t PROVE At(p)'.val = snap'[t][o]
  BY <1>0, <1>2, StolenKept DEF Right
<1>3. ASSUME p \in Addr, p.th = t PROVE p_obj_copy'[o] = p /\ ~Installing(t, o, p)'
  <2>1. p_obj_copy[o] = p /\ p # NULL /\ ~Installing(t, o, p)
    BY <1>0, <1>3 DEF Right
  <2>2. ASSUME NEW n \in Nat, NEW k \in Nat, Drops(u, n, k), u # t PROVE p_obj_copy'[o] = p
    <3>1. /\ WriteSet(u, n)[k].obj \in Objs
          /\ p_obj_copy[WriteSet(u, n)[k].obj] = CopyAt(u, n, k)
          /\ p_obj_copy' = [p_obj_copy EXCEPT ![WriteSet(u, n)[k].obj] = NULL]
      BY <1>0, <2>2, LiveEntry DEF Drops, LogInv, LockInv, Locking
    <3>2. WriteSet(u, n)[k].obj # o
      BY <1>3, <2>1, <2>2, <3>1 DEF CopyAt
    <3> QED
      BY <1>0, <2>1, <3>1, <3>2
  <2>3. p_obj_copy'[o] = p
    <3>1. CASE UNCHANGED p_obj_copy
      BY <2>1, <3>1
    <3>2. CASE /\ p_obj_copy[cur_obj[u]] = NULL
               /\ p_obj_copy' = [p_obj_copy EXCEPT ![cur_obj[u]] = cur_copy[u]]
      BY <1>0, <2>1, <3>2
    <3>3. CASE pc[u] = "unlock_objs" /\ \E k \in Nat : Drops(u, ws_tail_counter[u], k)
      BY <1>0, <2>2, <3>3, CounterTypes DEF InSection
    <3>4. CASE Unlock(u) /\ Drops(u, ws_counter[u], i[u] + 1)
      <4>1. ws_counter[u] \in Nat /\ i[u] + 1 \in Nat
        BY <1>0, CounterTypes
      <4> QED
        BY <2>2, <3>4, <4>1 DEF Unlock, InSection
    <3> QED
      BY <1>0, <3>1, <3>2, <3>3, <3>4, HeaderSteps
  <2>4. ASSUME Installing(t, o, p)' PROVE FALSE
    <3>1. CASE t # u
      BY <1>0, <2>1, <2>4, <3>1, Others DEF Same, Installing
    <3>2. CASE t = u
      <4>1. pc[t] = "cas" /\ cur_obj[t] = o
        <5>1. ASSUME NEW b \in Objs, TryLock(t, b) PROVE FALSE
          BY <1>0, <2>4, <5>1, CounterTypes DEF TryLock, MayLock, Goto, Installing
        <5> QED
          BY <1>0, <2>4, <3>2, <5>1, CasSteps DEF Installing
      <4>2. pc'[t] = "copy" /\ p_obj_copy[o] # NULL
        BY <2>1, <2>4 DEF Installing
      <4>3. TryLockCas(t)
        BY <1>0, <1>3, <3>2, <4>1, LogSteps, <4>2 DEF Stays, TryLockCopy, UnlockObjs, Unlock
      <4> QED
        BY <1>0, <4>1, <4>2, <4>3, CounterTypes DEF TryLockCas, Goto
    <3> QED
      BY <3>1, <3>2
  <2> QED
    BY <2>3, <2>4
<1> QED
  BY <1>1, <1>2, <1>3 DEF Right

\* What a section adds to what it has got.
LEMMA GotSteps ==
    ASSUME LogInv, NEW t \in Threads, Thread(t), NEW o, NEW p,
           <<o, p>> \in refs'[t], <<o, p>> \notin refs[t]
    PROVE  \/ o \in Objs /\ Deref(t, o) /\
                 p = IF is_check_locks[t] /\ p_obj_copy[o] # NULL /\ p_obj_copy[o].th = t
                     THEN p_obj_copy[o] ELSE o
           \/ Steal(t) /\ o = cur_obj[t] /\
                 p = IF MaySteal(t, cur_copy[t].th) THEN cur_copy[t] ELSE cur_obj[t]
           \/ o \in Objs /\ TryLockOwn(t, o) /\ p = p_obj_copy[o]
           \/ TryLockCopy(t) /\ o = cur_obj[t] /\ p = cur_copy[t]
<1>0. TypeInv /\ refs \in [Threads -> SUBSET (Objs \X Ptr)]
  BY VersionTypes DEF LogInv
<1>1. CASE UNCHANGED refs
  BY <1>1
<1>2. CASE Steal(t) \/ TryLockCopy(t) \/ SendSyncRequest(t)
  BY <1>0, <1>2 DEF Steal, TryLockCopy, Got, SendSyncRequest
<1>3. ASSUME NEW b \in Objs, Deref(t, b)
      PROVE  /\ o = b
             /\ p = IF is_check_locks[t] /\ p_obj_copy[o] # NULL /\ p_obj_copy[o].th = t
                    THEN p_obj_copy[o] ELSE o
  <2> DEFINE q == IF is_check_locks[t] /\ p_obj_copy[b] # NULL /\ p_obj_copy[b].th = t
                  THEN p_obj_copy[b] ELSE b
  <2>1. refs'[t] = refs[t] \cup {<<b, q>>}
    BY <1>0, <1>3 DEF Deref, Got
  <2>2. <<o, p>> = <<b, q>>
    BY <2>1
  <2> QED
    BY <2>2
<1>4. ASSUME NEW b \in Objs, TryLockOwn(t, b) PROVE o = b /\ p = p_obj_copy[o]
  BY <1>0, <1>4 DEF TryLockOwn, Got
<1>5. CASE ReaderUnlock(t) \/ CommitUnlock(t) \/ Abort(t)
  BY <1>0, <1>5 DEF ReaderUnlock, CommitUnlock, Abort, LeaveSection
<1>6. CASE ThreadInit(t) \/ ThreadPublish(t) \/ SyncCheckpoint(t)
  BY <1>1, <1>6 DEF ThreadInit, ThreadPublish, SyncCheckpoint
<1>7. CASE ThreadFinish(t) \/ ThreadFinish2(t)
  BY <1>1, <1>7 DEF ThreadFinish, ThreadFinish2
<1>8. CASE Begin(t)
  BY <1>1, <1>8 DEF Begin, ReaderLock, Register, ReadVersion, ReadCommitVersion
<1>9. ASSUME NEW b \in Objs, DerefLocked(t, b) \/ TryLock(t, b) \/ TryLockFail(t, b)
      PROVE  UNCHANGED refs
  BY <1>9 DEF DerefLocked, TryLock, TryLockFail
<1>10. CASE TryLockCas(t) \/ SendSyncRequest(t) \/ (\E l \in WriterLocks : TryWriterLock(t, l))
  BY <1>1, <1>10 DEF TryLockCas, TryWriterLock, SendSyncRequest
<1>11. CASE UnlockObjs(t) \/ ReleaseWriterLock(t) \/ ReleaseEnd(t)
  BY <1>1, <1>11 DEF UnlockObjs, ReleaseWriterLock, ReleaseEnd
<1>12. CASE Sync(t)
  BY <1>1, <1>12 DEF Sync, SyncLoad, SyncStore, SyncBump, Scan, ScanEnd, Wait,
     ResetWriteSets, Writeback, Unlock, SyncUnstamp, SyncCommit, SyncEnd
<1> QED
  BY <1>1, <1>2, <1>3, <1>4, <1>5, <1>6, <1>7, <1>8, <1>9, <1>10, <1>11, <1>12
  DEF Thread, Access, End

\* What a section gets: a pointer to the object shows what it is to see ...
LEMMA DerefRight ==
    ASSUME LogInv, Unconcerned, Viewed, NEW t \in Threads, NEW o \in Objs, Deref(t, o)
    PROVE  ~(is_check_locks[t] /\ p_obj_copy[o] # NULL /\ p_obj_copy[o].th = t)
               => data[o] = snap[t][o]
<1> DEFINE c == p_obj_copy[o]
<1> SUFFICES ASSUME ~(is_check_locks[t] /\ c # NULL /\ c.th = t) PROVE Shown(t, o) = data[o]
  BY DEF Deref, Viewed, InSection
<1>1. /\ pc[t] = "section" /\ ~(is_check_locks[t] /\ c # NULL /\ c.th # t /\ is_steal[t])
      /\ c # NULL => c \in Addr /\ c.th \in Threads
  BY CopyTypes DEF Deref, LogInv
<1>2. CASE c = NULL
  BY <1>2 DEF Shown
<1>3. CASE c # NULL
  <2>1. ~is_steal[t]
    BY <1>1, <1>3 DEF Unconcerned, SectionLabels
  <2>2. ~Reads(t, c.th)
    BY <1>1, <1>3, <2>1 DEF Unconcerned, SectionLabels
  <2> QED
    BY <2>2 DEF Shown
<1> QED
  BY <1>2, <1>3

\* ... and so does what it takes, or leaves, behind a header.
LEMMA StealRight ==
    ASSUME LogInv, GraceInv, Unstamped, Pending, VersionsBelowMax, Exact, Viewed, Stealing,
           NEW t \in Threads, Steal(t), NEW o \in Objs, NEW c \in Addr,
           cur_obj[t] = o, cur_copy[t] = c
    PROVE  /\ MaySteal(t, c.th) => c.th # t /\ At(c).val = snap[t][o]
           /\ ~MaySteal(t, c.th) => data[o] = snap[t][o]
<1> DEFINE w == c.th
<1>0. TypeInv /\ w \in Threads /\ pc[t] = "steal" /\ InSection(t) /\ w # t
  BY CopyTypes DEF LogInv, Steal, InSection, Pending
<1>1. ASSUME MaySteal(t, w) PROVE At(c).val = snap[t][o]
  <2>1. writer_version[w] <= local_version[t] /\ local_version[t] <= g_rlu_writer_version
    BY <1>1 DEF MaySteal, GraceInv, Stamped
  <2>2. pc[w] \in StampedLabels
    BY <1>0, <2>1, VersionTypes DEF Unstamped, VersionsBelowMax
  <2>3. pc[w] # "bump"
    BY <1>0, <2>1, VersionTypes DEF Exact
  <2>4. Reads(t, w)
    BY <2>1, <2>2, <2>3 DEF Reads, Publishing, StampedLabels
  <2>5. ~Behind(t, w)
    BY <1>0, <2>1, <2>2, VersionTypes DEF Behind
  <2>6. PICK n \in Nat : ws_wb_counter[w] <= n /\ CopyOf(o, c, n)
    BY <1>0, <2>2, <2>5 DEF Pending, MayTake
  <2> QED
    BY <1>0, <2>4, <2>6 DEF Stealing
<1>2. ASSUME ~MaySteal(t, w) PROVE data[o] = snap[t][o]
  <2>1. ~Reads(t, w)
    BY <1>2 DEF MaySteal, Reads
  <2>2. p_obj_copy[o] # NULL => p_obj_copy[o] \in Addr
    BY <1>0, CopyTypes
  <2>3. p_obj_copy[o] # NULL => ~Reads(t, p_obj_copy[o].th)
    BY <1>0, <2>1, <2>2 DEF Stealing
  <2> QED
    BY <1>0, <2>3 DEF Viewed, Shown
<1> QED
  BY <1>0, <1>1, <1>2

LEMMA HeldStep ==
    ASSUME ValueInv, GraceInv, StealInv, VersionsBelowMax, SnapInv,
           NEW u \in Threads, Thread(u)
    PROVE  Held'
<1>0. LogInv /\ TypeInv /\ Exact /\ Unconcerned
  BY DEF ValueInv, LogInv, SnapInv, VersionInv
<1> SUFFICES ASSUME NEW t \in Threads, NEW o \in Objs, NEW p \in Ptr, <<o, p>> \in refs'[t]
             PROVE  Right(t, o, p)'
  BY DEF Held
<1>1. InSection(t)' /\ (<<o, p>> \in refs[t] => InSection(t) /\ GoesOn(t))
  <2>1. CASE t # u
    BY <1>0, <2>1, Others, OtherFlags DEF Same, InSection, GoesOn, StealInv, Taken
  <2>2. CASE t = u
    <3>1. refs[t] # {} => InSection(t)
      BY DEF StealInv, Taken
    <3>2. InSection(t)'
      BY <1>0, <2>2, <3>1, SectionKeeps
    <3>3. ReadVersion(t) => pc[t] = "version"
      BY DEF ReadVersion
    <3> QED
      BY <1>0, <2>2, <3>1, <3>2, <3>3, SectionSteps DEF InSection
  <2> QED
    BY <2>1, <2>2
<1>2. CASE <<o, p>> \in refs[t]
  BY <1>0, <1>1, <1>2, RightKept DEF SnapInv, Held
<1>3. CASE <<o, p>> \notin refs[t]
  <2>1. t = u
    BY <1>0, <1>3, Others DEF Same
  <2>2. \A a \in Addr : a \notin Objs /\ a # NULL
    BY AddressesAssumption
  <2>3. CASE Deref(t, o) /\ p = IF is_check_locks[t] /\ p_obj_copy[o] # NULL /\ p_obj_copy[o].th = t
                                THEN p_obj_copy[o] ELSE o
    <3>1. UNCHANGED <<data, p_obj_copy, snap>> /\ pc'[t] # "copy"
      BY <2>3 DEF Deref
    <3>2. p \in Addr => p_obj_copy[o] = p /\ p.th = t
      BY <2>2, <2>3
    <3>3. p \in Objs => p = o /\ data[o] = snap[t][o]
      <4>1. p_obj_copy[o] # NULL => p_obj_copy[o] \in Addr
        BY <1>0, CopyTypes
      <4> QED
        BY <1>0, <2>2, <2>3, <4>1, DerefRight DEF SnapInv
    <3> QED
      BY <2>2, <3>1, <3>2, <3>3 DEF Right, Installing
  <2>4. CASE Steal(t) /\ o = cur_obj[t] /\
                 p = IF MaySteal(t, cur_copy[t].th) THEN cur_copy[t] ELSE cur_obj[t]
    <3>1. UNCHANGED <<data, obj_write_set, snap>> /\ pc[t] = "steal"
      BY <2>4 DEF Steal
    <3>2. PICK c \in Addr : cur_copy[t] = c
      BY <1>0, <3>1, CopyTypes
    <3>3. /\ MaySteal(t, c.th) => c.th # t /\ At(c).val = snap[t][o]
          /\ ~MaySteal(t, c.th) => data[o] = snap[t][o]
      BY <1>0, <2>4, <3>2, StealRight DEF StealInv, SnapInv
    <3> QED
      BY <2>2, <2>4, <3>1, <3>2, <3>3 DEF Right, At
  <2>5. CASE TryLockOwn(t, o) /\ p = p_obj_copy[o]
    <3>1. UNCHANGED <<p_obj_copy, pc>> /\ p.th = t /\ pc[t] = "section" /\ p # NULL
      BY <2>5 DEF TryLockOwn, MayLock
    <3>2. p \in Addr
      BY <1>0, <2>5, <3>1, CopyTypes
    <3> QED
      BY <2>2, <2>5, <3>1, <3>2 DEF Right, Installing
  <2>6. CASE TryLockCopy(t) /\ o = cur_obj[t] /\ p = cur_copy[t]
    <3>1. UNCHANGED p_obj_copy /\ pc[t] = "copy" /\ pc'[t] = "section"
      BY <1>0, <2>6, CounterTypes DEF TryLockCopy, Goto
    <3>2. p \in Addr /\ p.th = t /\ p_obj_copy[o] = p
      BY <1>0, <2>6, <3>1, CopyTypes, InstallsOwn DEF LogInv, LockInv, Locking
    <3> QED
      BY <2>2, <3>1, <3>2 DEF Right, Installing
  <2> QED
    BY <1>0, <1>3, <2>1, <2>3, <2>4, <2>5, <2>6, GotSteps
<1> QED
  BY <1>2, <1>3

-----------------------------------------------------------------------------
(* The updates of the section in progress are not committed. *)

LEMMA NumberSteps ==
    ASSUME TypeInv, NEW t \in Threads, Thread(t)
    PROVE  \/ /\ UNCHANGED <<committed, n_starts>>
              /\ Numbered(t)' => Numbered(t)
           \/ ReaderLock(t) \/ CommitUnlock(t)
<1> USE CounterTypes DEF Numbered, InSection, Syncing, SyncLabels, Goto
<1>1. CASE ThreadInit(t) \/ ThreadPublish(t) \/ SyncCheckpoint(t)
  BY <1>1 DEF ThreadInit, ThreadPublish, SyncCheckpoint, Checkpoint, SyncCall
<1>2. CASE ThreadFinish(t) \/ ThreadFinish2(t)
  BY <1>2 DEF ThreadFinish, ThreadFinish2, SyncCall
<1>3. CASE Register(t) \/ ReadVersion(t) \/ ReadCommitVersion(t)
  BY <1>3 DEF Register, ReadVersion, ReadCommitVersion
<1>4. CASE Steal(t) \/ TryLockCas(t) \/ TryLockCopy(t) \/ SendSyncRequest(t)
  BY <1>4 DEF Steal, TryLockCas, TryLockCopy, SendSyncRequest
<1>5. CASE \E o \in Objs : Deref(t, o) \/ DerefLocked(t, o)
  BY <1>5 DEF Deref, DerefLocked
<1>6. CASE \E o \in Objs : TryLock(t, o) \/ TryLockOwn(t, o) \/ TryLockFail(t, o)
  BY <1>6 DEF TryLock, TryLockOwn, TryLockFail, MayLock
<1>7. CASE \E l \in WriterLocks : TryWriterLock(t, l)
  BY <1>7 DEF TryWriterLock
<1>8. CASE ReaderUnlock(t) \/ Abort(t)
  BY <1>8 DEF ReaderUnlock, Abort, LeaveSection
<1>9. CASE UnlockObjs(t) \/ ReleaseWriterLock(t) \/ ReleaseEnd(t)
  BY <1>9 DEF UnlockObjs, ReleaseWriterLock, ReleaseEnd, Releasing, Checkpoint, SyncCall
<1>10. CASE SyncLoad(t) \/ SyncStore(t) \/ SyncBump(t) \/ Scan(t) \/ ScanEnd(t) \/ Wait(t)
  BY <1>10 DEF SyncLoad, SyncStore, SyncBump, Scan, ScanEnd, Wait
<1>11. CASE ResetWriteSets(t) \/ Writeback(t) \/ Unlock(t)
  BY <1>11 DEF ResetWriteSets, Writeback, Unlock
<1>12. CASE SyncUnstamp(t) \/ SyncCommit(t) \/ SyncEnd(t)
  BY <1>12 DEF SyncUnstamp, SyncCommit, SyncEnd, Returns
<1> QED
  BY <1>1, <1>2, <1>3, <1>4, <1>5, <1>6, <1>7, <1>8, <1>9, <1>10, <1>11, <1>12
  DEF Thread, Begin, Access, End, Sync

LEMMA NewUpdatesStep ==
    ASSUME TypeInv, NewUpdates, NEW u \in Threads, Thread(u)
    PROVE  NewUpdates'
<1> SUFFICES ASSUME NEW t \in Threads, NEW o \in Objs, NEW m \in Nat,
                    <<t, m>> \in committed'[o]
             PROVE  m <= n_starts'[t] /\ (Numbered(t)' => m < n_starts'[t])
  BY DEF NewUpdates
<1> USE FlagTypes
<1>1. CASE t = u /\ ReaderLock(t)
  BY <1>1 DEF ReaderLock, NewUpdates
<1>2. CASE t = u /\ CommitUnlock(t)
  <2>1. ~Numbered(t)'
    <3>1. pc'[t] = "release_prev" \/ (pc'[t] = "load" /\ ret'[t] = "release_prev")
      BY <1>2, CounterTypes DEF CommitUnlock, SyncCall, Goto
    <3> QED
      BY <3>1 DEF Numbered, InSection, Syncing, SyncLabels
  <2>2. <<t, m>> \in committed[o] \/ m = n_starts[t]
    BY <1>2 DEF CommitUnlock
  <2>3. n_starts'[t] = n_starts[t]
    BY <1>2 DEF CommitUnlock
  <2> QED
    BY <2>1, <2>2, <2>3 DEF NewUpdates
<1>3. CASE t = u /\ ~ReaderLock(t) /\ ~CommitUnlock(t)
  BY <1>3, NumberSteps DEF NewUpdates
<1>4. CASE t # u
  <2>1. Same(t) /\ (Numbered(t)' <=> Numbered(t)) /\ n_starts'[t] = n_starts[t]
    BY <1>4, Others DEF Same, Numbered, InSection, Syncing
  <2>2. <<t, m>> \in committed[o]
    <3>1. CASE ReaderLock(u)
      BY <3>1 DEF ReaderLock
    <3>2. CASE CommitUnlock(u)
      BY <1>4, <3>2 DEF CommitUnlock
    <3> QED
      BY <3>1, <3>2, NumberSteps
  <2> QED
    BY <2>1, <2>2 DEF NewUpdates
<1> QED
  BY <1>1, <1>2, <1>3, <1>4

-----------------------------------------------------------------------------
LEMMA SnapInit == Init => SnapInv
<1> SUFFICES ASSUME Init PROVE SnapInv
  OBVIOUS
<1>1. \A t \in Threads : pc[t] \in {"idle", "new"} /\ refs[t] = {} /\ n_starts[t] = 0
  BY DEF Init
<1>2. VersionInv
  BY <1>1 DEF Init, VersionInv, Exact, Counted, Unconcerned, Publishing, SectionLabels
<1>3. Viewed /\ Stealing /\ Held
  BY <1>1 DEF Viewed, Stealing, Held, InSection
<1>4. NewUpdates
  BY DEF Init, NewUpdates
<1> QED
  BY <1>2, <1>3, <1>4 DEF SnapInv

LEMMA SnapUnchanged == SnapInv /\ UNCHANGED vars => SnapInv'
<1> SUFFICES ASSUME SnapInv, UNCHANGED vars PROVE SnapInv'
  OBVIOUS
<1>1. VersionInv'
  BY DEF SnapInv, VersionInv, Exact, Counted, Unconcerned, Reads, Publishing
<1>2. Viewed'
  BY DEF SnapInv, Viewed, Shown, Reads, Publishing, InSection, Complete, At
<1>3. Stealing'
  BY DEF SnapInv, Stealing, Reads, Publishing, CopyOf, WriteSet, At
<1>4. Held'
  BY DEF SnapInv, Held, Right, Installing, At
<1>5. NewUpdates'
  BY DEF SnapInv, NewUpdates, Numbered, InSection, Syncing
<1> QED
  BY <1>1, <1>2, <1>3, <1>4, <1>5 DEF SnapInv

LEMMA SnapStep ==
    ASSUME ValueInv, GraceInv, StealInv, VersionsBelowMax, SyncsExclude, SnapInv, [Next]_vars
    PROVE  SnapInv'
<1>0. LogInv /\ TypeInv /\ Stamped
  BY DEF ValueInv, LogInv, GraceInv
<1>1. ASSUME NEW u \in Threads, Thread(u) PROVE SnapInv'
  <2>1. VersionInv'
    BY <1>0, <1>1, VersionStep DEF SnapInv
  <2>2. Viewed'
    BY <1>1, ViewedStep DEF SnapInv, VersionInv
  <2>3. Stealing'
    BY <1>0, <1>1, StealingStep DEF SnapInv, VersionInv
  <2>4. Held'
    BY <1>1, HeldStep
  <2>5. NewUpdates'
    BY <1>0, <1>1, NewUpdatesStep DEF SnapInv
  <2> QED
    BY <2>1, <2>2, <2>3, <2>4, <2>5 DEF SnapInv
<1> QED
  BY <1>1, SnapUnchanged DEF Next, Terminated

\* The snapshots, with the invariants they rest on, for as long as no two
\* synchronisations overlap and g_rlu_writer_version stays below MAX_VERSION.
THEOREM SnapshotInvariant ==
    Spec /\ []VersionsBelowMax /\ []SyncsExclude
        => [](ValueInv /\ GraceInv /\ StealInv /\ SnapInv)
<1>1. /\ ValueInv /\ GraceInv /\ StealInv /\ SnapInv /\ VersionsBelowMax /\ SyncsExclude
      /\ [Next]_vars
      => SnapInv'
  BY SnapStep
<1> QED
  BY <1>1, SnapInit, ValueInvariant, StealInvariant, PTL DEF Spec

-----------------------------------------------------------------------------
(* What sections get is one snapshot. *)

\* A copy that the section of t has locked: its own update and the snapshot.
LEMMA OwnCopy ==
    ASSUME ValueInv, SnapInv, NEW t \in Threads, InSection(t), NEW o \in Objs, NEW p \in Addr,
           p.th = t, p_obj_copy[o] = p, ~Installing(t, o, p), p.ws = WsCurId(t)
    PROVE  /\ Complete(p) /\ At(p).val = data[o] \cup {<<t, n_starts[t]>>}
           /\ data[o] = snap[t][o] /\ committed[o] = data[o]
           /\ <<t, n_starts[t]>> \notin data[o]
<1>0. LogInv /\ TypeInv /\ Ring
  BY DEF ValueInv, LogInv
<1>1. PICK n \in Nat, k \in Nat : Live(t, n, k) /\ p = CopyAt(t, n, k) /\ WriteSet(t, n)[k].obj = o
  BY <1>0 DEF LogInv, LockInv, Owned, OwnedBy
<1>2. n = ws_tail_counter[t]
  <2>1. /\ ws_wb_counter[t] <= n /\ n <= ws_tail_counter[t]
        /\ ws_wb_counter[t] <= ws_tail_counter[t] /\ ws_tail_counter[t] \in Nat
    BY <1>0, <1>1, LiveEntry, CounterTypes DEF Ring, RingOf
  <2>2. WS_INDEX(n) = WS_INDEX(ws_tail_counter[t])
    BY <1>1 DEF CopyAt, WsCurId
  <2> QED
    BY <1>0, <2>1, <2>2, LiveSlots
<1>3. k \in DOMAIN WriteSet(t, n) /\ At(p) = WriteSet(t, n)[k] /\ Complete(p)
  BY <1>0, <1>1, LiveEntry DEF At, Complete, WriteSet, CopyAt
<1>4. committed[o] = data[o] /\ At(p).val = data[o] \cup {<<t, n_starts[t]>>}
  BY <1>1, <1>2, <1>3 DEF ValueInv, Values, Kept
<1>5. <<t, n_starts[t]>> \notin data[o]
  <2>1. n_starts[t] \in Nat /\ ~(n_starts[t] < n_starts[t])
    BY <1>0, FlagTypes
  <2>2. Numbered(t)
    BY DEF Numbered
  <2> QED
    BY <1>4, <2>1, <2>2 DEF SnapInv, NewUpdates
<1>6. snap[t][o] = data[o]
  <2>1. ~Publishing(t)
    BY DEF Publishing, InSection
  <2> QED
    BY <2>1 DEF SnapInv, Viewed, Shown, Reads
<1> QED
  BY <1>3, <1>4, <1>5, <1>6

\* Whatever a section of rlu_reader_lock .. rlu_reader_unlock gets shows the
\* contents that were published when it started (rlu.c:835-840), however
\* many copies it took from whom, and however write-backs interleave with it, as
\* long as synchronisations do not overlap.
THEOREM SnapshotIfExclusive ==
    Spec /\ []VersionsBelowMax /\ []SyncsExclude => []SnapshotConsistent
<1>1. ASSUME ValueInv, StealInv, SnapInv PROVE SnapshotConsistent
  <2>0. TypeInv /\ refs \in [Threads -> SUBSET (Objs \X Ptr)]
    BY <1>1, VersionTypes DEF ValueInv, LogInv
  <2> SUFFICES ASSUME NEW t \in Threads, NEW o \in Objs, NEW p \in Ptr, <<o, p>> \in refs[t]
               PROVE  IF p \in Addr /\ p.th = t
                      THEN /\ p_obj_copy[o] = p
                           /\ p.ws = WsCurId(t) =>
                                 At(p).val \ {<<t, n_starts[t]>>} = snap[t][o]
                      ELSE Contents(p) = snap[t][o]
    BY <2>0 DEF SnapshotConsistent
  <2>1. Right(t, o, p) /\ InSection(t)
    BY <1>1 DEF SnapInv, Held, StealInv, Taken
  <2>2. CASE p \in Addr /\ p.th = t
    <3>1. p_obj_copy[o] = p /\ ~Installing(t, o, p)
      BY <2>1, <2>2 DEF Right
    <3>2. ASSUME p.ws = WsCurId(t)
          PROVE  At(p).val \ {<<t, n_starts[t]>>} = snap[t][o]
      <4>1. /\ At(p).val = data[o] \cup {<<t, n_starts[t]>>}
            /\ data[o] = snap[t][o] /\ <<t, n_starts[t]>> \notin data[o]
        BY <1>1, <2>1, <2>2, <3>1, <3>2, OwnCopy
      <4> QED
        BY <4>1
    <3> QED
      BY <2>2, <3>1, <3>2
  <2>3. CASE ~(p \in Addr /\ p.th = t)
    BY <2>1, <2>3, AddressesAssumption DEF Right, Contents, Ptr
  <2> QED
    BY <2>2, <2>3
<1> QED
  BY <1>1, SnapshotInvariant, PTL

-----------------------------------------------------------------------------
(* Why synchronisations do not overlap. *)

\* How a thread comes to synchronise, and what it needs for that.
LEMMA SyncSteps ==
    ASSUME TypeInv, NEW t \in Threads, Thread(t)
    PROVE  /\ Syncing(t)' => \/ Syncing(t) /\ ret'[t] = ret[t]
                             \/ CommitUnlock(t) /\ ret'[t] = "release_prev"
                             \/ /\ is_sync[t] \/ ThreadFinish(t) \/ ThreadFinish2(t)
                                /\ ws_tail_counter[t] # ws_head_counter[t]
           /\ is_write_detected'[t] => is_write_detected[t] \/ t \in Writers
           /\ pc'[t] = "finish2" => ThreadFinish(t) \/ (Syncing(t) /\ ret[t] = "finish2")
           /\ \A u \in Threads : is_sync'[u] => \/ is_sync[u] \/ SendSyncRequest(t)
                                                \/ \E o \in Objs : TryLockFail(t, o)
           /\ pc'[t] = "request" => \E o \in Objs : TryLockFail(t, o)
<1>0. is_sync \in [Threads -> BOOLEAN]
  BY DEF TypeInv, TypeOK, PeerTypes
<1> USE CounterTypes DEF Syncing, SyncLabels, Goto
<1>1. CASE ThreadInit(t) \/ ThreadPublish(t)
  BY <1>1 DEF ThreadInit, ThreadPublish
<1>2. CASE SyncCheckpoint(t) \/ ReaderLock(t)
  BY <1>2 DEF SyncCheckpoint, ReaderLock, Checkpoint, SyncCall
<1>3. CASE ThreadFinish(t)
  BY <1>3 DEF ThreadFinish, SyncCall
<1>4. CASE ThreadFinish2(t)
  BY <1>4 DEF ThreadFinish2, SyncCall
<1>5. CASE Register(t) \/ ReadVersion(t) \/ ReadCommitVersion(t)
  BY <1>5 DEF Register, ReadVersion, ReadCommitVersion
<1>6. CASE Steal(t) \/ TryLockCas(t) \/ TryLockCopy(t) \/ SendSyncRequest(t)
  BY <1>6 DEF Steal, TryLockCas, TryLockCopy, SendSyncRequest
<1>7. CASE \E o \in Objs : Deref(t, o) \/ DerefLocked(t, o) \/ TryLockOwn(t, o)
  BY <1>7 DEF Deref, DerefLocked, TryLockOwn, MayLock
<1>8. CASE \E o \in Objs : TryLock(t, o)
  BY <1>8 DEF TryLock, MayLock
<1>9. CASE \E o \in Objs : TryLockFail(t, o)
  BY <1>9 DEF TryLockFail, MayLock
<1>10. CASE \E l \in WriterLocks : TryWriterLock(t, l)
  BY <1>10 DEF TryWriterLock
<1>11. CASE ReaderUnlock(t) \/ Abort(t) \/ UnlockObjs(t) \/ ReleaseWriterLock(t)
  BY <1>11 DEF ReaderUnlock, Abort, UnlockObjs, ReleaseWriterLock, Releasing
<1>12. CASE CommitUnlock(t)
  BY <1>12 DEF CommitUnlock, SyncCall
<1>13. CASE ReleaseEnd(t)
  BY <1>13 DEF ReleaseEnd, Releasing, Checkpoint, SyncCall
<1>14. CASE SyncLoad(t) \/ SyncStore(t) \/ SyncBump(t) \/ Scan(t) \/ ScanEnd(t) \/ Wait(t)
  BY <1>14 DEF SyncLoad, SyncStore, SyncBump, Scan, ScanEnd, Wait
<1>15. CASE ResetWriteSets(t) \/ Writeback(t) \/ Unlock(t) \/ SyncUnstamp(t) \/ SyncCommit(t)
  BY <1>15 DEF ResetWriteSets, Writeback, Unlock, SyncUnstamp, SyncCommit
<1>16. CASE SyncEnd(t)
  BY <1>0, <1>16 DEF SyncEnd, Returns
<1> QED
  BY <1>1, <1>2, <1>3, <1>4, <1>5, <1>6, <1>7, <1>8, <1>9, <1>10, <1>11, <1>12,
     <1>13, <1>14, <1>15, <1>16
  DEF Thread, Begin, Access, End, Sync

\* A thread that does not write has nothing to synchronise or to roll back.
Bystander(t) ==
    /\ ws_head_counter[t] = ws_tail_counter[t]
    /\ ~Syncing(t) /\ ~is_write_detected[t] /\ pc[t] # "unlock_objs"

Bystanders == \A t \in Threads \ Writers : Bystander(t)

LEMMA BystandersInit == Init => Bystanders
BY DEF Init, Bystanders, Bystander, Syncing, SyncLabels

LEMMA RollBackSteps ==
    ASSUME TypeInv, NEW t \in Threads, Thread(t), pc'[t] = "unlock_objs"
    PROVE  pc[t] = "unlock_objs" \/ is_write_detected[t]
<1>0. pc \in [Threads -> Labels]
  BY CounterTypes
<1> USE DEF Goto
<1>1. CASE ThreadInit(t) \/ ThreadPublish(t) \/ SyncCheckpoint(t)
  BY <1>0, <1>1 DEF ThreadInit, ThreadPublish, SyncCheckpoint, Checkpoint, SyncCall
<1>2. CASE ThreadFinish(t) \/ ThreadFinish2(t)
  BY <1>0, <1>2 DEF ThreadFinish, ThreadFinish2, SyncCall
<1>3. CASE Begin(t)
  <2>1. CASE ReaderLock(t)
    BY <1>0, <2>1 DEF ReaderLock, Checkpoint, SyncCall
  <2>2. CASE Register(t) \/ ReadVersion(t) \/ ReadCommitVersion(t)
    BY <1>0, <2>2 DEF Register, ReadVersion, ReadCommitVersion
  <2> QED
    BY <1>3, <2>1, <2>2 DEF Begin
<1>4. CASE Access(t)
  <2>1. CASE Steal(t) \/ TryLockCas(t) \/ TryLockCopy(t) \/ SendSyncRequest(t)
    BY <1>0, <2>1 DEF Steal, TryLockCas, TryLockCopy, SendSyncRequest
  <2>2. ASSUME NEW o \in Objs, Deref(t, o) \/ DerefLocked(t, o) PROVE FALSE
    BY <1>0, <2>2 DEF Deref, DerefLocked
  <2>3. ASSUME NEW o \in Objs, TryLock(t, o) \/ TryLockOwn(t, o) \/ TryLockFail(t, o)
        PROVE  FALSE
    BY <1>0, <2>3 DEF TryLock, TryLockOwn, TryLockFail, MayLock
  <2>4. ASSUME NEW l \in WriterLocks, TryWriterLock(t, l) PROVE FALSE
    BY <1>0, <2>4 DEF TryWriterLock
  <2> QED
    BY <1>4, <2>1, <2>2, <2>3, <2>4 DEF Access
<1>5. CASE End(t)
  <2>1. CASE ReaderUnlock(t) \/ ReleaseWriterLock(t)
    BY <1>0, <2>1 DEF ReaderUnlock, ReleaseWriterLock, Releasing
  <2>2. CASE CommitUnlock(t) \/ ReleaseEnd(t)
    BY <1>0, <2>2 DEF CommitUnlock, ReleaseEnd, Releasing, Checkpoint, SyncCall
  <2>3. CASE Abort(t) \/ UnlockObjs(t)
    BY <1>0, <2>3 DEF Abort, UnlockObjs
  <2> QED
    BY <1>5, <2>1, <2>2, <2>3 DEF End
<1>6. CASE Sync(t)
  <2>1. CASE SyncLoad(t) \/ SyncStore(t) \/ SyncBump(t) \/ Scan(t) \/ ScanEnd(t) \/ Wait(t)
    BY <1>0, <2>1 DEF SyncLoad, SyncStore, SyncBump, Scan, ScanEnd, Wait
  <2>2. CASE ResetWriteSets(t) \/ Writeback(t) \/ Unlock(t)
    BY <1>0, <2>2 DEF ResetWriteSets, Writeback, Unlock
  <2>3. CASE SyncUnstamp(t) \/ SyncCommit(t)
    BY <1>0, <2>3 DEF SyncUnstamp, SyncCommit
  <2>4. CASE SyncEnd(t)
    BY <1>0, <2>4, CounterTypes DEF SyncEnd, Returns
  <2> QED
    BY <1>6, <2>1, <2>2, <2>3, <2>4 DEF Sync
<1> QED
  BY <1>1, <1>2, <1>3, <1>4, <1>5, <1>6 DEF Thread

LEMMA BystandersStay == LogInv /\ Bystanders /\ [Next]_vars => Bystanders'
<1> SUFFICES ASSUME LogInv, Bystanders, [Next]_vars,
                    NEW t \in Threads \ Writers
             PROVE  Bystander(t)'
  BY DEF Bystanders
<1>0. TypeInv /\ Ring /\ Bystander(t)
  BY DEF LogInv, Bystanders
<1>1. CASE Thread(t)
  <2>1. ~CommitUnlock(t) /\ ~ResetWriteSets(t) /\ ~SyncUnstamp(t)
    BY <1>0 DEF Bystander, Syncing, SyncLabels, CommitUnlock, ResetWriteSets, SyncUnstamp
  <2>2. UNCHANGED counterVars
    BY <1>0, <1>1, <2>1, RingSteps DEF TryLockCopy, ReleaseEnd
  <2>3. ~is_write_detected'[t] /\ ~Syncing(t)'
    BY <1>0, <1>1, <2>1, SyncSteps DEF Bystander
  <2>4. pc'[t] # "unlock_objs"
    BY <1>0, <1>1, RollBackSteps DEF Bystander
  <2> QED
    BY <1>0, <2>2, <2>3, <2>4 DEF Bystander
<1>2. ASSUME NEW u \in Threads \ {t}, Thread(u) PROVE Bystander(t)'
  BY <1>0, <1>2, Others DEF Same, Bystander, Syncing
<1>3. CASE UNCHANGED vars
  BY <1>0, <1>3 DEF Bystander, Syncing
<1> QED
  BY <1>1, <1>2, <1>3 DEF Next, Terminated

LEMMA BystandersInvariant == Spec => []Bystanders
BY BystandersInit, BystandersStay, LockInvariant, PTL DEF Spec

LEMMA SyncsOfOneWriter ==
    ASSUME NEW w, Writers \subseteq {w}
    PROVE  Bystanders => SyncsExclude
<1>1. \A p : p \in CriticalLabels => p \in SyncLabels
  BY DEF CriticalLabels, SyncLabels
<1> QED
  BY <1>1 DEF Bystanders, Bystander, Syncing, SyncsExclude

\* Every section sees one snapshot when at most one thread writes: whatever the
\* number of readers, objects and deferred write-sets.
THEOREM OneWriterSnapshot ==
    ASSUME NEW CONSTANT w, Writers \subseteq {w}
    PROVE  Spec /\ []VersionsBelowMax => []SnapshotConsistent
<1>1. Bystanders => SyncsExclude
  BY SyncsOfOneWriter
<1> QED
  BY <1>1, BystandersInvariant, SnapshotIfExclusive, PTL

\* A writer that synchronises has the writer lock, and nobody asks for more.
Serial(l) ==
    /\ \A t \in Threads : ~is_sync[t]
    /\ \A t \in Threads : Syncing(t) => ret[t] = "release_prev" /\ g_rlu_writer_locks[l] = t
    /\ \A t \in Writers : pc[t] # "finish2"
    /\ \A t \in Threads : pc[t] # "request"

\* A section that commits has the writer lock of an object it updates.
LEMMA CommitHolds ==
    ASSUME LogInv, CoarseInv, Coarse, NEW l, WriterLocks = {l},
           NEW t \in Threads, CommitUnlock(t)
    PROVE  g_rlu_writer_locks[l] = t
<1>0. TypeInv /\ Ring /\ pc[t] = "section" /\ is_write_detected[t] /\ ws_tail_counter[t] \in Nat
  BY CounterTypes DEF LogInv, CommitUnlock
<1> DEFINE n == ws_tail_counter[t]
<1>1. WriteSet(t, n) # <<>> /\ WriteSet(t, n) \in Seq(Entry)
  BY <1>0, LenTypes DEF Ring, DetectedOf
<1>2. 1 <= Len(WriteSet(t, n)) /\ ws_wb_counter[t] <= n
  BY <1>0, <1>1, CounterTypes DEF Ring, RingOf
<1>3. Live(t, n, 1)
  BY <1>0, <1>2 DEF Live, First, BackLabels, InSection
<1>4. /\ WriteSet(t, n)[1].obj \in Objs /\ CopyAt(t, n, 1) \in Addr
      /\ p_obj_copy[WriteSet(t, n)[1].obj] = CopyAt(t, n, 1)
  BY <1>0, <1>3, LiveEntry DEF LogInv, LockInv, Locking
<1>5. LockOf[WriteSet(t, n)[1].obj] = l
  BY <1>4, ObjectsAssumption
<1> QED
  BY <1>4, <1>5 DEF CoarseInv, Covered, CopyAt

LEMMA SerialStep ==
    ASSUME Coarse, NEW l, WriterLocks = {l}, Finishers \cap Writers = {},
           LogInv, CoarseInv, CoarseLockNeverFails, Bystanders, Bystanders', Serial(l),
           NEW u \in Threads, Thread(u)
    PROVE  Serial(l)'
<1>0. TypeInv /\ Ring /\ HoldsOf(u) /\ l \in WriterLocks
  BY DEF LogInv, CoarseInv
<1>1. ~SendSyncRequest(u) /\ \A o \in Objs : ~TryLockFail(u, o)
  BY DEF SendSyncRequest, Serial, TryLockFail, MayLock, CoarseLockNeverFails
<1>2. ASSUME NEW t \in Threads PROVE ~is_sync'[t]
  BY <1>0, <1>1, SyncSteps DEF Serial
<1>3. ASSUME NEW t \in Threads, Syncing(t)'
      PROVE  ret'[t] = "release_prev" /\ g_rlu_writer_locks'[l] = t
  <2>0. t \in Writers
    BY <1>3 DEF Bystanders, Bystander
  <2>1. ret'[t] = "release_prev" /\ g_rlu_writer_locks[l] = t /\ ~Releasing(t)
    <3>1. CASE t # u
      BY <1>0, <1>3, <3>1, Others DEF Same, Serial, Syncing, SyncLabels, Releasing
    <3>2. CASE t = u /\ Syncing(t)
      BY <1>0, <1>3, <3>2, SyncSteps DEF Serial, Syncing, SyncLabels, Releasing, CommitUnlock,
         ThreadFinish, ThreadFinish2
    <3>3. CASE t = u /\ ~Syncing(t)
      <4>1. ~is_sync[t] /\ ~ThreadFinish(t) /\ ~ThreadFinish2(t)
        BY <2>0 DEF Serial, ThreadFinish, ThreadFinish2
      <4>2. CommitUnlock(t) /\ ret'[t] = "release_prev"
        BY <1>0, <1>3, <3>3, <4>1, SyncSteps
      <4>3. g_rlu_writer_locks[l] = t
        BY <4>2, CommitHolds
      <4>4. ~Releasing(t)
        BY <4>2 DEF CommitUnlock, Releasing
      <4> QED
        BY <4>2, <4>3, <4>4
    <3> QED
      BY <3>1, <3>2, <3>3
  <2>2. g_rlu_writer_locks'[l] = g_rlu_writer_locks[l]
    <3>1. g_rlu_writer_locks[l] # NULL
      BY <2>1, AddressesAssumption
    <3>2. ASSUME NEW m \in WriterLocks, Releasing(u), g_rlu_writer_locks[m] = u PROVE FALSE
      BY <2>1, <3>2
    <3> QED
      BY <1>0, <3>1, <3>2, WriterLockSteps
  <2> QED
    BY <2>1, <2>2
<1>4. ASSUME NEW t \in Writers PROVE pc'[t] # "finish2"
  <2>0. t \in Threads
    BY ThreadsAssumption
  <2>1. CASE t # u
    BY <1>0, <1>4, <2>0, <2>1, Others DEF Same, Serial
  <2>2. CASE t = u
    BY <1>0, <1>4, <2>0, <2>2, SyncSteps DEF Serial, ThreadFinish
  <2> QED
    BY <2>1, <2>2
<1>5. ASSUME NEW t \in Threads PROVE pc'[t] # "request"
  <2>1. CASE t # u
    BY <1>0, <2>1, Others DEF Same, Serial
  <2>2. CASE t = u
    BY <1>0, <1>1, <2>2, SyncSteps
  <2> QED
    BY <2>1, <2>2
<1> QED
  BY <1>2, <1>3, <1>4, <1>5 DEF Serial

LEMMA SerialUnchanged ==
    ASSUME NEW l, Serial(l), UNCHANGED vars
    PROVE  Serial(l)'
BY DEF Serial, Syncing

LEMMA SerialInit ==
    ASSUME NEW l
    PROVE  Init => Serial(l)
BY ThreadsAssumption DEF Init, Serial, Syncing, SyncLabels

LEMMA SerialExcludes ==
    ASSUME NEW l
    PROVE  Serial(l) => SyncsExclude
<1>1. \A p : p \in CriticalLabels => p \in SyncLabels
  BY DEF CriticalLabels, SyncLabels
<1> QED
  BY <1>1 DEF Serial, Syncing, SyncsExclude

\* In the coarse type no two synchronisations overlap when there is one writer
\* lock: a commit synchronises under it, and nothing else asks to synchronise as
\* long as the writers do not call rlu_thread_finish.
THEOREM OneWriterLockSerialises ==
    ASSUME NEW CONSTANT l, Coarse, WriterLocks = {l}, Finishers \cap Writers = {}
    PROVE  Spec => []SyncsExclude
<1>1. /\ LogInv /\ CoarseInv /\ CoarseLockNeverFails /\ Bystanders /\ Bystanders' /\ Serial(l)
      /\ [Next]_vars
      => Serial(l)'
  BY SerialStep, SerialUnchanged DEF Next, Terminated
<1>2. Init => Serial(l)
  BY SerialInit
<1>3. Serial(l) => SyncsExclude
  BY SerialExcludes
<1> QED
  BY <1>1, <1>2, <1>3, LockInvariant, CoarseInvariant, LockNeverFails, BystandersInvariant, PTL
  DEF Spec

\* Every section sees one snapshot under a single writer lock, with any number of
\* writers and readers.
THEOREM OneLockSnapshot ==
    ASSUME NEW CONSTANT l, Coarse, WriterLocks = {l}, Finishers \cap Writers = {}
    PROVE  Spec /\ []VersionsBelowMax => []SnapshotConsistent
BY OneWriterLockSerialises, SnapshotIfExclusive, PTL

-----------------------------------------------------------------------------
(* C. Rlu implements RluSnapshot: the objects. *)

\* Copy k of write-set n of t is the live copy of o.
Holder(o, t, n, k) == Live(t, n, k) /\ WriteSet(t, n)[k].obj = o

\* What RluSnapshot sees of an object that has a live copy ...
LEMMA HolderSeen ==
    ASSUME LogInv, NEW o \in Objs, NEW t \in Threads, NEW n \in Nat, NEW k \in Nat,
           Holder(o, t, n, k)
    PROVE  /\ Published(o) = IF Publishing(t) THEN WriteSet(t, n)[k].val ELSE data[o]
           /\ \A w \in Threads : InOwn(w, o) <=> w = t /\ InSection(t) /\ n = ws_tail_counter[t]
           /\ \A w \in Threads : InDeferred(w, o) <=>
                 w = t /\ ~Publishing(t) /\ n # ws_tail_counter[t]
           /\ n = ws_tail_counter[t] => InSection(t) \/ pc[t] = "unlock_objs"
           /\ At(p_obj_copy[o]) = WriteSet(t, n)[k]
<1>0. TypeInv /\ Ring
  BY DEF LogInv
<1> DEFINE c == p_obj_copy[o]
<1>1. c = CopyAt(t, n, k) /\ c \in Addr /\ c # NULL
  BY <1>0, LiveEntry DEF Holder, LogInv, LockInv, Locking
<1>2. c.th = t /\ c.ws = WS_INDEX(n) /\ At(c) = WriteSet(t, n)[k] /\ Complete(c)
  BY <1>0, <1>1, LiveEntry DEF Holder, CopyAt, At, Complete, WriteSet
<1>3. c.ws = WsCurId(t) <=> n = ws_tail_counter[t]
  <2>1. /\ ws_wb_counter[t] <= n /\ n <= ws_tail_counter[t]
        /\ ws_wb_counter[t] <= ws_tail_counter[t] /\ ws_tail_counter[t] \in Nat
    BY <1>0, LiveEntry, CounterTypes DEF Holder, Ring, RingOf
  <2> QED
    BY <1>0, <1>2, <2>1, LiveSlots DEF WsCurId
<1>4. n = ws_tail_counter[t] => InSection(t) \/ pc[t] = "unlock_objs"
  BY DEF Holder, Live
<1>5. Published(o) = IF Publishing(t) THEN WriteSet(t, n)[k].val ELSE data[o]
  BY <1>1, <1>2 DEF Published
<1>6. ASSUME NEW w \in Threads
      PROVE  InOwn(w, o) <=> w = t /\ InSection(t) /\ n = ws_tail_counter[t]
  BY <1>1, <1>2, <1>3 DEF InOwn
<1>7. ASSUME NEW w \in Threads
      PROVE  InDeferred(w, o) <=> w = t /\ ~Publishing(t) /\ n # ws_tail_counter[t]
  BY <1>1, <1>2, <1>3, <1>4 DEF InDeferred
<1> QED
  BY <1>2, <1>4, <1>5, <1>6, <1>7

\* ... and of one that has none, although a copy may be being installed.
LEMMA NoHolder ==
    ASSUME LogInv, NEW o \in Objs,
           \A t \in Threads : \A n, k \in Nat : ~Holder(o, t, n, k)
    PROVE  /\ Published(o) = data[o]
           /\ \A w \in Threads : ~InOwn(w, o) /\ ~InDeferred(w, o)
<1>0. TypeInv /\ Ring
  BY DEF LogInv
<1> DEFINE c == p_obj_copy[o]
<1>1. CASE c = NULL
  BY <1>1 DEF Published, InOwn, InDeferred
<1>2. CASE c # NULL
  <2>1. c \in Addr /\ c.th \in Threads
    BY <1>0, <1>2, CopyTypes
  <2>2. Installing(c.th, o, c)
    BY <2>1 DEF Holder, LogInv, LockInv, Owned, OwnedBy
  <2>3. PICK tail \in Nat : tail = ws_tail_counter[c.th]
    BY <1>0, <2>1, CounterTypes
  <2>4. c = CopyAt(c.th, tail, Len(WriteSet(c.th, tail)) + 1)
    BY <1>0, <2>1, <2>2, <2>3, InstallsOwn DEF Installing
  <2>5. c.ws = WsCurId(c.th) /\ c.ix = Len(WriteSet(c.th, tail)) + 1
    BY <2>3, <2>4 DEF CopyAt, WsCurId
  <2>6. WriteSet(c.th, tail) \in Seq(Entry)
    BY <1>0, <2>1, LenTypes
  <2>7. c.ix \notin DOMAIN WriteSet(c.th, tail)
    BY <2>5, <2>6
  <2>8. ~Complete(c)
    BY <2>3, <2>5, <2>7 DEF Complete, WriteSet, WsCurId
  <2>9. InSection(c.th)
    BY <2>2 DEF Installing, InSection
  <2> QED
    BY <2>5, <2>8, <2>9 DEF Published, InOwn, InDeferred
<1> QED
  BY <1>1, <1>2

LEMMA HolderUnique ==
    ASSUME LogInv, NEW o \in Objs,
           NEW t1 \in Threads, NEW n1 \in Nat, NEW k1 \in Nat, Holder(o, t1, n1, k1),
           NEW t2 \in Threads, NEW n2 \in Nat, NEW k2 \in Nat, Holder(o, t2, n2, k2)
    PROVE  t1 = t2 /\ n1 = n2 /\ k1 = k2
BY LiveUnique DEF Holder

\* RluSnapshot sees no difference in o.
SameObj(o) ==
    /\ Published(o)' = Published(o)
    /\ Copies'[o] = Copies[o]
    /\ \A w \in Threads : /\ InOwn(w, o)' <=> InOwn(w, o)
                          /\ InDeferred(w, o)' <=> InDeferred(w, o)

LEMMA AbsSame ==
    ASSUME \A o \in Objs : SameObj(o)
    PROVE  UNCHANGED <<Store, OwnObjs, DeferredObjs, Copies>>
<1>1. Store' = Store
  BY DEF SameObj, Store
<1>2. OwnObjs' = OwnObjs /\ DeferredObjs' = DeferredObjs
  BY DEF SameObj, OwnObjs, DeferredObjs
<1>3. Copies' = Copies
  BY DEF SameObj, Copies
<1> QED
  BY <1>1, <1>2, <1>3

\* The live copies of the threads that do not step stay.
LEMMA OtherHolders ==
    ASSUME TypeInv, NEW u \in Threads, Thread(u), NEW w \in Threads \ {u},
           NEW o \in Objs, NEW n \in Nat, NEW k \in Nat
    PROVE  /\ Holder(o, w, n, k)' <=> Holder(o, w, n, k)
           /\ WriteSet(w, n)' = WriteSet(w, n) /\ ws_tail_counter'[w] = ws_tail_counter[w]
           /\ Publishing(w)' <=> Publishing(w)
           /\ InSection(w)' <=> InSection(w)
<1>1. Same(w)
  BY Others
<1>2. (Live(w, n, k)' <=> Live(w, n, k)) /\ WriteSet(w, n)' = WriteSet(w, n)
  BY <1>1, LiveSame
<1> QED
  BY <1>1, <1>2 DEF Holder, Same, Publishing, InSection

\* The same, of every object and as one formula, for the state after a step.
ObjFacts ==
    \A o \in Objs :
        /\ \A t \in Threads : \A n, k \in Nat : Holder(o, t, n, k) =>
              /\ Published(o) = IF Publishing(t) THEN WriteSet(t, n)[k].val ELSE data[o]
              /\ Copies[o] = IF \/ InSection(t) /\ n = ws_tail_counter[t]
                                \/ ~Publishing(t) /\ n # ws_tail_counter[t]
                             THEN WriteSet(t, n)[k].val ELSE {}
              /\ \A w \in Threads :
                    /\ InOwn(w, o) <=> w = t /\ InSection(t) /\ n = ws_tail_counter[t]
                    /\ InDeferred(w, o) <=>
                          w = t /\ ~Publishing(t) /\ n # ws_tail_counter[t]
        /\ (\A t \in Threads : \A n, k \in Nat : ~Holder(o, t, n, k)) =>
              /\ Published(o) = data[o] /\ Copies[o] = {}
              /\ \A w \in Threads : ~InOwn(w, o) /\ ~InDeferred(w, o)

LEMMA ObjFactsNow == LogInv => ObjFacts
<1> SUFFICES ASSUME LogInv, NEW o \in Objs
             PROVE  ObjFacts!(o)
  BY DEF ObjFacts
<1>1. ASSUME NEW t \in Threads, NEW n \in Nat, NEW k \in Nat, Holder(o, t, n, k)
      PROVE  /\ Published(o) = IF Publishing(t) THEN WriteSet(t, n)[k].val ELSE data[o]
             /\ Copies[o] = IF \/ InSection(t) /\ n = ws_tail_counter[t]
                               \/ ~Publishing(t) /\ n # ws_tail_counter[t]
                            THEN WriteSet(t, n)[k].val ELSE {}
             /\ \A w \in Threads :
                   /\ InOwn(w, o) <=> w = t /\ InSection(t) /\ n = ws_tail_counter[t]
                   /\ InDeferred(w, o) <=>
                         w = t /\ ~Publishing(t) /\ n # ws_tail_counter[t]
  <2>1. /\ Published(o) = IF Publishing(t) THEN WriteSet(t, n)[k].val ELSE data[o]
        /\ \A w \in Threads :
              /\ InOwn(w, o) <=> w = t /\ InSection(t) /\ n = ws_tail_counter[t]
              /\ InDeferred(w, o) <=> w = t /\ ~Publishing(t) /\ n # ws_tail_counter[t]
        /\ At(p_obj_copy[o]) = WriteSet(t, n)[k]
    BY <1>1, HolderSeen
  <2>2. (\E w \in Threads : InOwn(w, o) \/ InDeferred(w, o))
            <=> \/ InSection(t) /\ n = ws_tail_counter[t]
                \/ ~Publishing(t) /\ n # ws_tail_counter[t]
    BY <2>1
  <2>3. Copies[o] = IF \E w \in Threads : InOwn(w, o) \/ InDeferred(w, o)
                    THEN At(p_obj_copy[o]).val ELSE {}
    BY DEF Copies
  <2>4. At(p_obj_copy[o]) = WriteSet(t, n)[k]
    BY <2>1
  <2>5. At(p_obj_copy[o]).val = WriteSet(t, n)[k].val
    BY <2>4
  <2>6. Copies[o] = IF \/ InSection(t) /\ n = ws_tail_counter[t]
                       \/ ~Publishing(t) /\ n # ws_tail_counter[t]
                    THEN WriteSet(t, n)[k].val ELSE {}
    BY <2>2, <2>3, <2>5
  <2> QED
    BY <2>1, <2>6
<1>2. ASSUME \A t \in Threads : \A n, k \in Nat : ~Holder(o, t, n, k)
      PROVE  /\ Published(o) = data[o] /\ Copies[o] = {}
             /\ \A w \in Threads : ~InOwn(w, o) /\ ~InDeferred(w, o)
  <2>1. Published(o) = data[o] /\ \A w \in Threads : ~InOwn(w, o) /\ ~InDeferred(w, o)
    BY <1>2, NoHolder
  <2> QED
    BY <2>1 DEF Copies
<1> QED
  BY <1>1, <1>2

LEMMA ObjFactsNext == LogInv' => ObjFacts'
BY ObjFactsNow, PTL

\* The live copy of o stays, and so does what its thread is doing with it.
LEMMA ObjSame ==
    ASSUME LogInv, LogInv', NEW o \in Objs,
           \A t \in Threads : \A n, k \in Nat :
               /\ Holder(o, t, n, k)' <=> Holder(o, t, n, k)
               /\ Holder(o, t, n, k) =>
                     /\ WriteSet(t, n)'[k] = WriteSet(t, n)[k]
                     /\ ws_tail_counter'[t] = ws_tail_counter[t]
                     /\ Publishing(t)' <=> Publishing(t)
                     /\ n = ws_tail_counter[t] => (InSection(t)' <=> InSection(t))
                     /\ Publishing(t) \/ data'[o] = data[o],
           data'[o] = data[o] \/ \E t \in Threads : \E n, k \in Nat : Holder(o, t, n, k)
    PROVE  SameObj(o)
<1>1. CASE \A t \in Threads : \A n, k \in Nat : ~Holder(o, t, n, k)
  <2>1. \A t \in Threads : \A n, k \in Nat : ~Holder(o, t, n, k)'
    BY <1>1
  <2>2. Published(o) = data[o] /\ Copies[o] = {} /\
        \A w \in Threads : ~InOwn(w, o) /\ ~InDeferred(w, o)
    BY <1>1, ObjFactsNow DEF ObjFacts
  <2>3. Published(o)' = data'[o] /\ Copies'[o] = {} /\
        \A w \in Threads : ~InOwn(w, o)' /\ ~InDeferred(w, o)'
    BY <2>1, ObjFactsNext DEF ObjFacts
  <2>4. data'[o] = data[o]
    BY <1>1
  <2> QED
    BY <2>2, <2>3, <2>4 DEF SameObj
<1>2. ASSUME NEW t \in Threads, NEW n \in Nat, NEW k \in Nat, Holder(o, t, n, k)
      PROVE  SameObj(o)
  <2>1. Holder(o, t, n, k)'
    BY <1>2
  <2>3. Published(o)' = Published(o)
    BY <1>2, <2>1, ObjFactsNow, ObjFactsNext DEF ObjFacts
  <2>4. Copies'[o] = Copies[o]
    BY <1>2, <2>1, ObjFactsNow, ObjFactsNext DEF ObjFacts
  <2>5. ASSUME NEW w \in Threads
        PROVE  (InOwn(w, o)' <=> InOwn(w, o)) /\ (InDeferred(w, o)' <=> InDeferred(w, o))
    BY <1>2, <2>1, ObjFactsNow, ObjFactsNext DEF ObjFacts
  <2> QED
    BY <2>3, <2>4, <2>5 DEF SameObj
<1> QED
  BY <1>1, <1>2

\* The live copies of the thread that steps stay, and so does its part in them.
LEMMA ObjKept ==
    ASSUME LogInv, LogInv', NEW u \in Threads, Thread(u), Keeps(u), NEW o \in Objs,
           data'[o] = data[o] \/ \E n, k \in Nat : Holder(o, u, n, k) /\ Publishing(u),
           \A n, k \in Nat : Holder(o, u, n, k) =>
               /\ Publishing(u)' <=> Publishing(u)
               /\ ws_tail_counter'[u] = ws_tail_counter[u]
               /\ n = ws_tail_counter[u] => (InSection(u)' <=> InSection(u))
    PROVE  SameObj(o)
<1>0. TypeInv
  BY DEF LogInv
<1>1. ASSUME NEW t \in Threads, NEW n \in Nat, NEW k \in Nat
      PROVE  /\ Holder(o, t, n, k)' <=> Holder(o, t, n, k)
             /\ Holder(o, t, n, k) =>
                   /\ WriteSet(t, n)'[k] = WriteSet(t, n)[k]
                   /\ ws_tail_counter'[t] = ws_tail_counter[t]
                   /\ Publishing(t)' <=> Publishing(t)
                   /\ n = ws_tail_counter[t] => (InSection(t)' <=> InSection(t))
                   /\ Publishing(t) \/ data'[o] = data[o]
  <2>1. Holder(o, t, n, k) => Publishing(t) \/ data'[o] = data[o]
    BY HolderUnique
  <2>2. CASE t = u
    BY <2>1, <2>2 DEF Holder, Keeps
  <2>3. CASE t # u
    BY <1>0, <2>1, <2>3, OtherHolders
  <2> QED
    BY <2>2, <2>3
<1>2. data'[o] = data[o] \/ \E t \in Threads : \E n, k \in Nat : Holder(o, t, n, k)
  OBVIOUS
<1> QED
  BY <1>1, <1>2, ObjSame

\* The thread that steps unlocks one object that RluSnapshot does not see as locked.
LEMMA ObjDropped ==
    ASSUME LogInv, LogInv', NEW u \in Threads, Thread(u), NEW n0 \in Nat, NEW k0 \in Nat,
           Drops(u, n0, k0), UNCHANGED data, ~InSection(u), ~InSection(u)',
           Publishing(u)' <=> Publishing(u), ws_tail_counter'[u] = ws_tail_counter[u],
           \/ ~Publishing(u) /\ n0 = ws_tail_counter[u]
           \/ Publishing(u) /\ data[WriteSet(u, n0)[k0].obj] = WriteSet(u, n0)[k0].val,
           NEW o \in Objs
    PROVE  SameObj(o)
<1>0. TypeInv
  BY DEF LogInv
<1>1. \A n : WriteSet(u, n)' = WriteSet(u, n)
  BY DEF Drops, WriteSet
<1>2. \A n, k \in Nat : Holder(o, u, n, k)' <=> Holder(o, u, n, k) /\ ~(n = n0 /\ k = k0)
  BY <1>1 DEF Holder, Drops, Dropped
<1>3. CASE ~Holder(o, u, n0, k0)
  <2>1. ASSUME NEW t \in Threads, NEW n \in Nat, NEW k \in Nat
        PROVE  /\ Holder(o, t, n, k)' <=> Holder(o, t, n, k)
               /\ WriteSet(t, n)' = WriteSet(t, n)
               /\ ws_tail_counter'[t] = ws_tail_counter[t]
               /\ Publishing(t)' <=> Publishing(t)
               /\ InSection(t)' <=> InSection(t)
    <3>1. CASE t = u
      BY <1>1, <1>2, <1>3, <3>1
    <3>2. CASE t # u
      BY <1>0, <3>2, OtherHolders
    <3> QED
      BY <3>1, <3>2
  <2> QED
    BY <2>1, ObjSame
<1>4. CASE Holder(o, u, n0, k0)
  <2>1. ASSUME NEW t \in Threads, NEW n \in Nat, NEW k \in Nat PROVE ~Holder(o, t, n, k)'
    <3>1. CASE t = u
      BY <1>2, <1>4, <3>1, HolderUnique
    <3>2. CASE t # u
      BY <1>0, <1>4, <3>2, OtherHolders, HolderUnique
    <3> QED
      BY <3>1, <3>2
  <2>2. /\ Published(o)' = data'[o] /\ Copies'[o] = {}
        /\ \A w \in Threads : ~InOwn(w, o)' /\ ~InDeferred(w, o)'
    BY <2>1, ObjFactsNext DEF ObjFacts
  <2>3. /\ Published(o) = data[o] /\ Copies[o] = {}
        /\ \A w \in Threads : ~InOwn(w, o) /\ ~InDeferred(w, o)
    <3>1. WriteSet(u, n0)[k0].obj = o
      BY <1>4 DEF Holder
    <3>2. Publishing(u) => n0 # ws_tail_counter[u]
      BY <1>4 DEF Holder, Live, Publishing
    <3> QED
      BY <1>4, <3>1, <3>2, ObjFactsNow DEF ObjFacts
  <2> QED
    BY <2>2, <2>3 DEF SameObj
<1> QED
  BY <1>3, <1>4

-----------------------------------------------------------------------------
(* Which steps RluSnapshot sees. *)

LEMMA LeaveSteps ==
    ASSUME TypeInv, NEW t \in Threads, Thread(t), InSection(t), ~InSection(t)'
    PROVE  ReaderUnlock(t) \/ CommitUnlock(t) \/ Abort(t)
<1> USE VersionTypes DEF InSection, Goto
<1>1. CASE ThreadInit(t) \/ ThreadPublish(t) \/ SyncCheckpoint(t)
  BY <1>1 DEF ThreadInit, ThreadPublish, SyncCheckpoint
<1>2. CASE ThreadFinish(t) \/ ThreadFinish2(t)
  BY <1>2 DEF ThreadFinish, ThreadFinish2
<1>3. CASE Begin(t)
  BY <1>3 DEF Begin, ReaderLock, Register, ReadVersion, ReadCommitVersion
<1>4. CASE Steal(t) \/ TryLockCas(t) \/ TryLockCopy(t) \/ SendSyncRequest(t)
  BY <1>4 DEF Steal, TryLockCas, TryLockCopy, SendSyncRequest
<1>5. CASE \E o \in Objs : Deref(t, o) \/ DerefLocked(t, o)
  BY <1>5 DEF Deref, DerefLocked
<1>6. CASE \E o \in Objs : TryLock(t, o) \/ TryLockOwn(t, o) \/ TryLockFail(t, o)
  BY <1>6 DEF TryLock, TryLockOwn, TryLockFail, MayLock
<1>7. CASE \E l \in WriterLocks : TryWriterLock(t, l)
  BY <1>7 DEF TryWriterLock
<1>8. CASE UnlockObjs(t) \/ ReleaseWriterLock(t) \/ ReleaseEnd(t)
  BY <1>8 DEF UnlockObjs, ReleaseWriterLock, ReleaseEnd, Releasing
<1>9. CASE Sync(t)
  BY <1>9 DEF Sync, SyncLoad, SyncStore, SyncBump, Scan, ScanEnd, Wait,
     ResetWriteSets, Writeback, Unlock, SyncUnstamp, SyncCommit, SyncEnd
<1> QED
  BY <1>1, <1>2, <1>3, <1>4, <1>5, <1>6, <1>7, <1>8, <1>9 DEF Thread, Access, End

LEMMA RoleSteps ==
    ASSUME TypeInv, NEW t \in Threads, Thread(t)
    PROVE  /\ (Publishing(t)' <=> Publishing(t)) \/ SyncBump(t) \/ SyncUnstamp(t)
           /\ \/ InSection(t)' <=> InSection(t)
              \/ ReadVersion(t) \/ ReaderUnlock(t) \/ CommitUnlock(t) \/ Abort(t)
           /\ ws_tail_counter'[t] = ws_tail_counter[t] \/ CommitUnlock(t)
<1>1. (Publishing(t)' <=> Publishing(t)) \/ SyncBump(t) \/ SyncUnstamp(t)
  <2> USE VersionTypes DEF Publishing, CriticalLabels, Goto
  <2>1. CASE SyncLoad(t) \/ SyncStore(t) \/ SyncCommit(t)
    BY <2>1 DEF SyncLoad, SyncStore, SyncCommit
  <2> QED
    BY <2>1, VersionSteps
<1>2. \/ InSection(t)' <=> InSection(t)
      \/ ReadVersion(t) \/ ReaderUnlock(t) \/ CommitUnlock(t) \/ Abort(t)
  BY LeaveSteps, SectionSteps
<1>3. ws_tail_counter'[t] = ws_tail_counter[t] \/ CommitUnlock(t)
  BY RingSteps DEF TryLockCopy, ReleaseEnd, ResetWriteSets, SyncUnstamp
<1> QED
  BY <1>1, <1>2, <1>3

\* The section of t has no copies of its own when it starts, or detected no write.
LEMMA OpenEmpty ==
    ASSUME LogInv, NEW t \in Threads, ReadVersion(t) \/ ReaderUnlock(t),
           NEW o \in Objs, NEW n \in Nat, NEW k \in Nat, Holder(o, t, n, k)
    PROVE  n # ws_tail_counter[t]
<1>1. CASE ReadVersion(t)
  BY <1>1 DEF ReadVersion, Holder, Live, InSection
<1>2. CASE ReaderUnlock(t)
  <2>1. WriteSet(t, ws_tail_counter[t]) = <<>>
    BY <1>2 DEF ReaderUnlock, LogInv, Ring, DetectedOf, InSection
  <2> QED
    BY <2>1 DEF Holder, Live
<1> QED
  BY <1>1, <1>2

\* Nothing is left to write back when a writer withdraws its version.
LEMMA UnstampEmpty ==
    ASSUME LogInv, NEW t \in Threads, SyncUnstamp(t),
           NEW o \in Objs, NEW n \in Nat, NEW k \in Nat
    PROVE  ~Holder(o, t, n, k)
<1> SUFFICES ASSUME Live(t, n, k) PROVE FALSE
  BY DEF Holder
<1>1. pc[t] = "writeback" /\ ws_counter[t] = ws_tail_counter[t]
  BY DEF SyncUnstamp
<1>2. ws_tail_counter[t] <= n /\ n <= ws_tail_counter[t] /\ n # ws_tail_counter[t]
  BY <1>1 DEF Live, First, BackLabels, InSection
<1> QED
  BY <1>2, CounterTypes DEF LogInv

LEMMA CasKeeps ==
    ASSUME LogInv, NEW t \in Threads, TryLockCas(t)
    PROVE  Keeps(t)
<1>0. TypeInv /\ pc[t] = "cas" /\ pc'[t] \in {"copy", "failed"}
  BY CounterTypes DEF LogInv, TryLockCas, Goto
<1>1. \A n, k \in Nat : Live(t, n, k)' <=> Live(t, n, k)
  BY <1>0, LiveQuiet DEF TryLockCas, BackLabels, InSection
<1> QED
  BY <1>1 DEF Keeps, TryLockCas, WriteSet

\* Most steps do nothing that RluSnapshot sees of the objects.
LEMMA ObjsQuiet ==
    ASSUME ValueInv, LogInv', NEW u \in Threads, Thread(u),
           ~CommitUnlock(u), ~Abort(u), ~SyncBump(u), ~TryLockCopy(u), NEW o \in Objs
    PROVE  SameObj(o)
<1>0. LogInv /\ TypeInv /\ Ring
  BY DEF ValueInv, LogInv
<1>1. CASE Keeps(u)
  <2>1. data'[o] = data[o] \/ \E n, k \in Nat : Holder(o, u, n, k) /\ Publishing(u)
    <3>1. CASE Writeback(u)
      <4>1. PICK b \in Objs, c \in Addr :
                /\ p_obj_copy[b] = c /\ c.th = u /\ pc[u] \in BackLabels
                /\ data' = [data EXCEPT ![b] = At(c).val]
        BY <3>1, BackSteps
      <4>2. \E n, k \in Nat : Holder(b, u, n, k)
        BY <1>0, <4>1, HeaderLive DEF Holder, BackLabels
      <4>3. Publishing(u) /\ data \in [Objs -> Value]
        BY <1>0, <4>1, FlagTypes DEF Publishing, BackLabels
      <4> QED
        BY <4>1, <4>2, <4>3
    <3> QED
      BY <1>0, <3>1, DataSteps
  <2>2. ASSUME NEW n \in Nat, NEW k \in Nat, Holder(o, u, n, k)
        PROVE  /\ Publishing(u)' <=> Publishing(u)
               /\ ws_tail_counter'[u] = ws_tail_counter[u]
               /\ n = ws_tail_counter[u] => (InSection(u)' <=> InSection(u))
    BY <1>0, <2>2, RoleSteps, OpenEmpty, UnstampEmpty
  <2> QED
    BY <1>0, <1>1, <2>1, <2>2, ObjKept
<1>2. CASE UnlockObjs(u) /\ ~Keeps(u)
  <2>1. PICK tail \in Nat, k \in Nat : tail = ws_tail_counter[u] /\ Drops(u, tail, k)
    BY <1>0, <1>2, UnlockObjsDrops, CounterTypes
  <2>2. /\ UNCHANGED <<data, ws_tail_counter>> /\ pc[u] = "unlock_objs"
        /\ pc'[u] \in {"unlock_objs", "release_cur"}
    BY <1>0, <1>2, CounterTypes DEF UnlockObjs, Goto
  <2>3. ~InSection(u) /\ ~InSection(u)' /\ ~Publishing(u) /\ ~Publishing(u)'
    BY <2>2 DEF InSection, Publishing
  <2> QED
    BY <1>0, <2>1, <2>2, <2>3, ObjDropped
<1>3. CASE Unlock(u)
  <2>1. PICK m \in Nat, k \in Nat : m = ws_counter[u] /\ k = i[u] + 1
    BY <1>0, CounterTypes
  <2>2. Drops(u, m, k)
    BY <1>0, <1>3, <2>1, UnlockDrops
  <2>3. /\ UNCHANGED <<data, ws_tail_counter>> /\ pc[u] = "unlock" /\ pc'[u] = "writeback"
    BY <1>0, <1>3, CounterTypes DEF Unlock, Goto
  <2>4. ~InSection(u) /\ ~InSection(u)' /\ Publishing(u) /\ Publishing(u)'
    BY <2>3 DEF InSection, Publishing
  <2>5. data[WriteSet(u, m)[k].obj] = WriteSet(u, m)[k].val
    BY <2>1, <2>2, <2>3 DEF ValueInv, Values, Kept, Drops
  <2> QED
    BY <1>0, <2>2, <2>3, <2>4, <2>5, ObjDropped
<1> QED
  BY <1>0, <1>1, <1>2, <1>3, LogSteps, CasKeeps

-----------------------------------------------------------------------------
(* The sections. *)

\* What the section of t has got of objects that it has not locked.
Foreign(t) == {q \in refs[t] : ~(q[2] \in Addr /\ q[2].th = t)}

SeenFacts ==
    \A t \in Threads : Seen[t] = {<<r[1], snap[t][r[1]]>> : r \in Foreign(t)}

LEMMA SeenFactsNow == TypeInv /\ Held => SeenFacts
<1> SUFFICES ASSUME TypeInv, Held, NEW t \in Threads
             PROVE  Seen[t] = {<<r[1], snap[t][r[1]]>> : r \in Foreign(t)}
  BY DEF SeenFacts
<1>1. Seen[t] = {<<r[1], Contents(r[2])>> : r \in Foreign(t)}
  BY DEF Seen, Foreign
<1>2. ASSUME NEW r \in Foreign(t) PROVE Contents(r[2]) = snap[t][r[1]]
  <2>1. PICK o \in Objs, p \in Ptr : r = <<o, p>>
    BY VersionTypes DEF Foreign
  <2>2. <<o, p>> \in refs[t] /\ ~(p \in Addr /\ p.th = t)
    BY <2>1 DEF Foreign
  <2>3. Right(t, o, p)
    BY <2>2 DEF Held
  <2>4. Contents(p) = snap[t][o]
    BY <2>2, <2>3, AddressesAssumption DEF Right, Contents, Ptr
  <2> QED
    BY <2>1, <2>4
<1> QED
  BY <1>1, <1>2

LEMMA SeenFactsNext == TypeInv' /\ Held' => SeenFacts'
BY SeenFactsNow, PTL

\* The other threads' sections go on, and see the same.
LEMMA ViewOther ==
    ASSUME TypeInv, SeenFacts, SeenFacts', NEW u \in Threads, Thread(u),
           NEW w \in Threads \ {u}
    PROVE  View'[w] = View[w] /\ Seen'[w] = Seen[w]
<1>1. snap'[w] = snap[w] /\ refs'[w] = refs[w] /\ (InSection(w)' <=> InSection(w))
  BY Others, OtherFlags DEF Same, InSection
<1>2. Foreign(w)' = Foreign(w)
  BY <1>1 DEF Foreign
<1>3. Seen[w] = {<<r[1], snap[w][r[1]]>> : r \in Foreign(w)}
  BY DEF SeenFacts
<1>4. Seen'[w] = {<<r[1], snap'[w][r[1]]>> : r \in Foreign(w)'}
  BY DEF SeenFacts
<1>5. Seen'[w] = Seen[w]
  BY <1>1, <1>2, <1>3, <1>4
<1>6. View'[w] = View[w]
  BY <1>1 DEF View
<1> QED
  BY <1>5, <1>6

\* What changes of the sections is the view of the thread that steps.
LEMMA ViewStep ==
    ASSUME TypeInv, SeenFacts, SeenFacts', NEW u \in Threads, Thread(u)
    PROVE  /\ View' = [View EXCEPT ![u] = IF InSection(u)' THEN snap'[u] ELSE NULL]
           /\ Seen' = [Seen EXCEPT ![u] = Seen'[u]]
<1>1. \A w \in Threads \ {u} : View'[w] = View[w] /\ Seen'[w] = Seen[w]
  BY ViewOther
<1>2. View'[u] = IF InSection(u)' THEN snap'[u] ELSE NULL
  BY DEF View
<1>3. /\ View = [t \in Threads |-> View[t]] /\ View' = [t \in Threads |-> View'[t]]
      /\ Seen = [t \in Threads |-> Seen[t]] /\ Seen' = [t \in Threads |-> Seen'[t]]
  BY DEF View, Seen
<1> QED
  BY <1>1, <1>2, <1>3

\* What a commit, an abort and a synchronisation do to one object.
LEMMA NotHeld ==
    ASSUME LogInv, NEW u \in Threads, NEW o \in Objs, \A n, k \in Nat : ~Holder(o, u, n, k)
    PROVE  ~InOwn(u, o) /\ ~InDeferred(u, o)
<1>1. CASE \A t \in Threads : \A n, k \in Nat : ~Holder(o, t, n, k)
  BY <1>1, ObjFactsNow DEF ObjFacts
<1>2. ASSUME NEW t \in Threads, NEW n \in Nat, NEW k \in Nat, Holder(o, t, n, k)
      PROVE  ~InOwn(u, o) /\ ~InDeferred(u, o)
  BY <1>2, ObjFactsNow DEF ObjFacts
<1> QED
  BY <1>1, <1>2

LEMMA ObjCommitted ==
    ASSUME LogInv, LogInv', NEW u \in Threads, CommitUnlock(u), NEW o \in Objs
    PROVE  /\ Published(o)' = Published(o) /\ Copies'[o] = Copies[o]
           /\ \A w \in Threads :
                 /\ InOwn(w, o)' <=> InOwn(w, o) /\ w # u
                 /\ InDeferred(w, o)' <=> InDeferred(w, o) \/ (w = u /\ InOwn(u, o))
<1>0. TypeInv /\ Ring /\ Thread(u) /\ Keeps(u) /\ data' = data
  BY BoundaryKeeps DEF LogInv, Thread, End, CommitUnlock
<1>1. PICK tail \in Nat : tail = ws_tail_counter[u]
  BY <1>0, CounterTypes
<1>2. /\ pc[u] = "section" /\ pc'[u] \in {"release_prev", "load"}
      /\ ws_tail_counter'[u] = tail + 1
  BY <1>0, <1>1, CounterTypes DEF CommitUnlock, SyncCall, Goto
<1>3. InSection(u) /\ ~InSection(u)' /\ ~Publishing(u) /\ ~Publishing(u)'
  BY <1>2 DEF InSection, Publishing
<1>4. CASE \A n, k \in Nat : ~Holder(o, u, n, k)
  <2>1. SameObj(o)
    BY <1>0, <1>4, ObjKept
  <2> QED
    BY <1>4, <2>1, NotHeld DEF SameObj
<1>5. ASSUME NEW n \in Nat, NEW k \in Nat, Holder(o, u, n, k)
      PROVE  /\ Published(o)' = Published(o) /\ Copies'[o] = Copies[o]
             /\ \A w \in Threads :
                   /\ InOwn(w, o)' <=> InOwn(w, o) /\ w # u
                   /\ InDeferred(w, o)' <=> InDeferred(w, o) \/ (w = u /\ InOwn(u, o))
  <2>1. Holder(o, u, n, k)' /\ WriteSet(u, n)'[k] = WriteSet(u, n)[k]
    BY <1>0, <1>5 DEF Keeps, Holder
  <2>2. n <= tail /\ n # tail + 1
    BY <1>1, <1>5 DEF Holder, Live
  <2>3. /\ Published(o) = data[o] /\ Published(o)' = data'[o]
        /\ Copies[o] = WriteSet(u, n)[k].val /\ Copies'[o] = WriteSet(u, n)'[k].val
    BY <1>1, <1>2, <1>3, <1>5, <2>1, <2>2, ObjFactsNow, ObjFactsNext DEF ObjFacts
  <2>4. ASSUME NEW w \in Threads
        PROVE  /\ InOwn(w, o)' <=> InOwn(w, o) /\ w # u
               /\ InDeferred(w, o)' <=> InDeferred(w, o) \/ (w = u /\ InOwn(u, o))
    BY <1>1, <1>2, <1>3, <1>5, <2>1, <2>2, ObjFactsNow, ObjFactsNext DEF ObjFacts
  <2> QED
    BY <1>0, <2>1, <2>3, <2>4
<1> QED
  BY <1>4, <1>5

LEMMA ObjAborted ==
    ASSUME LogInv, LogInv', NEW u \in Threads, Abort(u), NEW o \in Objs
    PROVE  /\ Published(o)' = Published(o)
           /\ Copies'[o] = IF InOwn(u, o) THEN {} ELSE Copies[o]
           /\ \A w \in Threads : /\ InOwn(w, o)' <=> InOwn(w, o) /\ w # u
                                 /\ InDeferred(w, o)' <=> InDeferred(w, o)
<1>0. /\ TypeInv /\ Ring /\ Thread(u) /\ Keeps(u)
      /\ data' = data /\ ws_tail_counter' = ws_tail_counter
  BY BoundaryKeeps DEF LogInv, Thread, End, Abort
<1>2. pc[u] = "failed" /\ pc'[u] \in {"unlock_objs", "release_cur"}
  BY <1>0, CounterTypes DEF Abort, Goto
<1>3. InSection(u) /\ ~InSection(u)' /\ ~Publishing(u) /\ ~Publishing(u)'
  BY <1>2 DEF InSection, Publishing
<1>4. CASE \A n, k \in Nat : ~Holder(o, u, n, k)
  <2>1. SameObj(o)
    BY <1>0, <1>4, ObjKept
  <2> QED
    BY <1>4, <2>1, NotHeld DEF SameObj
<1>5. ASSUME NEW n \in Nat, NEW k \in Nat, Holder(o, u, n, k)
      PROVE  /\ Published(o)' = Published(o)
             /\ Copies'[o] = IF InOwn(u, o) THEN {} ELSE Copies[o]
             /\ \A w \in Threads : /\ InOwn(w, o)' <=> InOwn(w, o) /\ w # u
                                   /\ InDeferred(w, o)' <=> InDeferred(w, o)
  <2>1. Holder(o, u, n, k)' /\ WriteSet(u, n)'[k] = WriteSet(u, n)[k]
    BY <1>0, <1>5 DEF Keeps, Holder
  <2>2. Published(o) = data[o] /\ Published(o)' = data'[o]
    BY <1>3, <1>5, <2>1, ObjFactsNow, ObjFactsNext DEF ObjFacts
  <2>3. /\ InOwn(u, o) <=> n = ws_tail_counter[u]
        /\ Copies[o] = WriteSet(u, n)[k].val
        /\ Copies'[o] = IF n # ws_tail_counter'[u] THEN WriteSet(u, n)'[k].val ELSE {}
    BY <1>3, <1>5, <2>1, ObjFactsNow, ObjFactsNext DEF ObjFacts
  <2>4. ASSUME NEW w \in Threads
        PROVE  /\ InOwn(w, o)' <=> InOwn(w, o) /\ w # u
               /\ InDeferred(w, o)' <=> InDeferred(w, o)
    BY <1>0, <1>3, <1>5, <2>1, ObjFactsNow, ObjFactsNext DEF ObjFacts
  <2> QED
    BY <1>0, <2>1, <2>2, <2>3, <2>4
<1> QED
  BY <1>4, <1>5

LEMMA ObjPublished ==
    ASSUME LogInv, LogInv', NEW u \in Threads, SyncBump(u), NEW o \in Objs
    PROVE  /\ Published(o)' = IF InDeferred(u, o) THEN Copies[o] ELSE Published(o)
           /\ Copies'[o] = IF InDeferred(u, o) THEN {} ELSE Copies[o]
           /\ \A w \in Threads : /\ InOwn(w, o)' <=> InOwn(w, o)
                                 /\ InDeferred(w, o)' <=> InDeferred(w, o) /\ w # u
<1>0. /\ TypeInv /\ Ring /\ Thread(u) /\ data' = data /\ ws_tail_counter' = ws_tail_counter
  BY DEF LogInv, Thread, Sync, SyncBump
<1>1. pc[u] = "bump" /\ pc'[u] = "scan"
  BY <1>0, CounterTypes DEF SyncBump, Goto
<1>2. Keeps(u)
  BY <1>0, <1>1, LogSteps DEF TryLockCas, TryLockCopy, UnlockObjs, Unlock
<1>3. ~InSection(u) /\ ~InSection(u)' /\ ~Publishing(u) /\ Publishing(u)'
  BY <1>1 DEF InSection, Publishing
<1>4. CASE \A n, k \in Nat : ~Holder(o, u, n, k)
  <2>1. SameObj(o)
    BY <1>0, <1>2, <1>4, ObjKept
  <2> QED
    BY <1>4, <2>1, NotHeld DEF SameObj
<1>5. ASSUME NEW n \in Nat, NEW k \in Nat, Holder(o, u, n, k)
      PROVE  /\ Published(o)' = IF InDeferred(u, o) THEN Copies[o] ELSE Published(o)
             /\ Copies'[o] = IF InDeferred(u, o) THEN {} ELSE Copies[o]
             /\ \A w \in Threads : /\ InOwn(w, o)' <=> InOwn(w, o)
                                   /\ InDeferred(w, o)' <=> InDeferred(w, o) /\ w # u
  <2>1. Holder(o, u, n, k)' /\ WriteSet(u, n)'[k] = WriteSet(u, n)[k]
    BY <1>2, <1>5 DEF Keeps, Holder
  <2>2. n # ws_tail_counter[u]
    BY <1>1, <1>5 DEF Holder, Live, InSection
  <2>3. InDeferred(u, o) /\ Copies[o] = WriteSet(u, n)[k].val
    BY <1>3, <1>5, <2>2, ObjFactsNow DEF ObjFacts
  <2>4. Published(o)' = WriteSet(u, n)'[k].val /\ Copies'[o] = {}
    BY <1>3, <2>1, ObjFactsNext DEF ObjFacts
  <2>5. ASSUME NEW w \in Threads
        PROVE  /\ InOwn(w, o)' <=> InOwn(w, o)
               /\ InDeferred(w, o)' <=> InDeferred(w, o) /\ w # u
    BY <1>0, <1>3, <1>5, <2>1, <2>2, ObjFactsNow, ObjFactsNext DEF ObjFacts
  <2> QED
    BY <2>1, <2>3, <2>4, <2>5
<1> QED
  BY <1>4, <1>5

\* The object that a section has locked is in its write-set from now on.
LEMMA ObjWritten ==
    ASSUME LogInv, LogInv', NEW u \in Threads, TryLockCopy(u),
           NEW b \in Objs, b = cur_obj[u], NEW o \in Objs
    PROVE  /\ o # b => SameObj(o)
           /\ o = b =>
                 /\ Published(o) = data[o] /\ Published(o)' = data[o]
                 /\ Copies'[o] = data[o] \cup {<<u, n_starts[u]>>}
                 /\ \A w \in Threads :
                       /\ ~InOwn(w, o) /\ ~InDeferred(w, o)
                       /\ InOwn(w, o)' <=> w = u
                       /\ ~InDeferred(w, o)'
<1>0. /\ TypeInv /\ Ring /\ Thread(u) /\ data' = data /\ ws_tail_counter' = ws_tail_counter
  BY DEF LogInv, Thread, Access, TryLockCopy
<1>1. PICK tail \in Nat : tail = ws_tail_counter[u]
  BY <1>0, CounterTypes
<1>2. PICK last \in Nat : last = Len(WriteSet(u, tail)) + 1
  BY <1>0, <1>1, LenTypes
<1>3. pc[u] = "copy" /\ pc'[u] = "section"
  BY <1>0, CounterTypes DEF TryLockCopy, Goto
<1>4. /\ Live(u, tail, last)' /\ WriteSet(u, tail)'[last] = NewEntry(u)
      /\ \A n, k \in Nat :
            /\ Live(u, n, k)' <=> Live(u, n, k) \/ (n = tail /\ k = last)
            /\ Live(u, n, k) => WriteSet(u, n)'[k] = WriteSet(u, n)[k]
  BY <1>0, <1>1, <1>2, LiveCopied
<1>5. NewEntry(u).obj = b /\ NewEntry(u).val = data[b] \cup {<<u, n_starts[u]>>}
  BY DEF NewEntry
<1>6. InSection(u) /\ InSection(u)' /\ ~Publishing(u) /\ ~Publishing(u)'
  BY <1>3 DEF InSection, Publishing
<1>7. \A t \in Threads : \A n, k \in Nat : ~Holder(b, t, n, k)
  BY <1>3, LiveNotCopying DEF Holder
<1>8. CASE o # b
  <2>1. ASSUME NEW t \in Threads, NEW n \in Nat, NEW k \in Nat
        PROVE  /\ Holder(o, t, n, k)' <=> Holder(o, t, n, k)
               /\ Holder(o, t, n, k) =>
                     /\ WriteSet(t, n)'[k] = WriteSet(t, n)[k]
                     /\ ws_tail_counter'[t] = ws_tail_counter[t]
                     /\ Publishing(t)' <=> Publishing(t)
                     /\ n = ws_tail_counter[t] => (InSection(t)' <=> InSection(t))
                     /\ Publishing(t) \/ data'[o] = data[o]
    <3>1. CASE t = u
      <4>1. CASE Live(u, n, k)
        BY <1>0, <1>4, <1>6, <3>1, <4>1 DEF Holder
      <4>2. CASE ~Live(u, n, k)
        BY <1>4, <1>5, <1>8, <3>1, <4>2 DEF Holder
      <4> QED
        BY <4>1, <4>2
    <3>2. CASE t # u
      BY <1>0, <3>2, OtherHolders
    <3> QED
      BY <3>1, <3>2
  <2>2. data'[o] = data[o] \/ \E t \in Threads : \E n, k \in Nat : Holder(o, t, n, k)
    BY <1>0
  <2> QED
    BY <1>8, <2>1, <2>2, ObjSame
<1>9. CASE o = b
  <2>1. /\ Published(o) = data[o]
        /\ \A w \in Threads : ~InOwn(w, o) /\ ~InDeferred(w, o)
    BY <1>7, <1>9, ObjFactsNow DEF ObjFacts
  <2>2. Holder(o, u, tail, last)'
    BY <1>4, <1>5, <1>9 DEF Holder
  <2>3. /\ Published(o)' = data'[o]
        /\ Copies'[o] = WriteSet(u, tail)'[last].val
        /\ \A w \in Threads : (InOwn(w, o)' <=> w = u) /\ ~InDeferred(w, o)'
    BY <1>0, <1>1, <1>6, <2>2, ObjFactsNext DEF ObjFacts
  <2> QED
    BY <1>0, <1>4, <1>5, <1>8, <1>9, <2>1, <2>3
<1> QED
  BY <1>8, <1>9

-----------------------------------------------------------------------------
(* Rlu implements RluSnapshot: the steps. *)

\* The number of a section is one that RluSnapshot knows.
StartsInv ==
    \A t \in Threads : n_starts[t] <= MaxStarts[t] /\ (Numbered(t) => n_starts[t] >= 1)

LEMMA StartsInvariant == Spec => []StartsInv
<1> USE ThreadsAssumption, FlagTypes
<1>1. Init => StartsInv
  BY DEF Init, StartsInv, Numbered, InSection, Syncing, SyncLabels
<1>2. TypeInv /\ StartsInv /\ [Next]_vars => StartsInv'
  <2> SUFFICES ASSUME TypeInv, StartsInv, [Next]_vars, NEW t \in Threads
               PROVE  /\ n_starts'[t] <= MaxStarts[t]
                      /\ Numbered(t)' => n_starts'[t] >= 1
    BY DEF StartsInv
  <2>0. n_starts[t] <= MaxStarts[t] /\ (Numbered(t) => n_starts[t] >= 1)
    BY DEF StartsInv
  <2>1. CASE ReaderLock(t)
    BY <2>1 DEF ReaderLock
  <2>2. CASE CommitUnlock(t)
    <3>1. pc'[t] = "release_prev" \/ (pc'[t] = "load" /\ ret'[t] = "release_prev")
      BY <2>2, CounterTypes DEF CommitUnlock, SyncCall, Goto
    <3>2. ~Numbered(t)' /\ n_starts'[t] = n_starts[t]
      BY <2>2, <3>1 DEF CommitUnlock, Numbered, InSection, Syncing, SyncLabels
    <3> QED
      BY <2>0, <3>2
  <2>3. CASE Thread(t) /\ ~ReaderLock(t) /\ ~CommitUnlock(t)
    BY <2>0, <2>3, NumberSteps
  <2>4. ASSUME NEW u \in Threads \ {t}, Thread(u)
        PROVE  n_starts'[t] = n_starts[t] /\ (Numbered(t)' <=> Numbered(t))
    BY <2>4, Others DEF Same, Numbered, InSection, Syncing
  <2>5. CASE UNCHANGED vars
    BY <2>0, <2>5 DEF Numbered, InSection, Syncing
  <2> QED
    BY <2>0, <2>1, <2>2, <2>3, <2>4, <2>5 DEF Next, Terminated
<1> QED
  BY <1>1, <1>2, LockInvariant, PTL DEF Spec, LogInv

\* One call gets one pointer.
LEMMA RefsAdd ==
    ASSUME LogInv, NEW t \in Threads, Thread(t),
           ~ReaderUnlock(t), ~CommitUnlock(t), ~Abort(t)
    PROVE  \/ refs'[t] = refs[t]
           \/ \E o \in Objs : \E p : refs'[t] = refs[t] \cup {<<o, p>>}
<1>0. TypeInv /\ refs \in [Threads -> SUBSET (Objs \X Ptr)]
  BY VersionTypes DEF LogInv
<1>1. CASE UNCHANGED refs
  BY <1>1
<1>2. ASSUME NEW b \in Objs, NEW p, Got(t, b, p)
      PROVE  refs'[t] = refs[t] \cup {<<b, p>>}
  BY <1>0, <1>2 DEF Got
<1>3. CASE Steal(t) \/ TryLockCopy(t)
  <2>1. pc[t] \in {"steal", "copy"} /\ \E p : Got(t, cur_obj[t], p)
    BY <1>3 DEF Steal, TryLockCopy
  <2>2. cur_obj[t] \in Objs
    BY <1>0, <2>1, CopyTypes
  <2> QED
    BY <1>2, <2>1, <2>2
<1>4. ASSUME NEW b \in Objs, Deref(t, b) \/ TryLockOwn(t, b)
      PROVE  \E p : refs'[t] = refs[t] \cup {<<b, p>>}
  <2>1. \E p : Got(t, b, p)
    BY <1>4 DEF Deref, TryLockOwn
  <2> QED
    BY <1>2, <2>1
<1>6. CASE ThreadInit(t) \/ ThreadPublish(t) \/ SyncCheckpoint(t)
  BY <1>1, <1>6 DEF ThreadInit, ThreadPublish, SyncCheckpoint
<1>7. CASE ThreadFinish(t) \/ ThreadFinish2(t)
  BY <1>1, <1>7 DEF ThreadFinish, ThreadFinish2
<1>8. CASE Begin(t)
  BY <1>1, <1>8 DEF Begin, ReaderLock, Register, ReadVersion, ReadCommitVersion
<1>9. ASSUME NEW b \in Objs, DerefLocked(t, b) \/ TryLock(t, b) \/ TryLockFail(t, b)
      PROVE  UNCHANGED refs
  BY <1>9 DEF DerefLocked, TryLock, TryLockFail
<1>10. CASE TryLockCas(t) \/ SendSyncRequest(t) \/ (\E l \in WriterLocks : TryWriterLock(t, l))
  BY <1>1, <1>10 DEF TryLockCas, TryWriterLock, SendSyncRequest
<1>11. CASE UnlockObjs(t) \/ ReleaseWriterLock(t) \/ ReleaseEnd(t)
  BY <1>1, <1>11 DEF UnlockObjs, ReleaseWriterLock, ReleaseEnd
<1>12. CASE Sync(t)
  BY <1>1, <1>12 DEF Sync, SyncLoad, SyncStore, SyncBump, Scan, ScanEnd, Wait,
     ResetWriteSets, Writeback, Unlock, SyncUnstamp, SyncCommit, SyncEnd
<1> QED
  BY <1>1, <1>3, <1>4, <1>6, <1>7, <1>8, <1>9, <1>10, <1>11, <1>12
  DEF Thread, Access, End

\* While a section goes on, it sees one more object, or nothing new.
LEMMA SeenStep ==
    ASSUME LogInv, SeenFacts, SeenFacts', Taken, Taken', NEW u \in Threads, Thread(u),
           ~ReaderUnlock(u), ~CommitUnlock(u), ~Abort(u)
    PROVE  \/ Seen' = Seen
           \/ InSection(u) /\ \E o \in Objs :
                 Seen' = [Seen EXCEPT ![u] = Seen[u] \cup {<<o, snap[u][o]>>}]
<1>0. TypeInv
  BY DEF LogInv
<1>1. Seen' = [Seen EXCEPT ![u] = Seen'[u]] /\ Seen = [t \in Threads |-> Seen[t]]
  BY <1>0, ViewStep DEF Seen
<1>2. /\ Seen[u] = {<<r[1], snap[u][r[1]]>> : r \in Foreign(u)}
      /\ Seen'[u] = {<<r[1], snap'[u][r[1]]>> : r \in Foreign(u)'}
  BY DEF SeenFacts
<1>3. CASE ~InSection(u)
  <2>1. refs[u] = {}
    BY <1>3 DEF Taken
  <2>2. refs'[u] = {}
    <3>1. ReadVersion(u) => refs' = refs
      BY DEF ReadVersion
    <3>2. refs'[u] # {} => InSection(u)'
      BY <1>0, <2>1, SectionKeeps
    <3> QED
      BY <1>0, <1>3, <2>1, <3>1, <3>2, SectionSteps
  <2>3. Seen'[u] = Seen[u]
    BY <1>2, <2>1, <2>2 DEF Foreign
  <2> QED
    BY <1>1, <2>3
<1>4. CASE InSection(u)
  <2>1. InSection(u)' /\ snap'[u] = snap[u]
    <3>1. InSection(u)'
      BY <1>0, <1>4, LeaveSteps
    <3>2. ~ReadVersion(u)
      BY <1>4 DEF ReadVersion, InSection
    <3> QED
      BY <1>0, <3>1, <3>2, SectionSteps DEF GoesOn
  <2>2. CASE refs'[u] = refs[u]
    <3>1. Seen'[u] = Seen[u]
      BY <1>2, <2>1, <2>2 DEF Foreign
    <3> QED
      BY <1>1, <3>1
  <2>3. ASSUME NEW o \in Objs, NEW p, refs'[u] = refs[u] \cup {<<o, p>>}
        PROVE  \/ Seen'[u] = Seen[u]
               \/ Seen'[u] = Seen[u] \cup {<<o, snap[u][o]>>}
    <3>1. Foreign(u)' = Foreign(u) \/ Foreign(u)' = Foreign(u) \cup {<<o, p>>}
      BY <2>3 DEF Foreign
    <3>2. CASE Foreign(u)' = Foreign(u)
      BY <1>2, <2>1, <3>2
    <3>3. CASE Foreign(u)' = Foreign(u) \cup {<<o, p>>}
      BY <1>2, <2>1, <3>3
    <3> QED
      BY <3>1, <3>2, <3>3
  <2>4. ASSUME NEW o \in Objs, NEW p, refs'[u] = refs[u] \cup {<<o, p>>}
        PROVE  \/ Seen' = Seen
               \/ Seen' = [Seen EXCEPT ![u] = Seen[u] \cup {<<o, snap[u][o]>>}]
    <3>1. CASE Seen'[u] = Seen[u]
      BY <1>1, <3>1
    <3>2. CASE Seen'[u] = Seen[u] \cup {<<o, snap[u][o]>>}
      BY <1>1, <3>2
    <3> QED
      BY <2>3, <2>4, <3>1, <3>2
  <2>5. \/ refs'[u] = refs[u]
        \/ \E o \in Objs : \E p : refs'[u] = refs[u] \cup {<<o, p>>}
    BY RefsAdd
  <2> QED
    BY <1>4, <2>2, <2>4, <2>5
<1> QED
  BY <1>3, <1>4

\* The view of a thread is the snapshot of its section.
LEMMA ViewFacts ==
    ASSUME TypeInv, NEW t \in Threads
    PROVE  /\ View = [w \in Threads |-> View[w]]
           /\ InSection(t) => View[t] = snap[t] /\ View[t] # NULL
           /\ ~InSection(t) => View[t] = NULL
BY FlagTypes, NoViewAssumption DEF View

\* rlu_reader_lock takes the store as it is.
LEMMA MapStart ==
    ASSUME ValueInv, LogInv', SeenFacts, SeenFacts', Taken, Taken',
           NEW u \in Threads, ReadVersion(u)
    PROVE  Snapshot!Next
<1>0. /\ LogInv /\ TypeInv /\ Thread(u) /\ pc[u] = "version" /\ pc'[u] = "commit_version"
      /\ ~CommitUnlock(u) /\ ~Abort(u) /\ ~SyncBump(u) /\ ~TryLockCopy(u) /\ ~ReaderUnlock(u)
  BY VersionTypes DEF ValueInv, LogInv, Thread, Begin, ReadVersion, CommitUnlock, Abort,
     SyncBump, TryLockCopy, ReaderUnlock, Goto
<1>1. UNCHANGED <<Store, OwnObjs, DeferredObjs, Copies>>
  BY <1>0, ObjsQuiet, AbsSame
<1>2. ~InSection(u) /\ InSection(u)' /\ snap'[u] = Store
  BY <1>0, FlagTypes DEF ReadVersion, InSection, Store
<1>3. View[u] = NULL /\ View' = [View EXCEPT ![u] = Store]
  BY <1>0, <1>2, ViewStep, ViewFacts
<1>4. Seen' = Seen
  BY <1>0, <1>2, SeenStep
<1>5. Snapshot!Start(u)
  BY <1>1, <1>3, <1>4 DEF Snapshot!Start
<1> QED
  BY <1>5 DEF Snapshot!Next

\* A section that ends has no view, and sees and owns nothing.
LEMMA MapLeave ==
    ASSUME LogInv, SeenFacts, SeenFacts', NEW u \in Threads,
           ReaderUnlock(u) \/ CommitUnlock(u) \/ Abort(u)
    PROVE  /\ View[u] # NULL /\ View' = [View EXCEPT ![u] = NULL]
           /\ Seen' = [Seen EXCEPT ![u] = {}]
           /\ OwnObjs'[u] = {}
<1>0. TypeInv /\ Thread(u) /\ InSection(u) /\ refs'[u] = {}
  BY VersionTypes DEF LogInv, Thread, End, ReaderUnlock, CommitUnlock, Abort, InSection,
     LeaveSection
<1>1. ~InSection(u)'
  BY <1>0, VersionTypes DEF ReaderUnlock, CommitUnlock, Abort, InSection, Goto, SyncCall
<1>2. Seen'[u] = {}
  BY <1>0 DEF SeenFacts, Foreign
<1>3. OwnObjs'[u] = {}
  BY <1>1 DEF OwnObjs, InOwn
<1> QED
  BY <1>0, <1>1, <1>2, <1>3, ViewStep, ViewFacts

\* A section that detected no write has nothing to commit.
LEMMA MapReaderUnlock ==
    ASSUME ValueInv, LogInv', SeenFacts, SeenFacts', NEW u \in Threads, ReaderUnlock(u)
    PROVE  Snapshot!Next
<1>0. /\ LogInv /\ Thread(u) /\ ~CommitUnlock(u)
      /\ ~Abort(u) /\ ~SyncBump(u) /\ ~TryLockCopy(u)
  BY DEF ValueInv, Thread, End, ReaderUnlock, CommitUnlock, Abort, SyncBump, TryLockCopy
<1>1. UNCHANGED <<Store, OwnObjs, DeferredObjs, Copies>>
  BY <1>0, ObjsQuiet, AbsSame
<1>2. OwnObjs[u] = {}
  BY <1>0, <1>1, MapLeave
<1>3. /\ OwnObjs' = [OwnObjs EXCEPT ![u] = {}]
      /\ DeferredObjs' = [DeferredObjs EXCEPT ![u] = @ \cup OwnObjs[u]]
  BY <1>1, <1>2 DEF OwnObjs, DeferredObjs
<1>4. Snapshot!Leave(u)
  BY <1>0, <1>1, <1>3, MapLeave DEF Snapshot!Leave
<1>5. Snapshot!Commit(u)
  BY <1>1, <1>3, <1>4 DEF Snapshot!Commit
<1> QED
  BY <1>5 DEF Snapshot!Next

\* rlu_commit_write_set: what the section wrote is deferred.
LEMMA MapCommit ==
    ASSUME LogInv, LogInv', SeenFacts, SeenFacts', NEW u \in Threads, CommitUnlock(u)
    PROVE  Snapshot!Next
<1>1. Store' = Store /\ Copies' = Copies
  BY ObjCommitted DEF Store, Copies
<1>2. OwnObjs' = [OwnObjs EXCEPT ![u] = {}]
  <2>1. \A w \in Threads : OwnObjs'[w] = IF w = u THEN {} ELSE OwnObjs[w]
    BY ObjCommitted DEF OwnObjs
  <2> QED
    BY <2>1 DEF OwnObjs
<1>3. DeferredObjs' = [DeferredObjs EXCEPT ![u] = @ \cup OwnObjs[u]]
  <2>1. \A w \in Threads :
            DeferredObjs'[w] = IF w = u THEN DeferredObjs[w] \cup OwnObjs[w] ELSE DeferredObjs[w]
    BY ObjCommitted DEF DeferredObjs, OwnObjs
  <2> QED
    BY <2>1 DEF DeferredObjs
<1>4. Snapshot!Leave(u)
  BY <1>1, <1>2, MapLeave DEF Snapshot!Leave
<1>5. Snapshot!Commit(u)
  BY <1>1, <1>3, <1>4 DEF Snapshot!Commit
<1> QED
  BY <1>5 DEF Snapshot!Next

\* rlu_abort: the copies of the section are dropped.
LEMMA MapAbort ==
    ASSUME LogInv, LogInv', SeenFacts, SeenFacts', NEW u \in Threads, Abort(u)
    PROVE  Snapshot!Next
<1>1. Store' = Store
  BY ObjAborted DEF Store
<1>2. OwnObjs' = [OwnObjs EXCEPT ![u] = {}]
  <2>1. \A w \in Threads : OwnObjs'[w] = IF w = u THEN {} ELSE OwnObjs[w]
    BY ObjAborted DEF OwnObjs
  <2> QED
    BY <2>1 DEF OwnObjs
<1>3. DeferredObjs' = DeferredObjs
  BY ObjAborted DEF DeferredObjs
<1>4. Copies' = Snapshot!Drop(OwnObjs[u])
  <2>1. \A o \in Objs : Copies'[o] = IF o \in OwnObjs[u] THEN {} ELSE Copies[o]
    BY ObjAborted DEF OwnObjs
  <2>2. Copies' = [o \in Objs |-> Copies'[o]]
    BY DEF Copies
  <2> QED
    BY <2>1, <2>2 DEF Snapshot!Drop
<1>5. Snapshot!Leave(u)
  BY <1>1, <1>2, MapLeave DEF Snapshot!Leave
<1>6. Snapshot!Abort(u)
  BY <1>3, <1>4, <1>5 DEF Snapshot!Abort
<1> QED
  BY <1>6 DEF Snapshot!Next

\* The increment of g_rlu_writer_version: all that was deferred is published.
LEMMA MapPublish ==
    ASSUME LogInv, LogInv', SeenFacts, SeenFacts', Taken, Taken',
           NEW u \in Threads, SyncBump(u)
    PROVE  Snapshot!Next
<1>0. /\ TypeInv /\ Thread(u) /\ pc[u] = "bump" /\ pc'[u] = "scan"
      /\ ~ReaderUnlock(u) /\ ~CommitUnlock(u) /\ ~Abort(u)
  BY VersionTypes DEF LogInv, Thread, Sync, SyncBump, ReaderUnlock, CommitUnlock, Abort, Goto
<1>1. ~InSection(u) /\ ~InSection(u)'
  BY <1>0 DEF InSection
<1>2. View[u] = NULL /\ View' = View /\ Seen' = Seen
  BY <1>0, <1>1, ViewStep, ViewFacts, SeenStep
<1>3. Store' = [o \in Objs |-> IF o \in DeferredObjs[u] THEN Copies[o] ELSE Store[o]]
  <2>1. \A o \in Objs : Store'[o] = IF o \in DeferredObjs[u] THEN Copies[o] ELSE Store[o]
    BY ObjPublished DEF Store, DeferredObjs
  <2> QED
    BY <2>1 DEF Store
<1>4. DeferredObjs' = [DeferredObjs EXCEPT ![u] = {}]
  <2>1. \A w \in Threads : DeferredObjs'[w] = IF w = u THEN {} ELSE DeferredObjs[w]
    BY ObjPublished DEF DeferredObjs
  <2> QED
    BY <2>1 DEF DeferredObjs
<1>5. Copies' = Snapshot!Drop(DeferredObjs[u])
  <2>1. \A o \in Objs : Copies'[o] = IF o \in DeferredObjs[u] THEN {} ELSE Copies[o]
    BY ObjPublished DEF DeferredObjs
  <2>2. Copies' = [o \in Objs |-> Copies'[o]]
    BY DEF Copies
  <2> QED
    BY <2>1, <2>2 DEF Snapshot!Drop
<1>6. OwnObjs' = OwnObjs
  BY ObjPublished DEF OwnObjs
<1>7. Snapshot!Publish(u)
  BY <1>2, <1>3, <1>4, <1>5, <1>6 DEF Snapshot!Publish
<1> QED
  BY <1>7 DEF Snapshot!Next

\* The update of a section is a new one.
LEMMA NewUpdate ==
    ASSUME ValueInv, NewUpdates, StartsInv, NEW u \in Threads, TryLockCopy(u),
           NEW b \in Objs, b = cur_obj[u]
    PROVE  <<u, n_starts[u]>> \in Updates \ data[b]
<1>1. Numbered(u) /\ n_starts[u] \in Nat /\ MaxStarts[u] \in Nat
  BY FlagTypes, ThreadsAssumption DEF ValueInv, LogInv, TryLockCopy, Numbered, InSection
<1>2. n_starts[u] \in 1 .. MaxStarts[u]
  BY <1>1 DEF StartsInv
<1>3. <<u, n_starts[u]>> \in Updates
  BY <1>2 DEF Updates
<1>4. committed[b] = data[b]
  BY DEF ValueInv, Values, TryLockCopy
<1>5. <<u, n_starts[u]>> \notin committed[b]
  BY <1>1 DEF NewUpdates
<1> QED
  BY <1>3, <1>4, <1>5

\* The copy of a locked object is made from contents that are up to date.
LEMMA MapWrite ==
    ASSUME ValueInv, LogInv', SnapInv, StartsInv, SeenFacts, SeenFacts',
           NEW u \in Threads, TryLockCopy(u)
    PROVE  Snapshot!Next
<1>0. /\ LogInv /\ TypeInv /\ Ring /\ Thread(u) /\ pc[u] = "copy" /\ pc'[u] = "section"
      /\ snap' = snap
  BY VersionTypes DEF ValueInv, LogInv, Thread, Access, TryLockCopy, Goto
<1>1. PICK b \in Objs, c \in Addr : b = cur_obj[u] /\ c = cur_copy[u] /\ c.th = u
  BY <1>0, CopyTypes, InstallsOwn
<1>2. InSection(u) /\ InSection(u)' /\ ~Publishing(u)
  BY <1>0 DEF InSection, Publishing
<1>3. View[u] = snap[u] /\ View[u] # NULL /\ View' = View
  BY <1>0, <1>2, ViewFacts, ViewStep
<1>4. Seen' = Seen
  <2>1. refs'[u] = refs[u] \cup {<<b, c>>}
    BY <1>0, <1>1, VersionTypes DEF TryLockCopy, Got
  <2>2. Foreign(u)' = Foreign(u)
    BY <1>1, <2>1 DEF Foreign
  <2>3. Seen'[u] = Seen[u]
    <3>1. /\ Seen[u] = {<<r[1], snap[u][r[1]]>> : r \in Foreign(u)}
          /\ Seen'[u] = {<<r[1], snap'[u][r[1]]>> : r \in Foreign(u)'}
      BY DEF SeenFacts
    <3> QED
      BY <1>0, <2>2, <3>1
  <2>4. Seen = [t \in Threads |-> Seen[t]]
    BY DEF Seen
  <2> QED
    BY <1>0, <2>3, <2>4, ViewStep
<1>5. \A o \in Objs :
          /\ o # b => SameObj(o)
          /\ o = b =>
                /\ Published(o) = data[o] /\ Published(o)' = data[o]
                /\ Copies'[o] = data[o] \cup {<<u, n_starts[u]>>}
                /\ \A w \in Threads :
                      /\ ~InOwn(w, o) /\ ~InDeferred(w, o)
                      /\ InOwn(w, o)' <=> w = u
                      /\ ~InDeferred(w, o)'
  BY <1>0, <1>1, ObjWritten
<1>6. b \notin Snapshot!Taken
  BY <1>5 DEF Snapshot!Taken, OwnObjs, DeferredObjs
<1>7. Store' = Store /\ Store[b] = data[b]
  BY <1>5 DEF Store, SameObj
<1>8. snap[u][b] = data[b]
  <2>1. ~Reads(u, u)
    BY <1>2 DEF Reads
  <2>2. p_obj_copy[b] = c
    BY <1>0, <1>1 DEF LogInv, LockInv, Locking
  <2> QED
    BY <1>1, <1>2, <2>1, <2>2 DEF SnapInv, Viewed, Shown
<1>9. OwnObjs' = [OwnObjs EXCEPT ![u] = @ \cup {b}]
  <2>1. \A w \in Threads : OwnObjs'[w] = IF w = u THEN OwnObjs[w] \cup {b} ELSE OwnObjs[w]
    BY <1>5 DEF OwnObjs, SameObj
  <2> QED
    BY <2>1 DEF OwnObjs
<1>10. DeferredObjs' = DeferredObjs
  BY <1>5 DEF DeferredObjs, SameObj
<1>11. Copies' = [Copies EXCEPT ![b] = Store[b] \cup {<<u, n_starts[u]>>}]
  <2>1. \A o \in Objs :
            Copies'[o] = IF o = b THEN Store[b] \cup {<<u, n_starts[u]>>} ELSE Copies[o]
    BY <1>5, <1>7 DEF SameObj
  <2>2. Copies = [o \in Objs |-> Copies[o]] /\ Copies' = [o \in Objs |-> Copies'[o]]
    BY DEF Copies
  <2> QED
    BY <2>1, <2>2
<1>12. <<u, n_starts[u]>> \in Updates \ Store[b]
  BY <1>1, <1>7, NewUpdate DEF SnapInv
<1>13. Snapshot!Write(u, b)
  BY <1>3, <1>4, <1>6, <1>7, <1>8, <1>9, <1>10, <1>11, <1>12 DEF Snapshot!Write
<1> QED
  BY <1>13 DEF Snapshot!Next

\* Every other step reads, or is not one of RluSnapshot.
LEMMA MapOther ==
    ASSUME ValueInv, LogInv', SeenFacts, SeenFacts', Taken, Taken',
           NEW u \in Threads, Thread(u), ~ReadVersion(u),
           ~ReaderUnlock(u), ~CommitUnlock(u), ~Abort(u), ~SyncBump(u), ~TryLockCopy(u)
    PROVE  Snapshot!Next \/ UNCHANGED Snapshot!vars
<1>0. LogInv /\ TypeInv
  BY DEF ValueInv, LogInv
<1>1. UNCHANGED <<Store, OwnObjs, DeferredObjs, Copies>>
  BY <1>0, ObjsQuiet, AbsSame
<1>2. View' = View
  <2>1. InSection(u)' <=> InSection(u)
    BY <1>0, RoleSteps
  <2>2. InSection(u) => snap'[u] = snap[u]
    BY <1>0, <2>1, SectionSteps DEF GoesOn
  <2> QED
    BY <1>0, <2>1, <2>2, ViewStep, ViewFacts
<1>3. CASE Seen' = Seen
  BY <1>1, <1>2, <1>3 DEF Snapshot!vars
<1>4. ASSUME NEW o \in Objs, InSection(u),
             Seen' = [Seen EXCEPT ![u] = Seen[u] \cup {<<o, snap[u][o]>>}]
      PROVE  Snapshot!Next
  <2>1. View[u] = snap[u] /\ View[u] # NULL
    BY <1>0, <1>4, ViewFacts
  <2>2. Snapshot!Read(u, o)
    BY <1>1, <1>2, <1>4, <2>1 DEF Snapshot!Read
  <2> QED
    BY <2>2 DEF Snapshot!Next
<1> QED
  BY <1>0, <1>3, <1>4, SeenStep

LEMMA MapInit == Init => Snapshot!Init
<1> SUFFICES ASSUME Init PROVE Snapshot!Init
  OBVIOUS
<1>1. /\ \A t \in Threads : ~InSection(t) /\ refs[t] = {}
      /\ \A o \in Objs : p_obj_copy[o] = NULL /\ data[o] = {}
  BY ThreadsAssumption DEF Init, InSection
<1>2. \A t \in Threads : \A o \in Objs : ~InOwn(t, o) /\ ~InDeferred(t, o)
  BY <1>1 DEF InOwn, InDeferred
<1>3. Store = [o \in Objs |-> {}] /\ Copies = [o \in Objs |-> {}]
  BY <1>1, <1>2 DEF Store, Copies, Published
<1>4. View = [t \in Threads |-> NULL] /\ Seen = [t \in Threads |-> {}]
  BY <1>1 DEF View, Seen
<1>5. OwnObjs = [t \in Threads |-> {}] /\ DeferredObjs = [t \in Threads |-> {}]
  BY <1>2 DEF OwnObjs, DeferredObjs
<1> QED
  BY <1>3, <1>4, <1>5 DEF Snapshot!Init

LEMMA MapUnchanged == UNCHANGED vars => UNCHANGED Snapshot!vars
BY DEF Snapshot!vars, Store, View, OwnObjs, DeferredObjs, Copies, Seen, Published, InOwn,
   InDeferred, InSection, Publishing, Complete, At, WsCurId, Contents

LEMMA MapStep ==
    ASSUME ValueInv, ValueInv', StealInv, StealInv', SnapInv, SnapInv', StartsInv,
           [Next]_vars
    PROVE  [Snapshot!Next]_(Snapshot!vars)
<1>0. /\ LogInv /\ LogInv' /\ TypeInv /\ TypeInv' /\ Held /\ Held' /\ Taken /\ Taken'
  BY DEF ValueInv, LogInv, SnapInv, StealInv
<1>1. SeenFacts /\ SeenFacts'
  BY <1>0, SeenFactsNow, SeenFactsNext
<1>2. ASSUME NEW u \in Threads, Thread(u) PROVE [Snapshot!Next]_(Snapshot!vars)
  BY <1>0, <1>1, <1>2, MapStart, MapReaderUnlock, MapCommit, MapAbort, MapPublish, MapWrite,
     MapOther
<1> QED
  BY <1>2, MapUnchanged DEF Next, Terminated

\* Everything that rlu.c does to its objects, write-sets, versions and ring is,
\* to its clients, what the snapshot store does: sections read the store as it
\* was, and the commits of a thread take effect together at its synchronisation.
\* The hypotheses are those of SnapshotInvariant.
THEOREM ImplementsIfExclusive ==
    Spec /\ []VersionsBelowMax /\ []SyncsExclude => ImplementsSnapshot
<1>1. /\ ValueInv /\ ValueInv' /\ StealInv /\ StealInv' /\ SnapInv /\ SnapInv' /\ StartsInv
      /\ [Next]_vars
      => [Snapshot!Next]_(Snapshot!vars)
  BY MapStep
<1> QED
  BY <1>1, MapInit, SnapshotInvariant, StartsInvariant, PTL
  DEF Spec, ImplementsSnapshot, Snapshot!Spec

\* One writer implements the snapshot store, whatever the number of readers,
\* objects and deferred write-sets.
THEOREM OneWriterImplements ==
    ASSUME NEW CONSTANT w, Writers \subseteq {w}
    PROVE  Spec /\ []VersionsBelowMax => ImplementsSnapshot
<1>1. Bystanders => SyncsExclude
  BY SyncsOfOneWriter
<1> QED
  BY <1>1, BystandersInvariant, ImplementsIfExclusive, PTL

\* So do any number of writers under a single writer lock.
THEOREM OneLockImplements ==
    ASSUME NEW CONSTANT l, Coarse, WriterLocks = {l}, Finishers \cap Writers = {}
    PROVE  Spec /\ []VersionsBelowMax => ImplementsSnapshot
BY OneWriterLockSerialises, ImplementsIfExclusive, PTL
=============================================================================
