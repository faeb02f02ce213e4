--------------------------- MODULE RluListProofs ---------------------------
(***************************************************************************)
(* The list of RLU objects under one thread that updates it and any number *)
(* of threads that search it: what a section reads is a sorted list from   *)
(* the head to the tail, none of whose blocks is free, and the calls keep  *)
(* the promise of DeferredSet, for any number of keys, blocks, calls and   *)
(* deferred write-sets.                                                    *)
(***************************************************************************)
EXTENDS RluList, RluSnapshotProofs, FiniteSetTheorems

USE DEF vars, objVars, versionVars, joinVars, globalVars, peerVars, flagVars,
        counterVars, logVars, ownVars, syncVars, loopVars, ctlVars, callVars,
        ghostVars, clientVars

-----------------------------------------------------------------------------
(* A. Rlu when only w writes. *)

Older == \A o \in Objs : data[o] \subseteq committed[o]

\* The section of w looks at its own locks if it has any.
Looking(w) ==
    (pc[w] \in SectionLabels \ {"commit_version"} /\ ~is_check_locks[w]) =>
        ws_wb_counter[w] = ws_tail_counter[w] /\ ~is_write_detected[w]

\* It reads an object itself only when that is what it last wrote.
DataRead(w) ==
    /\ pc[w] # "steal"
    /\ \A o \in Objs : <<o, o>> \in refs[w] => data[o] = committed[o]

RluInv(w) ==
    /\ ValueInv /\ GraceInv /\ StealInv /\ SnapInv /\ Bystanders
    /\ Older /\ Looking(w) /\ DataRead(w)

LEMMA LockedByWriter ==
    ASSUME NEW w \in Threads, Writers \subseteq {w}, LogInv, Bystanders,
           NEW o \in Objs, NEW c \in Addr, p_obj_copy[o] = c
    PROVE  c.th = w
<1> SUFFICES ASSUME c.th # w PROVE FALSE
  OBVIOUS
<1> DEFINE t == c.th
<1>0. TypeInv /\ Ring /\ LockInv /\ t \in Threads \ Writers
  BY CopyTypes DEF LogInv
<1>1. Bystander(t) /\ RingOf(t) /\ DetectedOf(t)
  BY <1>0 DEF Bystanders, Ring
<1>2. ~Installing(t, o, c)
  BY <1>1 DEF Installing, Bystander, DetectedOf
<1>3. PICK m \in Nat, k \in Nat : Live(t, m, k)
  BY <1>0, <1>2 DEF LockInv, Owned, OwnedBy
<1>4. pc[t] \notin BackLabels
  BY <1>1 DEF Bystander, Syncing, SyncLabels, BackLabels
<1>5. m = ws_tail_counter[t] /\ InSection(t)
  BY <1>0, <1>1, <1>3, <1>4, CounterTypes DEF Bystander, RingOf, Live, First
<1>6. WriteSet(t, m) = <<>>
  BY <1>1, <1>5 DEF Bystander, DetectedOf
<1> QED
  BY <1>3, <1>6 DEF Live

\* A deferred copy is what was committed.
LEMMA CommittedCopy ==
    ASSUME ValueInv, NEW o \in Objs, NEW c \in Addr, p_obj_copy[o] = c,
           ~InSection(c.th), pc[c.th] # "unlock_objs"
    PROVE  Complete(c) /\ At(c).val = committed[o]
<1>0. LogInv /\ TypeInv /\ c.th \in Threads /\ pc[c.th] # "copy"
  BY CopyTypes DEF ValueInv, LogInv, InSection
<1>1. PICK m \in Nat, k \in Nat :
          /\ Live(c.th, m, k) /\ WriteSet(c.th, m)[k].obj = o
          /\ At(c) = WriteSet(c.th, m)[k] /\ Complete(c)
  BY <1>0, HeaderLive
<1>2. ws_tail_counter[c.th] \in Nat /\ m < ws_tail_counter[c.th]
  BY <1>0, <1>1, CounterTypes DEF Live
<1> QED
  BY <1>0, <1>1, <1>2 DEF ValueInv, Values, Kept

LEMMA StoreIs ==
    ASSUME NEW w \in Threads, Writers \subseteq {w}, ValueInv, Bystanders
    PROVE  Store = IF Publishing(w) THEN committed ELSE data
<1>0. LogInv /\ TypeInv /\ data \in [Objs -> Value] /\ committed \in [Objs -> Value]
  BY FlagTypes DEF ValueInv, LogInv
<1>1. ASSUME NEW o \in Objs
      PROVE  Published(o) = IF Publishing(w) THEN committed[o] ELSE data[o]
  <2>1. CASE p_obj_copy[o] = NULL
    BY <1>0, <2>1 DEF Published, ValueInv, Values
  <2>2. CASE p_obj_copy[o] # NULL
    <3>1. PICK c \in Addr : p_obj_copy[o] = c /\ c.th = w
      BY <1>0, <2>2, CopyTypes, LockedByWriter
    <3>2. CASE Publishing(w)
      <4>1. ~InSection(w) /\ pc[w] # "unlock_objs"
        BY <3>2 DEF Publishing, InSection
      <4> QED
        BY <3>1, <3>2, <4>1, <2>2, CommittedCopy DEF Published
    <3>3. CASE ~Publishing(w)
      BY <3>1, <3>3 DEF Published
    <3> QED
      BY <3>2, <3>3
  <2> QED
    BY <2>1, <2>2
<1> QED
  BY <1>0, <1>1 DEF Store

LEMMA OlderStep ==
    ASSUME NEW w \in Threads, Writers \subseteq {w}, ValueInv, Bystanders, Older,
           NEW u \in Threads, Thread(u)
    PROVE  Older'
<1>0. LogInv /\ TypeInv /\ data \in [Objs -> Value] /\ committed \in [Objs -> Value]
  BY FlagTypes DEF ValueInv, LogInv
<1>1. \A o \in Objs : committed[o] \subseteq committed'[o]
  <2>1. CASE UNCHANGED committed
    BY <2>1
  <2>2. CASE ReaderLock(u)
    BY <2>2 DEF ReaderLock, ghostVars
  <2>3. CASE CommitUnlock(u)
    BY <2>3 DEF CommitUnlock
  <2> QED
    BY <1>0, <2>1, <2>2, <2>3, NumberSteps
<1>2. ASSUME Writeback(u), NEW o \in Objs PROVE data'[o] \subseteq committed[o]
  <2>1. PICK b \in Objs, c \in Addr :
            /\ p_obj_copy[b] = c /\ c.th = u /\ pc[u] \in BackLabels
            /\ data' = [data EXCEPT ![b] = At(c).val]
    BY <1>2, BackSteps
  <2>2. At(c).val = committed[b]
    BY <2>1, CommittedCopy DEF InSection, BackLabels
  <2> QED
    BY <1>0, <2>1, <2>2 DEF Older
<1>3. ASSUME NEW o \in Objs PROVE data'[o] \subseteq committed[o]
  BY <1>0, <1>2, DataSteps DEF Older
<1> QED
  BY <1>1, <1>3 DEF Older

\* A section looks at locks from its first lock on.
LEMMA DetectSteps ==
    ASSUME TypeInv, NEW t \in Threads, Thread(t), is_write_detected'[t], ~is_write_detected[t]
    PROVE  is_check_locks'[t]
<1>0. /\ is_write_detected \in [Threads -> BOOLEAN]
      /\ is_check_locks \in [Threads -> BOOLEAN]
  BY CounterTypes, FlagTypes
<1>1. CASE ThreadInit(t) \/ ThreadPublish(t) \/ SyncCheckpoint(t) \/ ThreadFinish(t) \/ ThreadFinish2(t)
  BY <1>0, <1>1 DEF ThreadInit, ThreadPublish, SyncCheckpoint, ThreadFinish, ThreadFinish2,
     ownVars, flagVars
<1>2. CASE Begin(t)
  BY <1>0, <1>2 DEF Begin, ReaderLock, Register, ReadVersion, ReadCommitVersion, ownVars, flagVars
<1>3. CASE Access(t)
  BY <1>0, <1>3 DEF Access, Steal, TryLockCas, TryLockCopy, Deref, DerefLocked, TryLock,
     TryLockOwn, TryLockFail, SendSyncRequest, TryWriterLock, ownVars, flagVars
<1>4. CASE End(t)
  BY <1>0, <1>4 DEF End, ReaderUnlock, CommitUnlock, Abort, UnlockObjs, ReleaseWriterLock,
     ReleaseEnd, ownVars, flagVars
<1>5. CASE Sync(t)
  BY <1>0, <1>5 DEF Sync, SyncLoad, SyncStore, SyncBump, Scan, ScanEnd, Wait, ResetWriteSets,
     Writeback, Unlock, SyncUnstamp, SyncCommit, SyncEnd, ownVars, flagVars
<1> QED
  BY <1>1, <1>2, <1>3, <1>4, <1>5 DEF Thread

LEMMA LookingStep ==
    ASSUME NEW w \in Threads, LogInv, Looking(w), NEW u \in Threads, Thread(u)
    PROVE  Looking(w)'
<1>0. TypeInv /\ Ring /\ RingOf(w) /\ DetectedOf(w)
  BY DEF LogInv, Ring
<1>1. CASE u # w
  BY <1>0, <1>1, Others, OtherFlags DEF Same, Looking
<1>2. CASE u = w
  <2> SUFFICES ASSUME pc'[w] \in SectionLabels \ {"commit_version"}, ~is_check_locks'[w]
               PROVE  ws_wb_counter'[w] = ws_tail_counter'[w] /\ ~is_write_detected'[w]
    BY DEF Looking
  <2>1. InSection(w)'
    BY DEF InSection, SectionLabels
  <2>2. ~ReadVersion(w)
    BY <1>0, CounterTypes DEF ReadVersion, Goto
  <2>3. InSection(w) /\ (ReadCommitVersion(w) \/ FlagsKept(w))
    BY <1>0, <1>2, <2>1, <2>2, SectionSteps
  <2>4. UNCHANGED <<ws_wb_counter, ws_tail_counter>>
    <3>1. ~CommitUnlock(w) /\ ~ResetWriteSets(w) /\ ~SyncUnstamp(w)
      BY <1>0, <1>2, <2>1, <2>3, RoleSteps, SectionSteps, CounterTypes
      DEF InSection, ResetWriteSets, SyncUnstamp, CommitUnlock, SyncCall, Goto
    <3> QED
      BY <1>0, <1>2, <3>1, RingSteps DEF TryLockCopy, ReleaseEnd, counterVars
  <2>5. CASE ReadCommitVersion(w)
    <3>1. ws_wb_counter[w] = ws_tail_counter[w]
      BY <1>0, <2>5, FlagTypes DEF ReadCommitVersion
    <3>2. ~is_write_detected[w] /\ UNCHANGED is_write_detected
      BY <1>0, <2>5 DEF ReadCommitVersion, DetectedOf
    <3> QED
      BY <2>4, <3>1, <3>2
  <2>6. CASE FlagsKept(w)
    <3>1. ws_wb_counter[w] = ws_tail_counter[w] /\ ~is_write_detected[w]
      BY <2>3, <2>6 DEF FlagsKept, Looking, InSection, SectionLabels
    <3> QED
      BY <1>0, <1>2, <2>4, <3>1, DetectSteps
  <2> QED
    BY <2>3, <2>5, <2>6
<1> QED
  BY <1>1, <1>2

\* Nothing is locked that has no copy in the log of w.
LEMMA NothingOwned ==
    ASSUME NEW w \in Threads, Writers \subseteq {w}, LogInv, Bystanders,
           ws_wb_counter[w] = ws_tail_counter[w], pc[w] \notin BackLabels,
           InSection(w) => ~is_write_detected[w], pc[w] # "unlock_objs",
           NEW o \in Objs
    PROVE  p_obj_copy[o] = NULL
<1> SUFFICES ASSUME p_obj_copy[o] # NULL PROVE FALSE
  OBVIOUS
<1>0. TypeInv /\ Ring /\ DetectedOf(w)
  BY DEF LogInv, Ring
<1>1. PICK c \in Addr : p_obj_copy[o] = c /\ c.th = w
  BY <1>0, CopyTypes, LockedByWriter
<1>2. pc[w] # "copy"
  BY <1>0 DEF DetectedOf, InSection
<1>3. PICK m \in Nat, k \in Nat : Live(w, m, k)
  BY <1>1, <1>2, HeaderLive
<1>4. m = ws_tail_counter[w] /\ InSection(w)
  BY <1>0, <1>3, CounterTypes DEF Live, First
<1>5. WriteSet(w, m) = <<>>
  BY <1>0, <1>4 DEF DetectedOf
<1> QED
  BY <1>3, <1>5 DEF Live

LEMMA DataReadStep ==
    ASSUME NEW w \in Threads, Writers \subseteq {w}, ValueInv, Bystanders, Looking(w), DataRead(w),
           Taken, Taken', NEW u \in Threads, Thread(u)
    PROVE  DataRead(w)'
<1>0. LogInv /\ TypeInv /\ Ring /\ data \in [Objs -> Value] /\ committed \in [Objs -> Value]
  BY FlagTypes DEF ValueInv, LogInv
<1>1. pc'[w] # "steal"
  <2>1. CASE u # w
    BY <1>0, <2>1, Others DEF Same, DataRead
  <2>2. ASSUME u = w, pc'[w] = "steal" PROVE FALSE
    <3>1. PICK o \in Objs : DerefLocked(w, o)
      BY <1>0, <2>2, ToSteal
    <3>2. p_obj_copy[o] \in Addr /\ p_obj_copy[o].th # w
      BY <1>0, <3>1, CopyTypes DEF DerefLocked
    <3> QED
      BY <1>0, <3>2, LockedByWriter
  <2> QED
    BY <2>1, <2>2
<1>2. ASSUME NEW o \in Objs, <<o, o>> \in refs'[w] PROVE data'[o] = committed'[o]
  <2>0. InSection(w)'
    BY <1>2 DEF Taken
  <2>1. InSection(w)
    <3>1. CASE u # w
      BY <1>0, <2>0, <3>1, Others DEF Same, InSection
    <3>2. CASE ReadVersion(w)
      BY <1>2, <3>2 DEF ReadVersion, Taken, InSection
    <3> QED
      BY <1>0, <2>0, <3>1, <3>2, SectionSteps
  <2>2. UNCHANGED data
    <3>1. ASSUME Writeback(u) PROVE FALSE
      <4>1. u = w
        BY <1>0, <3>1, BackSteps, LockedByWriter
      <4> QED
        BY <2>1, <3>1, <4>1 DEF Writeback, InSection
    <3> QED
      BY <1>0, <3>1, DataSteps
  <2>3. UNCHANGED committed
    <3>1. CASE CommitUnlock(u)
      <4>1. u = w
        BY <1>0, <3>1 DEF CommitUnlock, Bystanders, Bystander
      <4> QED
        BY <2>0, <3>1, <4>1, <1>0, CounterTypes DEF CommitUnlock, InSection, SyncCall, Goto
    <3>2. CASE ReaderLock(u)
      BY <3>2 DEF ReaderLock, ghostVars
    <3> QED
      BY <1>0, <3>1, <3>2, NumberSteps
  <2>4. CASE <<o, o>> \in refs[w]
    BY <2>2, <2>3, <2>4 DEF DataRead
  <2>5. CASE <<o, o>> \notin refs[w]
    <3>1. u = w
      BY <1>0, <1>2, <2>5, Others DEF Same
    <3>2. o \notin Addr
      BY AddressesAssumption
    <3>3. ~TryLockCopy(w)
      BY <1>0, <1>2, <2>5, <3>1, <3>2, GotSteps, CopyTypes DEF TryLockCopy, DataRead, Steal, Deref, TryLockOwn
    <3>4. ~Steal(w)
      BY DEF Steal, DataRead
    <3>5. CASE TryLockOwn(w, o) /\ o = p_obj_copy[o]
      BY <1>0, <3>2, <3>5, CopyTypes DEF TryLockOwn
    <3>6. CASE /\ Deref(w, o)
               /\ o = IF is_check_locks[w] /\ p_obj_copy[o] # NULL /\ p_obj_copy[o].th = w
                      THEN p_obj_copy[o] ELSE o
      <4>1. p_obj_copy[o] = NULL
        <5> SUFFICES ASSUME p_obj_copy[o] # NULL PROVE FALSE
          OBVIOUS
        <5>1. p_obj_copy[o] \in Addr /\ p_obj_copy[o].th = w
          BY <1>0, CopyTypes, LockedByWriter
        <5>2. ~is_check_locks[w] /\ pc[w] = "section"
          BY <1>0, <3>2, <3>6, <5>1, CopyTypes DEF Deref
        <5>3. ws_wb_counter[w] = ws_tail_counter[w] /\ ~is_write_detected[w]
          BY <5>2 DEF Looking, SectionLabels
        <5> QED
          BY <1>0, <5>2, <5>3, NothingOwned DEF BackLabels
      <4> QED
        BY <2>2, <2>3, <4>1 DEF ValueInv, Values
    <3> QED
      BY <1>0, <1>2, <2>5, <3>1, <3>3, <3>4, <3>5, <3>6, GotSteps
  <2> QED
    BY <2>4, <2>5
<1> QED
  BY <1>1, <1>2 DEF DataRead

LEMMA RluInvStep ==
    ASSUME NEW w \in Threads, Writers \subseteq {w}, RluInv(w), VersionsBelowMax, [Next]_vars
    PROVE  RluInv(w)'
<1>0. ValueInv /\ LogInv /\ TypeInv /\ TypeOK /\ SyncsExclude
  BY SyncsOfOneWriter DEF RluInv, ValueInv, LogInv, TypeInv
<1>1. ValueInv' /\ GraceInv' /\ SnapInv' /\ Bystanders'
  BY <1>0, ValueStays, GraceStep, SnapStep, BystandersStay DEF RluInv
<1>2. StealInv'
  BY <1>0, StealStep, StealUnchanged DEF RluInv, Next, Terminated
<1>3. CASE UNCHANGED vars
  <2>1. Older' /\ Looking(w)' /\ DataRead(w)'
    BY <1>3 DEF RluInv, Older, Looking, DataRead
  <2> QED
    BY <1>1, <1>2, <2>1 DEF RluInv
<1>4. ASSUME NEW u \in Threads, Thread(u) PROVE RluInv(w)'
  <2>1. Older'
    BY <1>0, <1>4, OlderStep DEF RluInv
  <2>2. Looking(w)'
    BY <1>0, <1>4, LookingStep DEF RluInv
  <2>3. DataRead(w)'
    BY <1>0, <1>2, <1>4, DataReadStep DEF RluInv, StealInv
  <2> QED
    BY <1>1, <1>2, <2>1, <2>2, <2>3 DEF RluInv
<1> QED
  BY <1>3, <1>4 DEF Next, Terminated

LEMMA RluInvInit ==
    ASSUME NEW w \in Threads
    PROVE  Init => RluInv(w)
<1> SUFFICES ASSUME Init PROVE RluInv(w)
  OBVIOUS
<1>1. pc[w] \in {"idle", "new"} /\ refs[w] = {} /\ \A o \in Objs : data[o] = committed[o]
  BY DEF Init
<1>2. Older /\ Looking(w) /\ DataRead(w)
  BY <1>1 DEF Older, Looking, DataRead, SectionLabels
<1> QED
  BY <1>2, ValueInit, GraceInit, StealInit, SnapInit, BystandersInit DEF RluInv

-----------------------------------------------------------------------------
(* What sections read, when only w writes. *)

\* The contents that the section of t reads: w sees its deferred write-sets.
Walked(w, t) == IF t = w THEN committed ELSE snap[t]

\* The contents once the section of w has committed.
Future(w) ==
    [o \in Objs |-> committed[o] \cup IF o \in Updated(w) THEN {<<w, n_starts[w]>>} ELSE {}]

\* A copy that the section of w has made itself.
NewCopy(w, t, p) == t = w /\ p \in Addr /\ p.ws = WsCurId(w)

RefFacts(w) ==
    \A t \in Threads : \A o \in Objs : \A p \in Ptr : <<o, p>> \in refs[t] =>
        /\ InSection(t) /\ Actual(p) = o
        /\ NewCopy(w, t, p) => o \in Updated(w) /\ Contents(p) = Future(w)[o]
        /\ ~NewCopy(w, t, p) => Contents(p) = Walked(w, t)[o]

UpdateFacts(w) ==
    InSection(w) =>
        /\ ~is_write_detected[w] => Updated(w) = {}
        /\ \A o \in Updated(w) : o \in Objs /\ p_obj_copy[o] # NULL
        /\ \A o \in Objs : <<w, n_starts[w]>> \notin committed[o] \cup data[o]
        /\ pc[w] = "copy" => committed[cur_obj[w]] = data[cur_obj[w]]

QuietFacts(w) ==
    /\ ~Publishing(w) => Store = data /\ \A t \in Threads : InSection(t) => snap[t] = data
    /\ Publishing(w) => Store = committed
    /\ pc[w] \in {"commit", "sync_end", "done"} =>
          data = committed /\ \A o \in Objs : p_obj_copy[o] = NULL
    /\ \A o \in Objs : p_obj_copy[o] = NULL => data[o] = committed[o]
    /\ \A t \in Threads : OwnContents(t) = IF t = w THEN committed ELSE Store

TypeFacts ==
    /\ LogInv /\ refs \in [Threads -> SUBSET (Objs \X Ptr)]
    /\ committed \in [Objs -> Value] /\ data \in [Objs -> Value] /\ Store \in [Objs -> Value]
    /\ snap \in [Threads -> [Objs -> Value]] /\ n_starts \in [Threads -> Nat]

Facts(w) == TypeFacts /\ RefFacts(w) /\ UpdateFacts(w) /\ QuietFacts(w)

LEMMA RefFactsNow ==
    ASSUME NEW w \in Threads, Writers \subseteq {w}, RluInv(w)
    PROVE  RefFacts(w)
<1>0. ValueInv /\ LogInv /\ TypeInv /\ Ring /\ SnapInv /\ DataRead(w)
  BY DEF RluInv, ValueInv, LogInv
<1> SUFFICES ASSUME NEW t \in Threads, NEW o \in Objs, NEW p \in Ptr, <<o, p>> \in refs[t]
             PROVE  /\ InSection(t) /\ Actual(p) = o
                    /\ NewCopy(w, t, p) => o \in Updated(w) /\ Contents(p) = Future(w)[o]
                    /\ ~NewCopy(w, t, p) => Contents(p) = Walked(w, t)[o]
  BY DEF RefFacts
<1>1. Right(t, o, p) /\ InSection(t)
  BY <1>0 DEF RluInv, SnapInv, Held, StealInv, Taken
<1>2. CASE p \in Objs
  <2>1. p = o /\ data[o] = snap[t][o] /\ p \notin Addr
    BY <1>1, <1>2, AddressesAssumption DEF Right
  <2>2. t = w => data[o] = committed[o]
    BY <1>0, <2>1 DEF DataRead
  <2> QED
    BY <1>1, <1>2, <2>1, <2>2 DEF Actual, NewCopy, Contents, Walked
<1>3. CASE p \in Addr /\ p.th # t
  <2>1. HasTaken(t, o, p) /\ p \notin Objs /\ At(p).val = snap[t][o]
    BY <1>1, <1>3, AddressesAssumption DEF RluInv, StealInv, Taken, Right
  <2>2. At(p).obj = o
    BY <2>1 DEF HasTaken, CopyOf, At, WriteSet
  <2>3. t # w
    <3> SUFFICES ASSUME t = w PROVE FALSE
      OBVIOUS
    <3>1. PICK m \in Nat : CopyOf(o, p, m) /\ ws_head_counter[p.th] <= m
      BY <2>1 DEF HasTaken
    <3>2. p.th \in Threads \ Writers
      BY <1>0, <1>3, <3>1, CopyTypes
    <3>3. Bystander(p.th) /\ m < ws_tail_counter[p.th]
      BY <3>1, <3>2 DEF RluInv, Bystanders, CopyOf
    <3> QED
      BY <1>0, <3>1, <3>2, <3>3, CounterTypes DEF Bystander
  <2> QED
    BY <1>1, <2>1, <2>2, <2>3 DEF Actual, NewCopy, Contents, Walked
<1>4. CASE p \in Addr /\ p.th = t
  <2>1. p_obj_copy[o] = p /\ ~Installing(t, o, p) /\ p \notin Objs
    BY <1>1, <1>4, AddressesAssumption DEF Right
  <2>2. t = w
    BY <1>0, <1>4, <2>1, LockedByWriter DEF RluInv
  <2>3. PICK m \in Nat, k \in Nat :
            Live(t, m, k) /\ p = CopyAt(t, m, k) /\ WriteSet(t, m)[k].obj = o
    BY <1>0, <1>4, <2>1 DEF LogInv, LockInv, Owned, OwnedBy
  <2>4. k \in DOMAIN WriteSet(t, m) /\ At(p) = WriteSet(t, m)[k] /\ Kept(t, m, k)
    BY <1>0, <2>3, LiveEntry DEF At, WriteSet, CopyAt, ValueInv, Values
  <2>5. Actual(p) = o /\ Contents(p) = At(p).val
    BY <2>1, <2>3, <2>4 DEF Actual, Contents
  <2>6. /\ ws_wb_counter[t] <= m /\ m <= ws_tail_counter[t]
        /\ ws_wb_counter[t] <= ws_tail_counter[t] /\ ws_tail_counter[t] \in Nat
    BY <1>0, <2>3, LiveEntry, CounterTypes DEF Ring, RingOf
  <2>7. CASE m = ws_tail_counter[t]
    <3>1. o \in Updated(w)
      BY <2>2, <2>3, <2>4, <2>7 DEF Updated
    <3>2. p.ws = WsCurId(w)
      BY <2>2, <2>3, <2>7 DEF CopyAt, WsCurId
    <3>3. At(p).val = data[o] \cup {<<t, n_starts[t]>>} /\ committed[o] = data[o]
      BY <1>1, <2>3, <2>4, <2>7 DEF Kept
    <3> QED
      BY <1>1, <1>4, <2>2, <2>5, <3>1, <3>2, <3>3 DEF NewCopy, Future
  <2>8. CASE m # ws_tail_counter[t]
    <3>1. p.ws # WsCurId(w)
      BY <1>0, <2>2, <2>3, <2>6, <2>8, LiveSlots DEF CopyAt, WsCurId
    <3>2. At(p).val = committed[o]
      BY <2>3, <2>4, <2>6, <2>8 DEF Kept
    <3> QED
      BY <1>1, <2>2, <2>5, <3>1, <3>2 DEF NewCopy, Walked
  <2> QED
    BY <2>7, <2>8
<1> QED
  BY <1>2, <1>3, <1>4 DEF Ptr

LEMMA UpdateFactsNow ==
    ASSUME NEW w \in Threads, Writers \subseteq {w}, RluInv(w)
    PROVE  UpdateFacts(w)
<1>0. /\ ValueInv /\ LogInv /\ TypeInv /\ Ring /\ DetectedOf(w)
      /\ data \in [Objs -> Value] /\ committed \in [Objs -> Value] /\ n_starts[w] \in Nat
  BY FlagTypes DEF RluInv, ValueInv, LogInv, Ring
<1> SUFFICES ASSUME InSection(w)
             PROVE  /\ ~is_write_detected[w] => Updated(w) = {}
                    /\ \A o \in Updated(w) : o \in Objs /\ p_obj_copy[o] # NULL
                    /\ \A o \in Objs : <<w, n_starts[w]>> \notin committed[o] \cup data[o]
                    /\ pc[w] = "copy" => committed[cur_obj[w]] = data[cur_obj[w]]
  BY DEF UpdateFacts
<1>1. ~is_write_detected[w] => Updated(w) = {}
  BY <1>0 DEF DetectedOf, Updated
<1>2. ASSUME NEW o \in Updated(w) PROVE o \in Objs /\ p_obj_copy[o] # NULL
  <2> DEFINE m == ws_tail_counter[w]
             ws == WriteSet(w, m)
  <2>0. m \in Nat /\ ws \in Seq(Entry)
    BY <1>0, CounterTypes, LenTypes
  <2>1. PICK k \in DOMAIN ws : o = ws[k].obj
    BY DEF Updated
  <2>2. k \in Nat \ {0} /\ k <= Len(ws) /\ ws[k] \in Entry
    BY <2>0, <2>1
  <2>3. First(w) <= m
    BY <1>0, CounterTypes DEF First, BackLabels, InSection, Ring, RingOf
  <2>4. Live(w, m, k)
    BY <2>0, <2>2, <2>3 DEF Live, InSection, BackLabels
  <2>5. p_obj_copy[o] = CopyAt(w, m, k) /\ CopyAt(w, m, k) # NULL
    BY <1>0, <2>1, <2>4, LiveEntry DEF LogInv, LockInv, Locking
  <2> QED
    BY <2>1, <2>2, <2>5 DEF Entry
<1>3. ASSUME NEW o \in Objs PROVE <<w, n_starts[w]>> \notin committed[o] \cup data[o]
  <2>1. Numbered(w) /\ ~(n_starts[w] < n_starts[w])
    BY <1>0 DEF Numbered
  <2>2. <<w, n_starts[w]>> \notin committed[o]
    BY <1>0, <2>1 DEF RluInv, SnapInv, NewUpdates
  <2> QED
    BY <2>2 DEF RluInv, Older
<1>4. pc[w] = "copy" => committed[cur_obj[w]] = data[cur_obj[w]]
  BY <1>0 DEF ValueInv, Values
<1> QED
  BY <1>1, <1>2, <1>3, <1>4

LEMMA QuietFactsNow ==
    ASSUME NEW w \in Threads, Writers \subseteq {w}, RluInv(w)
    PROVE  QuietFacts(w)
<1>0. /\ ValueInv /\ LogInv /\ TypeInv /\ Ring /\ RingOf(w) /\ Bystanders
      /\ data \in [Objs -> Value] /\ committed \in [Objs -> Value]
      /\ snap \in [Threads -> [Objs -> Value]]
      /\ p_obj_copy \in [Objs -> Addr \cup {NULL}]
  BY FlagTypes, CopyTypes DEF RluInv, ValueInv, LogInv, Ring
<1>1. Store = IF Publishing(w) THEN committed ELSE data
  BY <1>0, StoreIs
<1>2. ASSUME ~Publishing(w), NEW t \in Threads, InSection(t) PROVE snap[t] = data
  <2>1. ASSUME NEW o \in Objs PROVE snap[t][o] = data[o]
    <3>1. p_obj_copy[o] # NULL => p_obj_copy[o].th = w
      BY <1>0, LockedByWriter
    <3> QED
      BY <1>2, <3>1 DEF RluInv, SnapInv, Viewed, Shown, Reads
  <2>2. snap[t] \in [Objs -> Value]
    BY <1>0
  <2> QED
    BY <1>0, <2>1, <2>2
<1>3. \A o \in Objs : p_obj_copy[o] = NULL => data[o] = committed[o]
  BY <1>0 DEF ValueInv, Values
<1>4. ASSUME pc[w] \in {"commit", "sync_end", "done"}
      PROVE  data = committed /\ \A o \in Objs : p_obj_copy[o] = NULL
  <2>1. ASSUME NEW o \in Objs PROVE p_obj_copy[o] = NULL
    <3> SUFFICES ASSUME p_obj_copy[o] # NULL PROVE FALSE
      OBVIOUS
    <3>1. PICK c \in Addr : p_obj_copy[o] = c /\ c.th = w
      BY <1>0, LockedByWriter
    <3>2. PICK m \in Nat, k \in Nat : Live(w, m, k)
      BY <1>0, <1>4, <3>1, HeaderLive
    <3>3. ws_wb_counter[w] = ws_tail_counter[w]
      <4>1. CASE pc[w] = "done"
        <5>1. ws_head_counter[w] = ws_tail_counter[w]
          BY <4>1 DEF RluInv, StealInv, Finishing, FinishingOf
        <5>2. /\ ws_head_counter[w] \in Nat /\ ws_wb_counter[w] \in Nat /\ ws_tail_counter[w] \in Nat
              /\ ws_head_counter[w] <= ws_wb_counter[w] /\ ws_wb_counter[w] <= ws_tail_counter[w]
          BY <1>0, CounterTypes DEF RingOf
        <5> QED
          BY <5>1, <5>2
      <4>2. CASE pc[w] # "done"
        BY <1>0, <1>4, <4>2 DEF RingOf
      <4> QED
        BY <4>1, <4>2
    <3> QED
      BY <1>0, <1>4, <3>2, <3>3, CounterTypes DEF Live, First, BackLabels, InSection
  <2> QED
    BY <1>0, <1>3, <2>1
<1>5. ASSUME NEW t \in Threads, NEW o \in Objs
      PROVE  (IF Mine(t, o) THEN At(p_obj_copy[o]).val ELSE Published(o))
                = IF t = w THEN committed[o] ELSE Store[o]
  <2>0. Published(o) = Store[o]
    BY DEF Store
  <2>1. CASE p_obj_copy[o] = NULL
    <3>1. Published(o) = data[o] /\ ~Mine(t, o)
      BY <2>1 DEF Published, Mine
    <3> QED
      BY <1>3, <2>0, <2>1, <3>1
  <2>2. CASE p_obj_copy[o] # NULL
    <3>1. PICK c \in Addr : p_obj_copy[o] = c /\ c.th = w
      BY <1>0, <2>2, LockedByWriter
    <3>2. CASE t # w
      BY <2>0, <3>1, <3>2 DEF Mine
    <3>3. CASE t = w
      <4>1. CASE pc[w] = "copy" /\ Installing(w, o, c)
        <5>1. c = NextCopy(w)
          BY <1>0, <4>1 DEF Installing, Ring, DetectedOf
        <5>2. c.ws = WsCurId(w) /\ ~Publishing(w)
          BY <4>1, <5>1 DEF NextCopy, Publishing
        <5>3. committed[o] = data[o]
          BY <1>0, <4>1 DEF ValueInv, Values, Installing
        <5> QED
          BY <1>1, <2>0, <3>1, <3>3, <5>2, <5>3 DEF Mine
      <4>2. CASE ~Installing(w, o, c)
        <5>1. PICK m \in Nat, k \in Nat :
                  Live(w, m, k) /\ c = CopyAt(w, m, k) /\ WriteSet(w, m)[k].obj = o
          BY <1>0, <3>1, <4>2 DEF LogInv, LockInv, Owned, OwnedBy
        <5>2. /\ k \in DOMAIN WriteSet(w, m) /\ At(c) = WriteSet(w, m)[k] /\ Kept(w, m, k)
              /\ Complete(c)
          BY <1>0, <5>1, LiveEntry DEF At, WriteSet, CopyAt, ValueInv, Values, Complete
        <5>3. /\ ws_wb_counter[w] <= m /\ m <= ws_tail_counter[w]
              /\ ws_wb_counter[w] <= ws_tail_counter[w] /\ ws_tail_counter[w] \in Nat
          BY <1>0, <5>1, LiveEntry, CounterTypes DEF RingOf
        <5>4. CASE m = ws_tail_counter[w]
          <6>1. c.ws = WsCurId(w) /\ committed[o] = data[o] /\ ~Publishing(w)
            BY <5>1, <5>2, <5>4 DEF CopyAt, WsCurId, Kept, Live, Publishing, InSection
          <6> QED
            BY <1>1, <2>0, <3>1, <3>3, <6>1 DEF Mine
        <5>5. CASE m # ws_tail_counter[w]
          <6>1. c.ws # WsCurId(w)
            BY <1>0, <5>1, <5>3, <5>5, LiveSlots DEF CopyAt, WsCurId
          <6>2. At(c).val = committed[o]
            BY <5>1, <5>2, <5>3, <5>5 DEF Kept
          <6> QED
            BY <2>2, <3>1, <3>3, <5>2, <6>1, <6>2 DEF Mine
        <5> QED
          BY <5>4, <5>5
      <4> QED
        BY <4>1, <4>2 DEF Installing
    <3> QED
      BY <3>2, <3>3
  <2> QED
    BY <2>1, <2>2
<1>6. ASSUME NEW t \in Threads PROVE OwnContents(t) = IF t = w THEN committed ELSE Store
  <2>1. \A o \in Objs : OwnContents(t)[o] = IF t = w THEN committed[o] ELSE Store[o]
    BY <1>5 DEF OwnContents
  <2> QED
    BY <1>0, <1>1, <2>1 DEF OwnContents
<1> QED
  BY <1>1, <1>2, <1>3, <1>4, <1>6 DEF QuietFacts

LEMMA FactsNow ==
    ASSUME NEW w \in Threads, Writers \subseteq {w}
    PROVE  RluInv(w) => Facts(w)
<1> SUFFICES ASSUME RluInv(w) PROVE Facts(w)
  OBVIOUS
<1>1. LogInv /\ TypeInv /\ Bystanders /\ ValueInv
  BY DEF RluInv, ValueInv, LogInv
<1>2. Store = IF Publishing(w) THEN committed ELSE data
  BY <1>1, StoreIs
<1>3. TypeFacts
  BY <1>1, <1>2, FlagTypes, VersionTypes DEF TypeFacts
<1> QED
  BY <1>3, RefFactsNow, UpdateFactsNow, QuietFactsNow DEF Facts

LEMMA FactsNext ==
    ASSUME NEW w \in Threads, Writers \subseteq {w}
    PROVE  RluInv(w)' => Facts(w)'
<1>1. RluInv(w) => Facts(w)
  BY FactsNow
<1> QED
  BY <1>1, PTL

-----------------------------------------------------------------------------
(* What a step changes of what sections read. *)

LEMMA CommittedStep ==
    ASSUME NEW w \in Threads, Writers \subseteq {w}, RluInv(w), NEW u \in Threads, Thread(u)
    PROVE  /\ UNCHANGED committed \/ (u = w /\ CommitUnlock(w) /\ committed' = Future(w))
           /\ InSection(w)' => UNCHANGED committed
<1>0. TypeInv /\ Bystanders /\ committed \in [Objs -> Value]
  BY FlagTypes DEF RluInv, ValueInv, LogInv
<1>1. UNCHANGED committed \/ (u = w /\ CommitUnlock(w))
  <2>1. CASE CommitUnlock(u)
    <3>1. u = w
      BY <1>0, <2>1 DEF CommitUnlock, Bystanders, Bystander
    <3> QED
      BY <2>1, <3>1
  <2>2. CASE ReaderLock(u)
    BY <2>2 DEF ReaderLock
  <2> QED
    BY <1>0, <2>1, <2>2, NumberSteps
<1>2. ASSUME CommitUnlock(w) PROVE committed' = Future(w) /\ ~InSection(w)'
  <2>1. committed' = Future(w)
    BY <1>2 DEF CommitUnlock, Future
  <2>2. pc'[w] \in {"load", "release_prev"}
    BY <1>0, <1>2, CounterTypes DEF CommitUnlock, SyncCall, Goto
  <2> QED
    BY <2>1, <2>2 DEF InSection
<1> QED
  BY <1>1, <1>2

LEMMA StoreStep ==
    ASSUME NEW w \in Threads, Writers \subseteq {w}, RluInv(w), RluInv(w)',
           NEW u \in Threads, Thread(u)
    PROVE  Store' = Store \/ Store' = committed'
<1>0. TypeInv /\ Bystanders /\ ValueInv /\ QuietFacts(w) /\ QuietFacts(w)'
  BY FactsNow, FactsNext DEF RluInv, ValueInv, LogInv, Facts
<1>1. CASE Publishing(w)'
  BY <1>0, <1>1 DEF QuietFacts
<1>2. CASE ~Publishing(w)' /\ Publishing(w)
  <2>1. SyncUnstamp(w)
    <3>1. u = w
      BY <1>0, <1>2, Others DEF Same, Publishing
    <3> QED
      BY <1>0, <1>2, <3>1, RoleSteps, CounterTypes DEF SyncBump, Goto, Publishing
  <2>2. pc'[w] = "commit"
    BY <1>0, <2>1, CounterTypes DEF SyncUnstamp, Goto
  <2> QED
    BY <1>0, <1>2, <2>2 DEF QuietFacts
<1>3. CASE ~Publishing(w)' /\ ~Publishing(w)
  <2>1. ~Writeback(u)
    <3> SUFFICES ASSUME Writeback(u) PROVE FALSE
      OBVIOUS
    <3>1. u = w
      BY <1>0, BackSteps, LockedByWriter DEF ValueInv
    <3> QED
      BY <1>3, <3>1 DEF Writeback, Publishing
  <2>2. UNCHANGED data
    BY <1>0, <2>1, DataSteps
  <2> QED
    BY <1>0, <1>3, <2>2 DEF QuietFacts
<1> QED
  BY <1>1, <1>2, <1>3

\* A section starts with what is published, and what it reads stays.
LEMMA WalkedStep ==
    ASSUME NEW w \in Threads, Writers \subseteq {w}, RluInv(w), RluInv(w)',
           NEW u \in Threads, Thread(u), NEW t \in Threads, InSection(t)'
    PROVE  \/ /\ t = u /\ ReadVersion(t) /\ refs'[t] = {}
              /\ Walked(w, t)' = IF t = w THEN committed ELSE Store
              /\ UNCHANGED committed
           \/ InSection(t) /\ Walked(w, t)' = Walked(w, t)
<1>0. /\ TypeInv /\ Taken
      /\ snap \in [Threads -> [Objs -> Value]] /\ refs \in [Threads -> SUBSET (Objs \X Ptr)]
  BY FlagTypes, VersionTypes DEF RluInv, ValueInv, LogInv, StealInv
<1>1. t = w => UNCHANGED committed
  BY CommittedStep
<1>2. CASE ReadVersion(t) /\ t = u
  <2>1. snap' = [snap EXCEPT ![t] = Store] /\ UNCHANGED <<refs, committed>>
    BY <1>2 DEF ReadVersion, Store
  <2>2. refs[t] = {}
    BY <1>0, <1>2 DEF Taken, ReadVersion, InSection
  <2>3. snap'[t] = Store
    BY <1>0, <2>1
  <2> QED
    BY <1>1, <1>2, <2>1, <2>2, <2>3 DEF Walked
<1>3. CASE t = u /\ ~ReadVersion(t)
  <2>1. InSection(t) /\ snap'[t] = snap[t]
    BY <1>0, <1>3, SectionSteps DEF GoesOn
  <2> QED
    BY <1>1, <2>1 DEF Walked
<1>4. CASE t # u
  <2>1. InSection(t) /\ snap'[t] = snap[t]
    BY <1>0, <1>4, Others, OtherFlags DEF Same, InSection
  <2> QED
    BY <1>1, <2>1 DEF Walked
<1> QED
  BY <1>2, <1>3, <1>4

\* The copies of the section in progress.
LEMMA UpdatedStep ==
    ASSUME NEW w \in Threads, Writers \subseteq {w}, RluInv(w), RluInv(w)',
           NEW u \in Threads, Thread(u), InSection(w)', ~TryLockCopy(w)
    PROVE  \/ ReadVersion(w) /\ ~is_write_detected'[w] /\ Updated(w)' = {}
           \/ InSection(w) /\ Updated(w)' = Updated(w) /\ Future(w)' = Future(w)
<1>0. TypeInv /\ UpdateFacts(w)' /\ UNCHANGED committed /\ DetectedOf(w)'
  BY FactsNext, CommittedStep DEF RluInv, ValueInv, LogInv, Facts, Ring
<1>1. CASE u = w /\ ReadVersion(w)
  <2>1. pc'[w] = "commit_version"
    BY <1>0, <1>1, CounterTypes DEF ReadVersion, Goto
  <2> QED
    BY <1>0, <1>1, <2>1 DEF UpdateFacts, DetectedOf
<1>2. CASE ~(u = w /\ ReadVersion(w))
  <2>1. InSection(w) /\ n_starts'[w] = n_starts[w]
    BY <1>0, <1>2, SectionSteps, Others DEF GoesOn, Same, InSection
  <2>2. ws_tail_counter'[w] = ws_tail_counter[w] /\ obj_write_set'[w] = obj_write_set[w]
    <3>1. CASE u # w
      BY <1>0, <3>1, Others DEF Same
    <3>2. CASE u = w
      <4>1. ~CommitUnlock(w)
        BY <1>0, <3>2, CounterTypes DEF CommitUnlock, SyncCall, Goto, InSection
      <4>2. ~ReleaseEnd(w) /\ ~ResetWriteSets(w) /\ ~SyncUnstamp(w)
        BY <2>1 DEF InSection, ReleaseEnd, Releasing, ResetWriteSets, SyncUnstamp
      <4> QED
        BY <1>0, <3>2, <4>1, <4>2, RingSteps
    <3> QED
      BY <3>1, <3>2
  <2>3. WriteSet(w, ws_tail_counter[w])' = WriteSet(w, ws_tail_counter[w])
    BY <2>2 DEF WriteSet
  <2>4. Updated(w)' = Updated(w)
    BY <2>3 DEF Updated
  <2> QED
    BY <1>0, <2>1, <2>4 DEF Future
<1> QED
  BY <1>1, <1>2

-----------------------------------------------------------------------------
(* B. Lists. *)

\* The link and the key of block o of m when every block has the contents in c.
Link(m, c, o) == m[o][c[o]].p_next
Key(m, c, o) == m[o][c[o]].val

LinksStay(m, c, T) == \A o \in T \ {p_max_node} : Link(m, c, o) \in T

\* S is the set of the blocks of a list, sorted, from the head to the tail: no
\* proper subset has the head and the blocks that its blocks lead to.
IsList(m, c, S) ==
    /\ S \subseteq Objs /\ p_min_node \in S /\ p_max_node \in S
    /\ \A o \in S : c[o] \in DOMAIN m[o] /\ m[o][c[o]] \in NodeType
    /\ Key(m, c, p_min_node) = LIST_VAL_MIN /\ Key(m, c, p_max_node) = LIST_VAL_MAX
    /\ Link(m, c, p_max_node) = NULL
    /\ LinksStay(m, c, S)
    /\ \A o \in S \ {p_max_node} : Key(m, c, o) < Key(m, c, Link(m, c, o))
    /\ \A o, p \in S \ {p_max_node} : Link(m, c, o) = Link(m, c, p) => o = p
    /\ \A T \in SUBSET S : (p_min_node \in T /\ LinksStay(m, c, T)) => T = S

LEMMA KeysOrdered ==
    ASSUME NEW m, NEW c, NEW S, IsList(m, c, S), NEW o \in S
    PROVE  Key(m, c, o) \in Int /\ Link(m, c, o) \in Objs \cup {NULL}
BY ListAssumption DEF IsList, Key, Link, NodeType

LEMMA ListUnique ==
    ASSUME NEW m, NEW c, NEW S, NEW T, IsList(m, c, S), IsList(m, c, T)
    PROVE  S = T
<1> DEFINE U == S \cap T
<1>1. p_min_node \in U /\ LinksStay(m, c, U) /\ U \in SUBSET S /\ U \in SUBSET T
  BY DEF IsList, LinksStay
<1>2. U = S /\ U = T
  BY <1>1 DEF IsList
<1> QED
  BY <1>2

\* A list stays one when its blocks keep their nodes.
LEMMA ListSame ==
    ASSUME NEW m, NEW c, NEW S, IsList(m, c, S), NEW m2, NEW c2,
           \A o \in S : c2[o] \in DOMAIN m2[o] /\ m2[o][c2[o]] = m[o][c[o]]
    PROVE  IsList(m2, c2, S)
<1>1. \A o \in S : Key(m2, c2, o) = Key(m, c, o) /\ Link(m2, c2, o) = Link(m, c, o)
  BY DEF Key, Link
<1>2. /\ S \subseteq Objs /\ p_min_node \in S /\ p_max_node \in S
      /\ \A o \in S : c2[o] \in DOMAIN m2[o] /\ m2[o][c2[o]] \in NodeType
  BY DEF IsList
<1>3. \A T \in SUBSET S : LinksStay(m2, c2, T) <=> LinksStay(m, c, T)
  BY <1>1 DEF LinksStay
<1>4. /\ Key(m2, c2, p_min_node) = LIST_VAL_MIN /\ Key(m2, c2, p_max_node) = LIST_VAL_MAX
      /\ Link(m2, c2, p_max_node) = NULL
  BY <1>1, <1>2 DEF IsList
<1>5. LinksStay(m2, c2, S)
  BY <1>3 DEF IsList
<1>6. \A o \in S \ {p_max_node} : Key(m2, c2, o) < Key(m2, c2, Link(m2, c2, o))
  BY <1>1, <1>5 DEF IsList, LinksStay
<1>7. \A o, p \in S \ {p_max_node} : Link(m2, c2, o) = Link(m2, c2, p) => o = p
  BY <1>1 DEF IsList
<1>8. \A T \in SUBSET S : (p_min_node \in T /\ LinksStay(m2, c2, T)) => T = S
  BY <1>3 DEF IsList
<1> QED
  BY <1>2, <1>4, <1>5, <1>6, <1>7, <1>8 DEF IsList

\* A new block is linked behind prev.
LEMMA ListInsert ==
    ASSUME NEW m, NEW c, NEW S, IsList(m, c, S), NEW m2,
           NEW prev \in S \ {p_max_node}, NEW new \in Objs \ S, NEW key \in Keys,
           Key(m, c, prev) < key, key < Key(m, c, Link(m, c, prev)),
           \A o \in S \ {prev} : c[o] \in DOMAIN m2[o] /\ m2[o][c[o]] = m[o][c[o]],
           c[prev] \in DOMAIN m2[prev], c[new] \in DOMAIN m2[new],
           m2[prev][c[prev]] = [val |-> Key(m, c, prev), p_next |-> new],
           m2[new][c[new]] = [val |-> key, p_next |-> Link(m, c, prev)]
    PROVE  IsList(m2, c, S \cup {new})
<1> DEFINE next == Link(m, c, prev)
           S2 == S \cup {new}
<1>0. /\ S \subseteq Objs /\ p_min_node \in S /\ p_max_node \in S /\ next \in S
      /\ \A o \in S : m[o][c[o]] \in NodeType
      /\ key \in Int /\ NULL \notin Objs /\ p_min_node # p_max_node
  BY ListAssumption, ObjectsAssumption DEF IsList, LinksStay
<1>1. /\ \A o \in S \ {prev} : Key(m2, c, o) = Key(m, c, o) /\ Link(m2, c, o) = Link(m, c, o)
      /\ Key(m2, c, prev) = Key(m, c, prev) /\ Link(m2, c, prev) = new
      /\ Key(m2, c, new) = key /\ Link(m2, c, new) = next
  BY DEF Key, Link
<1>2. \A o \in S2 : c[o] \in DOMAIN m2[o] /\ m2[o][c[o]] \in NodeType
  <2>1. \A o \in S \ {prev} : c[o] \in DOMAIN m2[o] /\ m2[o][c[o]] \in NodeType
    BY <1>0
  <2>2. m2[prev][c[prev]] \in NodeType /\ m2[new][c[new]] \in NodeType
    BY <1>0 DEF NodeType, Key
  <2> QED
    BY <2>1, <2>2
<1>3. /\ Key(m2, c, p_min_node) = LIST_VAL_MIN /\ Key(m2, c, p_max_node) = LIST_VAL_MAX
      /\ Link(m2, c, p_max_node) = NULL
  BY <1>0, <1>1 DEF IsList
<1>4. LinksStay(m2, c, S2)
  BY <1>0, <1>1 DEF IsList, LinksStay
<1>5. ASSUME NEW o \in S2 \ {p_max_node} PROVE Key(m2, c, o) < Key(m2, c, Link(m2, c, o))
  <2>1. CASE o = prev
    BY <1>1, <2>1
  <2>2. CASE o = new
    <3>1. Key(m2, c, next) = Key(m, c, next)
      BY <1>0, <1>1
    <3> QED
      BY <1>1, <2>2, <3>1
  <2>3. CASE o \in S \ {prev}
    <3>1. Link(m, c, o) \in S /\ Key(m, c, o) < Key(m, c, Link(m, c, o))
      BY <2>3, <1>5 DEF IsList, LinksStay
    <3>2. Key(m2, c, Link(m, c, o)) = Key(m, c, Link(m, c, o))
      BY <1>1, <3>1
    <3> QED
      BY <1>1, <2>3, <3>1, <3>2
  <2> QED
    BY <2>1, <2>2, <2>3
<1>6. ASSUME NEW o \in S2 \ {p_max_node}, NEW p \in S2 \ {p_max_node},
             Link(m2, c, o) = Link(m2, c, p)
      PROVE  o = p
  <2>1. \A q \in S \ {p_max_node} : Link(m, c, q) \in S /\ (Link(m, c, q) = next => q = prev)
    BY DEF IsList, LinksStay
  <2>2. \A q, r \in S \ {p_max_node} : Link(m, c, q) = Link(m, c, r) => q = r
    BY DEF IsList
  <2> QED
    BY <1>0, <1>1, <1>6, <2>1, <2>2
<1>7. ASSUME NEW T \in SUBSET S2, p_min_node \in T, LinksStay(m2, c, T) PROVE T = S2
  <2> DEFINE U == T \ {new}
  <2>1. U \in SUBSET S /\ p_min_node \in U
    BY <1>0, <1>7
  <2>2. ASSUME NEW q \in U \ {p_max_node} PROVE Link(m, c, q) \in U
    <3>1. Link(m, c, q) \in S
      BY <2>1 DEF IsList, LinksStay
    <3>2. CASE q # prev
      BY <1>1, <1>7, <2>1, <3>1, <3>2 DEF LinksStay
    <3>3. CASE q = prev
      <4>1. new \in T
        BY <1>1, <1>7, <3>3 DEF LinksStay
      <4>2. next \in T
        BY <1>0, <1>1, <1>7, <4>1 DEF LinksStay
      <4> QED
        BY <3>1, <3>3, <4>2
    <3> QED
      BY <3>2, <3>3
  <2>3. U = S
    BY <2>1, <2>2 DEF IsList, LinksStay
  <2>4. new \in T
    BY <1>1, <1>7, <2>3 DEF LinksStay
  <2> QED
    BY <2>3, <2>4
<1> HIDE DEF S2
<1>8. S2 \subseteq Objs /\ p_min_node \in S2 /\ p_max_node \in S2
  BY <1>0 DEF S2
<1>9. IsList(m2, c, S2)
  BY <1>2, <1>3, <1>4, <1>5, <1>6, <1>7, <1>8 DEF IsList
<1> QED
  BY <1>9 DEF S2

\* The block behind prev is unlinked.
LEMMA ListRemove ==
    ASSUME NEW m, NEW c, NEW S, IsList(m, c, S), NEW m2,
           NEW prev \in S \ {p_max_node}, Link(m, c, prev) # p_max_node,
           \A o \in S \ {prev} : c[o] \in DOMAIN m2[o] /\ m2[o][c[o]] = m[o][c[o]],
           c[prev] \in DOMAIN m2[prev],
           m2[prev][c[prev]] =
               [val |-> Key(m, c, prev), p_next |-> Link(m, c, Link(m, c, prev))]
    PROVE  IsList(m2, c, S \ {Link(m, c, prev)})
<1> DEFINE next == Link(m, c, prev)
           last == Link(m, c, next)
           S2 == S \ {next}
<1>0. /\ S \subseteq Objs /\ p_min_node \in S /\ p_max_node \in S
      /\ next \in S \ {p_max_node} /\ last \in S
      /\ \A o \in S : m[o][c[o]] \in NodeType /\ Key(m, c, o) \in Int
      /\ NULL \notin Objs /\ p_min_node # p_max_node
  BY ListAssumption, ObjectsAssumption, KeysOrdered DEF IsList, LinksStay
<1>1. Key(m, c, prev) < Key(m, c, next) /\ Key(m, c, next) < Key(m, c, last)
  BY <1>0 DEF IsList
<1>2. next # prev /\ last # next /\ last # prev /\ Key(m, c, prev) < Key(m, c, last)
  BY <1>0, <1>1
<1>3. next # p_min_node
  <2> SUFFICES ASSUME next = p_min_node PROVE FALSE
    OBVIOUS
  <2>1. Key(m, c, next) = LIST_VAL_MIN
    BY DEF IsList
  <2>2. m[prev][c[prev]].val \in Keys \cup {LIST_VAL_MIN, LIST_VAL_MAX}
    BY <1>0 DEF NodeType
  <2>3. Key(m, c, prev) >= LIST_VAL_MIN
    BY <2>2, ListAssumption DEF Key
  <2> QED
    BY <1>0, <1>1, <2>1, <2>3, ListAssumption
<1>4. /\ \A o \in S \ {prev} : Key(m2, c, o) = Key(m, c, o) /\ Link(m2, c, o) = Link(m, c, o)
      /\ Key(m2, c, prev) = Key(m, c, prev) /\ Link(m2, c, prev) = last
  <2>1. ASSUME NEW o \in S \ {prev}
        PROVE  Key(m2, c, o) = Key(m, c, o) /\ Link(m2, c, o) = Link(m, c, o)
    <3>1. m2[o][c[o]] = m[o][c[o]]
      BY <2>1
    <3> QED
      BY <3>1 DEF Key, Link
  <2>2. /\ m2[prev][c[prev]].val = Key(m, c, prev)
        /\ m2[prev][c[prev]].p_next = last
    OBVIOUS
  <2>3. Key(m2, c, prev) = Key(m, c, prev)
    BY <2>2 DEF Key
  <2>4. Link(m2, c, prev) = last
    BY <2>2 DEF Link
  <2> QED
    BY <2>1, <2>3, <2>4
<1>5. \A o \in S2 : c[o] \in DOMAIN m2[o] /\ m2[o][c[o]] \in NodeType
  <2>1. \A o \in S \ {prev} : c[o] \in DOMAIN m2[o] /\ m2[o][c[o]] \in NodeType
    BY <1>0
  <2>2. m2[prev][c[prev]] \in NodeType
    BY <1>0 DEF NodeType, Key
  <2> QED
    BY <2>1, <2>2
<1>6. /\ Key(m2, c, p_min_node) = LIST_VAL_MIN /\ Key(m2, c, p_max_node) = LIST_VAL_MAX
      /\ Link(m2, c, p_max_node) = NULL
  BY <1>0, <1>4 DEF IsList
<1>7. \A q \in S \ {p_max_node} : Link(m, c, q) \in S /\ (Link(m, c, q) = next => q = prev)
  BY DEF IsList, LinksStay
<1>8. LinksStay(m2, c, S2)
  BY <1>0, <1>2, <1>4, <1>7 DEF LinksStay
<1>9. ASSUME NEW o \in S2 \ {p_max_node} PROVE Key(m2, c, o) < Key(m2, c, Link(m2, c, o))
  <2>1. CASE o = prev
    <3>1. Key(m2, c, last) = Key(m, c, last)
      BY <1>0, <1>2, <1>4
    <3> QED
      BY <1>2, <1>4, <2>1, <3>1
  <2>2. CASE o # prev
    <3>1. Link(m, c, o) \in S /\ Key(m, c, o) < Key(m, c, Link(m, c, o))
      BY <1>9 DEF IsList, LinksStay
    <3>2. Key(m2, c, Link(m, c, o)) = Key(m, c, Link(m, c, o))
      BY <1>4, <3>1
    <3> QED
      BY <1>4, <2>2, <3>1, <3>2
  <2> QED
    BY <2>1, <2>2
<1>10. ASSUME NEW o \in S2 \ {p_max_node}, NEW p \in S2 \ {p_max_node},
              Link(m2, c, o) = Link(m2, c, p)
       PROVE  o = p
  <2>1. \A q, r \in S \ {p_max_node} : Link(m, c, q) = Link(m, c, r) => q = r
    BY DEF IsList
  <2>2. o # prev /\ p # prev => o = p
    BY <1>4, <1>10, <2>1
  <2>3. ASSUME NEW q \in S2 \ {p_max_node}, q # prev PROVE Link(m2, c, q) # last
    BY <1>0, <1>4, <2>1, <2>3
  <2> QED
    BY <1>4, <1>10, <2>2, <2>3
<1>11. ASSUME NEW T \in SUBSET S2, p_min_node \in T, LinksStay(m2, c, T) PROVE T = S2
  <2> DEFINE U == IF prev \in T THEN T \cup {next} ELSE T
  <2>1. U \in SUBSET S /\ p_min_node \in U
    BY <1>0, <1>11
  <2>2. ASSUME NEW q \in U \ {p_max_node} PROVE Link(m, c, q) \in U
    <3>1. CASE q = prev
      BY <1>2, <1>11, <2>2, <3>1
    <3>2. CASE q = next
      <4>1. prev \in T
        BY <1>11, <2>2, <3>2
      <4>2. last \in T
        BY <1>4, <1>11, <4>1 DEF LinksStay
      <4> QED
        BY <3>2, <4>2
    <3>3. CASE q # prev /\ q # next
      <4>1. q \in T /\ q \in S
        BY <1>11, <2>2, <3>3
      <4> QED
        BY <1>4, <1>11, <2>2, <3>3, <4>1 DEF LinksStay
    <3> QED
      BY <3>1, <3>2, <3>3
  <2>3. U = S
    BY <2>1, <2>2 DEF IsList, LinksStay
  <2> QED
    BY <1>0, <1>11, <2>3
<1> HIDE DEF S2
<1>12. S2 \subseteq Objs /\ p_min_node \in S2 /\ p_max_node \in S2
  BY <1>0, <1>3 DEF S2
<1>13. IsList(m2, c, S2)
  BY <1>5, <1>6, <1>8, <1>9, <1>10, <1>11, <1>12 DEF IsList
<1> QED
  BY <1>13 DEF S2

\* The blocks that Chain finds are those of the list.
LEMMA ChainOfList ==
    ASSUME NEW c, NEW S, IsList(mem, c, S)
    PROVE  Chain(c) = S
<1>0. /\ S \subseteq Objs /\ p_min_node \in S /\ p_max_node \in S /\ NULL \notin Objs
      /\ Link(mem, c, p_max_node) = NULL
  BY ObjectsAssumption DEF IsList
<1>1. S \subseteq Nodes(c)
  BY <1>0 DEF IsList, Nodes
<1>2. ASSUME NEW o \in Chain(c), o \notin S PROVE FALSE
  <2>1. S \in SUBSET (Nodes(c) \ {o})
    BY <1>1, <1>2
  <2>2. PICK q \in S : mem[q][c[q]].p_next \notin S \cup {NULL}
    BY <1>0, <2>1 DEF Chain
  <2> QED
    BY <1>0, <2>2 DEF IsList, LinksStay, Link
<1>3. ASSUME NEW o \in S PROVE o \in Chain(c)
  <2> SUFFICES ASSUME NEW T \in SUBSET (Nodes(c) \ {o}), p_min_node \in T,
                      \A q \in T : mem[q][c[q]].p_next \in T \cup {NULL}
               PROVE  FALSE
    BY <1>1 DEF Chain
  <2> DEFINE U == T \cap S
  <2>1. U \in SUBSET S /\ p_min_node \in U
    BY <1>0
  <2>2. LinksStay(mem, c, U)
    BY <1>0 DEF LinksStay, IsList, Link
  <2>3. U = S
    BY <2>1, <2>2 DEF IsList
  <2> QED
    BY <2>3
<1> QED
  BY <1>2, <1>3

-----------------------------------------------------------------------------
(* The list at the start. *)

\* Induction over an interval: the counterexamples up to u, each moved down by
\* one, would be as many, and u would not be among them.
LEMMA StepsUp ==
    ASSUME NEW N \in Nat, NEW S, N >= 1 => 1 \in S, \A k \in 1 .. N - 1 : k \in S => k + 1 \in S
    PROVE  1 .. N \subseteq S
<1>1. SUFFICES ASSUME NEW u \in 1 .. N, u \notin S PROVE FALSE
  OBVIOUS
<1> DEFINE W == (1 .. u) \ S
           V == W \ {u}
           f == [x \in W |-> x - 1]
<1>2. \A x \in W : x - 1 \in V
  <2> SUFFICES ASSUME NEW x \in W PROVE x - 1 \in V
    OBVIOUS
  <2>1. x \in 1 .. u /\ x \notin S /\ u \in Int /\ N >= u
    BY <1>1
  <2>2. x # 1
    BY <2>1
  <2>3. x - 1 \in 1 .. N - 1 /\ x - 1 \in 1 .. u /\ x - 1 # u /\ (x - 1) + 1 = x
    BY <2>1, <2>2
  <2> QED
    BY <2>1, <2>3
<1>3. f \in [W -> V]
  BY <1>2
<1>4. IsFiniteSet(W) /\ u \in W
  BY <1>1, FS_Interval, FS_Subset
<1>5. IsFiniteSet(V) /\ Cardinality(W) \in Nat /\ Cardinality(V) = Cardinality(W) - 1
  BY <1>4, FS_RemoveElement, FS_CardinalityType
<1>6. \A x, y \in W : x # y => f[x] # f[y]
  OBVIOUS
<1>7. Cardinality(V) < Cardinality(W)
  BY <1>5
<1> HIDE DEF W, V, f
<1>8. \E x, y \in W : x # y /\ f[x] = f[y]
  BY <1>3, <1>4, <1>5, <1>7, FS_PigeonHole
<1> QED
  BY <1>6, <1>8

LEMMA LeastNumber ==
    ASSUME NEW T, T \subseteq Nat, T # {}
    PROVE  \E m \in T : \A k \in T : m <= k
<1> SUFFICES ASSUME \A m \in T : \E k \in T : k < m PROVE FALSE
  OBVIOUS
<1>1. PICK u \in T : TRUE
  OBVIOUS
<1> DEFINE S == {m \in Nat : \A k \in T : m <= k + 1}
           N == u + 2
<1>2. N \in Nat /\ 1 \in S
  BY <1>1
<1>3. ASSUME NEW m \in 1 .. N - 1, m \in S PROVE m + 1 \in S
  <2> SUFFICES ASSUME NEW k \in T PROVE m + 1 <= k + 1
    BY <1>3
  <2>1. PICK j \in T : j < k
    OBVIOUS
  <2> QED
    BY <1>3, <2>1
<1> HIDE DEF S, N
<1>4. 1 .. N \subseteq S
  BY <1>2, <1>3, StepsUp
<1>5. N \in 1 .. N /\ N = u + 2 /\ u \in Nat
  BY <1>1, <1>2 DEF N
<1>6. N \in S
  BY <1>4, <1>5
<1> QED
  BY <1>1, <1>5, <1>6 DEF S

\* The nodes of ListInit, and their keys.
Used == {p_min_node, p_max_node} \cup DOMAIN Initial

InitialKey(p) ==
    IF p = p_min_node THEN LIST_VAL_MIN ELSE IF p = p_max_node THEN LIST_VAL_MAX ELSE Initial[p]

LaterThan(o) == {p \in {p_max_node} \cup DOMAIN Initial : InitialKey(p) > InitialKey(o)}

LEMMA InitialKeys ==
    /\ \A p \in Used : /\ InitialKey(p) \in Keys \cup {LIST_VAL_MIN, LIST_VAL_MAX}
                       /\ InitialKey(p) \in Int
                       /\ LIST_VAL_MIN <= InitialKey(p) /\ InitialKey(p) <= LIST_VAL_MAX
    /\ \A p, q \in Used : InitialKey(p) = InitialKey(q) => p = q
    /\ \A p \in Used \ {p_min_node} : LIST_VAL_MIN < InitialKey(p)
    /\ \A p \in Used \ {p_max_node} : InitialKey(p) < LIST_VAL_MAX
    /\ Used \subseteq Objs
BY ListAssumption DEF Used, InitialKey

LEMMA LeastKey ==
    ASSUME NEW D \in SUBSET Used, D # {}
    PROVE  \E p \in D : \A q \in D : InitialKey(p) <= InitialKey(q)
<1> DEFINE T == {InitialKey(p) - LIST_VAL_MIN : p \in D}
<1>1. T \subseteq Nat /\ T # {}
  BY InitialKeys, ListAssumption
<1> HIDE DEF T
<1>2. PICK m \in T : \A k \in T : m <= k
  BY <1>1, LeastNumber
<1>3. PICK p \in D : m = InitialKey(p) - LIST_VAL_MIN
  BY DEF T
<1>4. \A q \in D : InitialKey(p) - LIST_VAL_MIN <= InitialKey(q) - LIST_VAL_MIN
  BY <1>2, <1>3 DEF T
<1>5. \A q \in D : InitialKey(p) <= InitialKey(q)
  BY <1>4, InitialKeys, ListAssumption
<1> QED
  BY <1>5

LEMMA GreatestKey ==
    ASSUME NEW D \in SUBSET Used, D # {}
    PROVE  \E p \in D : \A q \in D : InitialKey(q) <= InitialKey(p)
<1> DEFINE T == {LIST_VAL_MAX - InitialKey(p) : p \in D}
<1>1. T \subseteq Nat /\ T # {}
  BY InitialKeys, ListAssumption
<1> HIDE DEF T
<1>2. PICK m \in T : \A k \in T : m <= k
  BY <1>1, LeastNumber
<1>3. PICK p \in D : m = LIST_VAL_MAX - InitialKey(p)
  BY DEF T
<1>4. \A q \in D : LIST_VAL_MAX - InitialKey(p) <= LIST_VAL_MAX - InitialKey(q)
  BY <1>2, <1>3 DEF T
<1>5. \A q \in D : InitialKey(q) <= InitialKey(p)
  BY <1>4, InitialKeys, ListAssumption
<1> QED
  BY <1>5

LEMMA InitialLinks ==
    ASSUME NEW o \in Used
    PROVE  /\ InitialNode(o).val = InitialKey(o)
           /\ InitialNode(o) \in NodeType
           /\ o = p_max_node => InitialNode(o).p_next = NULL
           /\ o # p_max_node =>
                 /\ InitialNode(o).p_next \in LaterThan(o)
                 /\ \A q \in LaterThan(o) : InitialKey(InitialNode(o).p_next) <= InitialKey(q)
<1> DEFINE Least(p) == p \in LaterThan(o) /\ \A q \in LaterThan(o) : InitialKey(p) <= InitialKey(q)
<1>1. InitialNode(o) = [val |-> InitialKey(o),
                        p_next |-> IF o = p_max_node THEN NULL
                                   ELSE CHOOSE p \in LaterThan(o) :
                                            \A q \in LaterThan(o) : InitialKey(p) <= InitialKey(q)]
  BY DEF InitialNode, InitialKey, LaterThan
<1>2. ASSUME o # p_max_node PROVE \E p : Least(p)
  <2>1. LaterThan(o) \subseteq Used /\ p_max_node \in LaterThan(o)
    BY <1>2, InitialKeys, ListAssumption DEF LaterThan, InitialKey, Used
  <2> QED
    BY <2>1, LeastKey
<1>3. o # p_max_node => Least(InitialNode(o).p_next)
  BY <1>1, <1>2
<1>4. InitialNode(o) \in NodeType
  <2>1. InitialKey(o) \in Keys \cup {LIST_VAL_MIN, LIST_VAL_MAX}
    BY InitialKeys
  <2>2. InitialNode(o).p_next \in Objs \cup {NULL}
    <3>1. LaterThan(o) \subseteq Objs
      BY InitialKeys DEF LaterThan, Used
    <3> QED
      BY <1>1, <1>3, <3>1
  <2> QED
    BY <1>1, <2>1, <2>2 DEF NodeType
<1> QED
  BY <1>1, <1>3, <1>4

LEMMA InitialList ==
    ASSUME NEW c, \A o \in Objs : c[o] = {},
           mem = [o \in Objs |-> [v \in IF o \in Used THEN {{}} ELSE {} |-> InitialNode(o)]]
    PROVE  IsList(mem, c, Used)
<1>1. \A o \in Used : c[o] \in DOMAIN mem[o] /\ mem[o][c[o]] = InitialNode(o)
  BY InitialKeys
<1>2. \A o \in Used : Key(mem, c, o) = InitialKey(o) /\ Link(mem, c, o) = InitialNode(o).p_next
  BY <1>1, InitialLinks DEF Key, Link
<1>3. /\ Used \subseteq Objs /\ p_min_node \in Used /\ p_max_node \in Used
      /\ p_min_node # p_max_node
      /\ \A o \in Used : c[o] \in DOMAIN mem[o] /\ mem[o][c[o]] \in NodeType
  BY <1>1, InitialKeys, InitialLinks, ListAssumption DEF Used
<1>4. /\ Key(mem, c, p_min_node) = LIST_VAL_MIN /\ Key(mem, c, p_max_node) = LIST_VAL_MAX
      /\ Link(mem, c, p_max_node) = NULL
  BY <1>2, <1>3, InitialLinks DEF InitialKey
<1>5. ASSUME NEW o \in Used \ {p_max_node}
      PROVE  /\ Link(mem, c, o) \in LaterThan(o) /\ Link(mem, c, o) \in Used
             /\ Key(mem, c, o) < Key(mem, c, Link(mem, c, o))
             /\ \A q \in LaterThan(o) : InitialKey(Link(mem, c, o)) <= InitialKey(q)
  <2>1. /\ Link(mem, c, o) \in LaterThan(o)
        /\ \A q \in LaterThan(o) : InitialKey(Link(mem, c, o)) <= InitialKey(q)
    BY <1>2, InitialLinks
  <2>2. Link(mem, c, o) \in Used /\ InitialKey(Link(mem, c, o)) > InitialKey(o)
    BY <2>1 DEF LaterThan, Used
  <2> QED
    BY <1>2, <2>1, <2>2, InitialKeys
<1>6. \A o \in Used : LaterThan(o) = {p \in Used : InitialKey(o) < InitialKey(p)}
  <2> SUFFICES ASSUME NEW o \in Used, InitialKey(o) < InitialKey(p_min_node) PROVE FALSE
    BY InitialKeys DEF LaterThan, Used
  <2> QED
    BY InitialKeys, ListAssumption DEF InitialKey
<1>7. ASSUME NEW o \in Used \ {p_max_node}, NEW p \in Used \ {p_max_node},
             Link(mem, c, o) = Link(mem, c, p), InitialKey(o) < InitialKey(p)
      PROVE  FALSE
  <2>1. p \in LaterThan(o)
    BY <1>6, <1>7
  <2>2. InitialKey(Link(mem, c, o)) <= InitialKey(p)
    BY <1>5, <2>1
  <2>3. InitialKey(p) < InitialKey(Link(mem, c, p)) /\ Link(mem, c, p) \in Used
    BY <1>5, <1>6
  <2> QED
    BY <1>7, <2>2, <2>3, InitialKeys
<1>8. ASSUME NEW o \in Used \ {p_max_node}, NEW p \in Used \ {p_max_node},
             Link(mem, c, o) = Link(mem, c, p)
      PROVE  o = p
  <2>1. InitialKey(o) \in Int /\ InitialKey(p) \in Int
    BY InitialKeys
  <2>2. ~(InitialKey(o) < InitialKey(p)) /\ ~(InitialKey(p) < InitialKey(o))
    BY <1>7, <1>8
  <2> QED
    BY <2>1, <2>2, InitialKeys
<1>9. ASSUME NEW T \in SUBSET Used, p_min_node \in T, LinksStay(mem, c, T), T # Used PROVE FALSE
  <2>1. PICK o \in Used \ T : \A q \in Used \ T : InitialKey(o) <= InitialKey(q)
    BY <1>9, LeastKey
  <2> DEFINE D == {p \in Used : InitialKey(p) < InitialKey(o)}
  <2>2. p_min_node \in D
    BY <1>3, <1>9, <2>1, InitialKeys DEF InitialKey
  <2>3. PICK p \in D : \A q \in D : InitialKey(q) <= InitialKey(p)
    BY <2>2, GreatestKey
  <2>4. p \in T /\ p # p_max_node
    BY <2>1, <2>3, InitialKeys, <1>3 DEF InitialKey
  <2>5. o \in LaterThan(p)
    BY <1>6, <2>1, <2>3
  <2> DEFINE q == Link(mem, c, p)
  <2>6. q \in Used /\ InitialKey(p) < InitialKey(q) /\ InitialKey(q) <= InitialKey(o)
    BY <1>5, <1>6, <2>3, <2>4, <2>5
  <2>7. q \notin D
    BY <2>3, <2>6, InitialKeys
  <2>8. InitialKey(q) = InitialKey(o)
    BY <2>1, <2>6, <2>7, InitialKeys
  <2>9. q = o
    BY <2>1, <2>6, <2>8, InitialKeys
  <2> QED
    BY <1>9, <2>1, <2>4, <2>9 DEF LinksStay
<1>10. LinksStay(mem, c, Used)
  BY <1>5 DEF LinksStay
<1> QED
  BY <1>3, <1>4, <1>5, <1>8, <1>9, <1>10 DEF IsList

-----------------------------------------------------------------------------
(* The keys of a list. *)

Inner(S) == S \ {p_min_node, p_max_node}

KeysIn(m, c, S) == {Key(m, c, o) : o \in Inner(S)}

\* The keys in the list whose blocks have the contents in c.
MembersOn(m, c) == UNION {KeysIn(m, c, S) : S \in {T \in SUBSET Objs : IsList(m, c, T)}}

LEMMA MembersOnList ==
    ASSUME NEW m, NEW c, NEW S, IsList(m, c, S)
    PROVE  MembersOn(m, c) = KeysIn(m, c, S)
<1>1. S \in SUBSET Objs
  BY DEF IsList
<1>2. \A T : IsList(m, c, T) => T = S
  BY ListUnique
<1> QED
  BY <1>1, <1>2 DEF MembersOn

LEMMA MembersAreOn ==
    ASSUME NEW c, NEW S, IsList(mem, c, S)
    PROVE  Members(c) = MembersOn(mem, c)
<1>1. Chain(c) = S /\ MembersOn(mem, c) = KeysIn(mem, c, S)
  BY ChainOfList, MembersOnList
<1> QED
  BY <1>1 DEF Members, KeysIn, Key, Inner

LEMMA SameMembers ==
    ASSUME NEW m, NEW c, NEW S, IsList(m, c, S), NEW m2, NEW c2,
           \A o \in S : c2[o] \in DOMAIN m2[o] /\ m2[o][c2[o]] = m[o][c[o]]
    PROVE  MembersOn(m2, c2) = MembersOn(m, c)
<1>1. IsList(m2, c2, S)
  BY ListSame
<1>2. \A o \in S : Key(m2, c2, o) = Key(m, c, o)
  BY DEF Key
<1>3. KeysIn(m2, c2, S) = KeysIn(m, c, S)
  BY <1>2 DEF KeysIn, Inner
<1> QED
  BY <1>1, <1>3, MembersOnList

LEMMA KeyAtLeast ==
    ASSUME NEW m, NEW c, NEW S, IsList(m, c, S), NEW o \in S
    PROVE  /\ Key(m, c, o) \in Keys \cup {LIST_VAL_MIN, LIST_VAL_MAX} /\ Key(m, c, o) \in Int
           /\ LIST_VAL_MIN <= Key(m, c, o) /\ Key(m, c, o) <= LIST_VAL_MAX
<1>1. Key(m, c, o) \in Keys \cup {LIST_VAL_MIN, LIST_VAL_MAX}
  BY DEF IsList, NodeType, Key
<1> QED
  BY <1>1, ListAssumption

\* Every block but the head has one in front of it.
LEMMA HasPrev ==
    ASSUME NEW m, NEW c, NEW S, IsList(m, c, S), NEW x \in S \ {p_min_node}
    PROVE  \E p \in S \ {p_max_node} : Link(m, c, p) = x /\ Key(m, c, p) < Key(m, c, x)
<1>1. p_min_node \in S /\ LinksStay(m, c, S)
  BY DEF IsList
<1>2. ~LinksStay(m, c, S \ {x})
  BY <1>1 DEF IsList
<1>3. PICK p \in S \ {p_max_node, x} : Link(m, c, p) = x
  BY <1>1, <1>2 DEF LinksStay
<1> QED
  BY <1>3 DEF IsList

LEMMA InnerKeys ==
    ASSUME NEW m, NEW c, NEW S, IsList(m, c, S), NEW o \in Inner(S)
    PROVE  Key(m, c, o) \in Keys
<1>1. o \in S /\ o # p_min_node /\ o # p_max_node
  BY DEF Inner
<1>2. PICK p \in S : Key(m, c, p) < Key(m, c, o)
  BY <1>1, HasPrev
<1>3. Link(m, c, o) \in S /\ Key(m, c, o) < Key(m, c, Link(m, c, o))
  BY <1>1 DEF IsList, LinksStay
<1>4. LIST_VAL_MIN <= Key(m, c, p) /\ Key(m, c, Link(m, c, o)) <= LIST_VAL_MAX
      /\ Key(m, c, p) \in Int /\ Key(m, c, Link(m, c, o)) \in Int
  BY <1>2, <1>3, KeyAtLeast
<1>5. Key(m, c, o) \in Keys \cup {LIST_VAL_MIN, LIST_VAL_MAX} /\ Key(m, c, o) \in Int
  BY <1>1, KeyAtLeast
<1> QED
  BY <1>2, <1>3, <1>4, <1>5, ListAssumption

\* x is between o and its link by its key, or has the key of o.
Between(m, c, o, x) ==
    \/ /\ o # p_max_node
       /\ Key(m, c, o) < Key(m, c, x) /\ Key(m, c, x) < Key(m, c, Link(m, c, o))
    \/ Key(m, c, x) = Key(m, c, o) /\ x # o

\* No block is: of the one with the least key, the block in front would be another.
LEMMA NothingBetween ==
    ASSUME NEW m, NEW c, NEW S, IsList(m, c, S), NEW o \in S, NEW x \in S
    PROVE  ~Between(m, c, o, x)
<1> DEFINE k(b) == Key(m, c, b)
           Bad == {b \in S : \E a \in S : Between(m, c, a, b)}
           T == {k(b) - LIST_VAL_MIN : b \in Bad}
<1>1. SUFFICES ASSUME Bad # {} PROVE FALSE
  OBVIOUS
<1>2. \A b \in S : k(b) \in Int /\ LIST_VAL_MIN <= k(b)
  BY KeyAtLeast
<1>3. PICK q \in T : \A r \in T : q <= r
  <2>1. T \subseteq Nat /\ T # {}
    BY <1>1, <1>2, ListAssumption
  <2> HIDE DEF T
  <2> QED
    BY <2>1, LeastNumber
<1>4. PICK b \in Bad : q = k(b) - LIST_VAL_MIN
  OBVIOUS
<1>5. \A r \in Bad : k(b) <= k(r)
  <2> SUFFICES ASSUME NEW r \in Bad PROVE k(b) <= k(r)
    OBVIOUS
  <2>1. k(r) - LIST_VAL_MIN \in T
    OBVIOUS
  <2>2. k(b) - LIST_VAL_MIN <= k(r) - LIST_VAL_MIN
    BY <1>3, <1>4, <2>1
  <2> QED
    BY <1>2, <2>2, ListAssumption
<1>6. PICK a \in S : Between(m, c, a, b)
  OBVIOUS
<1> HIDE DEF T
<1>7. \A r, s \in S : Between(m, c, s, r) => k(b) <= k(r)
  BY <1>5
<1>8. b \in S /\ p_min_node \in S
  BY DEF IsList
<1>9. \A r \in S \ {p_min_node} :
          \E p \in S \ {p_max_node} : Link(m, c, p) = r /\ k(p) < k(r)
  BY HasPrev
<1>10. \A r, s \in S \ {p_max_node} : Link(m, c, r) = Link(m, c, s) => r = s
  BY DEF IsList
<1>11. b # p_min_node
  <2> SUFFICES ASSUME b = p_min_node PROVE FALSE
    OBVIOUS
  <2>1. k(b) = LIST_VAL_MIN
    BY DEF IsList
  <2>2. a # p_min_node
    BY <1>2, <1>6, <2>1 DEF Between
  <2>3. PICK p \in S : k(p) < k(a)
    BY <1>9, <2>2
  <2> QED
    BY <1>2, <1>6, <1>8, <2>1, <2>3 DEF Between
<1>12. PICK p \in S \ {p_max_node} : Link(m, c, p) = b /\ k(p) < k(b)
  BY <1>8, <1>9, <1>11
<1>13. CASE a # p_max_node /\ k(a) < k(b) /\ k(b) < k(Link(m, c, a))
  <2>1. ~Between(m, c, a, p) /\ ~Between(m, c, p, a)
    BY <1>2, <1>6, <1>7, <1>8, <1>12, <1>13
  <2>2. p # a
    BY <1>2, <1>8, <1>12, <1>13
  <2>3. k(a) \in Int /\ k(p) \in Int /\ k(b) \in Int
    BY <1>2, <1>8
  <2>4. Link(m, c, a) \in S /\ k(Link(m, c, a)) \in Int
    BY <1>2, <1>13 DEF IsList, LinksStay
  <2> QED
    BY <1>12, <1>13, <2>1, <2>2, <2>3, <2>4 DEF Between
<1>14. CASE k(b) = k(a) /\ b # a
  <2>1. a # p_min_node
    <3> SUFFICES ASSUME a = p_min_node PROVE FALSE
      OBVIOUS
    <3>1. k(a) = LIST_VAL_MIN
      BY DEF IsList
    <3> QED
      BY <1>2, <1>12, <1>14, <3>1
  <2>2. PICK r \in S \ {p_max_node} : Link(m, c, r) = a /\ k(r) < k(a)
    BY <1>9, <2>1
  <2>3. ~Between(m, c, r, p) /\ ~Between(m, c, p, r)
    BY <1>2, <1>7, <1>8, <1>12, <1>14, <2>2
  <2>4. r # p
    BY <1>12, <1>14, <2>2
  <2> QED
    BY <1>2, <1>8, <1>12, <1>14, <2>2, <2>3, <2>4 DEF Between
<1> QED
  BY <1>6, <1>13, <1>14 DEF Between

\* The walk stops where the key is, or would be.
LEMMA KeyFound ==
    ASSUME NEW m, NEW c, NEW S, IsList(m, c, S), NEW prev \in S \ {p_max_node}, NEW key \in Keys,
           Key(m, c, prev) < key, key <= Key(m, c, Link(m, c, prev))
    PROVE  key \in MembersOn(m, c) <=> Key(m, c, Link(m, c, prev)) = key
<1> DEFINE next == Link(m, c, prev)
<1>1. MembersOn(m, c) = KeysIn(m, c, S) /\ next \in S
  BY MembersOnList DEF IsList, LinksStay
<1>2. key \in Int /\ LIST_VAL_MIN < key /\ key < LIST_VAL_MAX
      /\ LIST_VAL_MIN \in Int /\ LIST_VAL_MAX \in Int
      /\ \A b \in S : Key(m, c, b) \in Int
  BY KeyAtLeast, ListAssumption
<1>3. ASSUME Key(m, c, next) = key PROVE key \in KeysIn(m, c, S)
  <2>1. Key(m, c, p_min_node) = LIST_VAL_MIN /\ Key(m, c, p_max_node) = LIST_VAL_MAX
    BY DEF IsList
  <2>2. next \in Inner(S)
    BY <1>1, <1>2, <1>3, <2>1 DEF Inner
  <2> QED
    BY <1>3, <2>2 DEF KeysIn
<1>4. ASSUME key \in KeysIn(m, c, S) PROVE Key(m, c, next) = key
  <2>1. PICK x \in S : key = Key(m, c, x)
    BY <1>4 DEF KeysIn, Inner
  <2>2. ~Between(m, c, prev, x)
    BY <2>1, NothingBetween
  <2> QED
    BY <1>1, <1>2, <2>1, <2>2 DEF Between
<1> QED
  BY <1>1, <1>3, <1>4

-----------------------------------------------------------------------------
(* C. The lists that are published, deferred, under way and read, when only *)
(* w updates the list.                                                      *)

\* The blocks that are neither free nor about to be.
Freed(t) == {free_nodes[t][k] : k \in DOMAIN free_nodes[t]}
Alive(w) == (Objs \ free) \ Freed(w)

\* The update of the section of w is made, in its copies.
Assigned(w) == pc[w] = "section" /\ step[w] = "unlock" /\ is_write_detected[w]

Latest(w) == IF Assigned(w) THEN Future(w) ELSE committed

Listed(c) == \E S \in SUBSET (Objs \ free) : IsList(mem, c, S)

\* Every block is on the latest list, free, or about to be free.
Lists(w) == IsList(mem, Latest(w), Alive(w)) /\ Listed(committed) /\ Listed(Store)

\* Up to its assignment the copies of the section of w are the same nodes.
Copied(w) ==
    (InSection(w) /\ ~Assigned(w)) => \A o \in Updated(w) :
        Future(w)[o] \in DOMAIN mem[o] /\ mem[o][Future(w)[o]] = mem[o][committed[o]]

Blocks(w) ==
    /\ \A o \in free : p_obj_copy[o] = NULL
    /\ Freed(w) \cap free = {}
    /\ \A t \in Threads \ {w} : free_nodes[t] = <<>>

\* A write-set that is not written back has noted one block at most.
Buffered(w) ==
    Len(free_nodes[w]) <=
        IF pc[w] \in {"commit", "sync_end"} THEN max_write_sets
        ELSE ws_tail_counter[w] - ws_wb_counter[w] + IF Assigned(w) THEN 1 ELSE 0

WalkSteps == {"head", "walk", "succ"}
LockSteps == {"lock_prev", "lock_next"}

Stepping(w, t) ==
    /\ pc[t] \in {"register", "version", "commit_version"} \/ (Syncing(t) /\ ret[t] = "register")
          => step[t] = "head"
    /\ pc[t] = "section" => step[t] \in WalkSteps \cup LockSteps \cup {"assign", "unlock"}
    /\ pc[t] = "steal" => step[t] \in WalkSteps
    /\ pc[t] \in {"request", "cas", "copy", "failed"} => step[t] \in LockSteps
    /\ pc[t] \in {"cas", "copy"} => cur_obj[t] = LockTarget(t)
    /\ step[t] # "out" => call[t].op \in Ops[t] /\ call[t].key \in CallKeys
    /\ step[t] \in LockSteps \cup {"assign"} => call[t].op \in {"add", "remove"}
    /\ step[t] = "succ" => call[t].op = "remove"
    /\ step[t] \in {"lock_next", "assign"} => t = w

\* The block that the next deref of t is about, which t reads as it is in c.
Target(t, c) ==
    IF step[t] = "head" THEN p_min_node
    ELSE Link(mem, c, Actual(IF step[t] = "walk" THEN p_prev[t] ELSE p_next[t]))

GotPtr(t, p) == <<Actual(p), p>> \in refs[t]

OnList(t, c) == \E S \in SUBSET (Objs \ free) : IsList(mem, c, S) /\ \A r \in refs[t] : r[1] \in S

\* Where the walk of t is, on the list with the contents c.
Walk(t, c) ==
    LET prev == Actual(p_prev[t])
        next == Actual(p_next[t])
        key  == call[t].key
    IN  /\ step[t] \in {"walk", "succ", "assign"} \cup LockSteps =>
              GotPtr(t, p_prev[t]) /\ Key(mem, c, prev) < key
        /\ step[t] \in {"succ", "assign"} \cup LockSteps =>
              /\ GotPtr(t, p_next[t]) /\ next = Link(mem, c, prev)
              /\ IF call[t].op = "add" THEN key < Key(mem, c, next) ELSE Key(mem, c, next) = key
        /\ (step[t] \in {"assign"} \cup LockSteps /\ call[t].op = "remove") =>
              GotPtr(t, n[t]) /\ Actual(n[t]) = Link(mem, c, next)
        /\ pc[t] = "steal" => cur_obj[t] = Target(t, c)

Position(w, t) == InSection(t) => OnList(t, Walked(w, t)) /\ Walk(t, Walked(w, t))

\* The section of w has copied what it is about to assign to.
Own(w) ==
    InSection(w) =>
        /\ step[w] \in WalkSteps => ~is_write_detected[w]
        /\ step[w] \in {"lock_next", "assign"} =>
              is_write_detected[w] /\ p_prev[w] \in Addr /\ p_prev[w].ws = WsCurId(w)

LInv(w) ==
    /\ ListTypeOK /\ DOMAIN call = Threads
    /\ Lists(w) /\ Copied(w) /\ Blocks(w) /\ Buffered(w) /\ Own(w)
    /\ \A t \in Threads : Stepping(w, t) /\ Position(w, t)

-----------------------------------------------------------------------------
(* What is the same in a step. *)

\* The lists with the contents c keep their nodes, and none of them is freed.
SameList(c) ==
    \A S \in SUBSET (Objs \ free) : IsList(mem, c, S) =>
        /\ S \cap free' = {}
        /\ \A o \in S : c[o] \in DOMAIN mem'[o] /\ mem'[o][c[o]] = mem[o][c[o]]

LEMMA SameBlocks ==
    ASSUME UNCHANGED <<mem, free>>, NEW c
    PROVE  SameList(c)
BY DEF SameList, IsList

LEMMA ListKept ==
    ASSUME NEW c, SameList(c), NEW S \in SUBSET (Objs \ free), IsList(mem, c, S)
    PROVE  S \in SUBSET (Objs \ free') /\ IsList(mem', c, S)
<1>1. /\ S \cap free' = {}
      /\ \A o \in S : c[o] \in DOMAIN mem'[o] /\ mem'[o][c[o]] = mem[o][c[o]]
  BY DEF SameList
<1>2. IsList(mem', c, S)
  BY <1>1, ListSame
<1> QED
  BY <1>1, <1>2

LEMMA ListedKept ==
    ASSUME NEW c, SameList(c), Listed(c)
    PROVE  \E S \in SUBSET (Objs \ free') : IsList(mem', c, S)
BY ListKept DEF Listed

\* The local variables of t in the list functions.
WalkSame(t) ==
    /\ step'[t] = step[t] /\ call'[t] = call[t]
    /\ p_prev'[t] = p_prev[t] /\ p_next'[t] = p_next[t] /\ n'[t] = n[t]

\* A pointer that a section has got stays one to the same block.
LEMMA ActualKept ==
    ASSUME NEW w \in Threads, TypeFacts, RefFacts(w)', refs' \in [Threads -> SUBSET (Objs \X Ptr)],
           NEW t \in Threads, refs[t] \subseteq refs'[t], NEW p, GotPtr(t, p)
    PROVE  Actual(p)' = Actual(p) /\ <<Actual(p), p>> \in refs'[t] /\ Actual(p) \in Objs /\ p \in Ptr
<1>1. <<Actual(p), p>> \in refs'[t]
  BY DEF GotPtr
<1>2. Actual(p) \in Objs /\ p \in Ptr
  BY <1>1
<1> QED
  BY <1>1, <1>2 DEF RefFacts

LEMMA PositionKept ==
    ASSUME NEW w \in Threads, Facts(w), Facts(w)', NEW t \in Threads,
           InSection(t), Position(w, t), Walked(w, t)' = Walked(w, t), SameList(Walked(w, t)),
           refs'[t] = refs[t], WalkSame(t),
           pc'[t] = "steal" => step[t] \in WalkSteps /\ cur_obj'[t] = Target(t, Walked(w, t))
    PROVE  Position(w, t)'
<1>1. PICK c, pp, pn, nn :
          /\ c = Walked(w, t) /\ c = Walked(w, t)'
          /\ pp = p_prev[t] /\ pp = p_prev'[t] /\ pn = p_next[t] /\ pn = p_next'[t]
          /\ nn = n[t] /\ nn = n'[t]
  BY DEF WalkSame
<1>2. /\ TypeFacts /\ RefFacts(w)' /\ refs' \in [Threads -> SUBSET (Objs \X Ptr)]
      /\ OnList(t, c) /\ Walk(t, c) /\ SameList(c)
  BY <1>1 DEF Facts, TypeFacts, Position
<1>3. PICK S \in SUBSET (Objs \ free) : IsList(mem, c, S) /\ \A r \in refs[t] : r[1] \in S
  BY <1>2 DEF OnList
<1>4. S \in SUBSET (Objs \ free') /\ IsList(mem', c, S)
  BY <1>2, <1>3, ListKept
<1>5. OnList(t, Walked(w, t))'
  <2>1. \E U \in SUBSET (Objs \ free') : IsList(mem', c, U) /\ \A r \in refs'[t] : r[1] \in U
    BY <1>3, <1>4
  <2> QED
    BY <1>1, <2>1 DEF OnList
<1>6. \A o \in S : Key(mem', c, o) = Key(mem, c, o) /\ Link(mem', c, o) = Link(mem, c, o)
  BY <1>2, <1>3 DEF SameList, Key, Link
<1>7. PICK prev, next, succ : prev = Actual(pp) /\ next = Actual(pn) /\ succ = Actual(nn)
  OBVIOUS
<1>8. ASSUME NEW p, NEW o, o = Actual(p), GotPtr(t, p)
      PROVE  Actual(p)' = o /\ <<o, p>> \in refs'[t] /\ o \in S
  BY <1>2, <1>3, <1>8, ActualKept DEF GotPtr
<1>9. step[t] \in {"walk", "succ", "assign"} \cup LockSteps =>
          /\ Key(mem, c, prev) < call[t].key
          /\ prev \in S /\ Actual(pp)' = prev /\ <<prev, pp>> \in refs'[t]
  BY <1>1, <1>2, <1>7, <1>8 DEF Walk
<1>10. step[t] \in {"succ", "assign"} \cup LockSteps =>
          /\ next = Link(mem, c, prev)
          /\ IF call[t].op = "add" THEN call[t].key < Key(mem, c, next)
             ELSE Key(mem, c, next) = call[t].key
          /\ next \in S /\ Actual(pn)' = next /\ <<next, pn>> \in refs'[t]
  BY <1>1, <1>2, <1>7, <1>8 DEF Walk
<1>11. (step[t] \in {"assign"} \cup LockSteps /\ call[t].op = "remove") =>
          succ = Link(mem, c, next) /\ Actual(nn)' = succ /\ <<succ, nn>> \in refs'[t]
  BY <1>1, <1>2, <1>7, <1>8 DEF Walk
<1>12. /\ step'[t] = step[t] /\ call'[t] = call[t]
       /\ p_prev'[t] = pp /\ p_next'[t] = pn /\ n'[t] = nn
  BY <1>1 DEF WalkSame
<1>13. /\ step[t] \in {"walk", "succ", "assign"} \cup LockSteps =>
             Actual(p_prev[t])' = prev /\ GotPtr(t, p_prev[t])'
       /\ step[t] \in {"succ", "assign"} \cup LockSteps =>
             Actual(p_next[t])' = next /\ GotPtr(t, p_next[t])'
       /\ (step[t] \in {"assign"} \cup LockSteps /\ call[t].op = "remove") =>
             Actual(n[t])' = succ /\ GotPtr(t, n[t])'
  BY <1>9, <1>10, <1>11, <1>12 DEF Actual, GotPtr, At
<1>14. pc'[t] = "steal" => cur_obj'[t] = Target(t, Walked(w, t))'
  <2> SUFFICES ASSUME pc'[t] = "steal" PROVE cur_obj'[t] = Target(t, Walked(w, t))'
    OBVIOUS
  <2>1. step[t] \in WalkSteps /\ cur_obj'[t] = Target(t, c)
    BY <1>1
  <2>2. step[t] = "walk" => Link(mem', c, prev) = Link(mem, c, prev)
    BY <1>6, <1>9
  <2>3. step[t] = "succ" => Link(mem', c, next) = Link(mem, c, next)
    BY <1>6, <1>10
  <2>4. CASE step[t] = "head"
    BY <1>12, <2>1, <2>4 DEF Target
  <2>5. CASE step[t] = "walk"
    <3>1. Target(t, c) = Link(mem, c, prev)
      BY <1>1, <1>7, <2>5 DEF Target
    <3>2. Target(t, Walked(w, t))' = Link(mem', c, prev)
      BY <1>1, <1>12, <1>13, <2>5 DEF Target
    <3> QED
      BY <2>1, <2>2, <2>5, <3>1, <3>2
  <2>6. CASE step[t] = "succ"
    <3>1. Target(t, c) = Link(mem, c, next)
      BY <1>1, <1>7, <2>6 DEF Target
    <3>2. Target(t, Walked(w, t))' = Link(mem', c, next)
      BY <1>1, <1>12, <1>13, <2>6 DEF Target
    <3> QED
      BY <2>1, <2>3, <2>6, <3>1, <3>2
  <2> QED
    BY <2>1, <2>4, <2>5, <2>6 DEF WalkSteps
<1> QED
  BY <1>1, <1>5, <1>6, <1>9, <1>10, <1>11, <1>12, <1>13, <1>14 DEF Position, Walk

-----------------------------------------------------------------------------
(* The walk: the next block is on the list, and so is what the deref gives. *)

LEMMA TargetOnList ==
    ASSUME NEW t \in Threads, NEW c, NEW S, IsList(mem, c, S), \A r \in refs[t] : r[1] \in S,
           Walk(t, c), step[t] \in WalkSteps, call[t].key \in CallKeys,
           step[t] = "succ" => call[t].op = "remove"
    PROVE  /\ Target(t, c) \in S
           /\ step[t] \in {"walk", "succ"} => Actual(p_prev[t]) \in S
           /\ step[t] = "succ" => Actual(p_next[t]) \in S
<1>1. /\ call[t].key \in Int /\ call[t].key < LIST_VAL_MAX /\ LIST_VAL_MAX \in Int
      /\ call[t].key # LIST_VAL_MAX
  BY ListAssumption
<1>2. /\ p_min_node \in S /\ Key(mem, c, p_max_node) = LIST_VAL_MAX
      /\ \A o \in S \ {p_max_node} : Link(mem, c, o) \in S
  BY DEF IsList, LinksStay
<1>3. CASE step[t] = "head"
  BY <1>2, <1>3 DEF Target
<1>4. CASE step[t] = "walk"
  <2>1. Actual(p_prev[t]) \in S /\ Key(mem, c, Actual(p_prev[t])) < call[t].key
    BY <1>4 DEF Walk, GotPtr
  <2>2. Actual(p_prev[t]) # p_max_node
    BY <1>1, <1>2, <2>1
  <2> QED
    BY <1>2, <1>4, <2>1, <2>2 DEF Target
<1>5. CASE step[t] = "succ"
  <2>1. /\ Actual(p_prev[t]) \in S /\ Actual(p_next[t]) \in S
        /\ Key(mem, c, Actual(p_next[t])) = call[t].key
    BY <1>5 DEF Walk, GotPtr
  <2>2. Actual(p_next[t]) # p_max_node
    BY <1>1, <1>2, <2>1
  <2> QED
    BY <1>2, <1>5, <2>1, <2>2 DEF Target
<1> QED
  BY <1>3, <1>4, <1>5 DEF WalkSteps

\* Before its first lock the section of w has no copies of its own.
LEMMA OldContents ==
    ASSUME NEW w \in Threads, Facts(w), Own(w), NEW t \in Threads, InSection(t),
           step[t] \in WalkSteps, NEW o \in Objs, NEW p \in Ptr, <<o, p>> \in refs[t]
    PROVE  Actual(p) = o /\ Contents(p) = Walked(w, t)[o]
<1>1. t = w => Updated(w) = {}
  BY DEF Own, Facts, UpdateFacts
<1>2. ~NewCopy(w, t, p)
  BY <1>1 DEF Facts, RefFacts, NewCopy
<1> QED
  BY <1>2 DEF Facts, RefFacts

LEMMA DerefTargetIs ==
    ASSUME NEW w \in Threads, Facts(w), Own(w), NEW t \in Threads, InSection(t),
           step[t] \in WalkSteps, Walk(t, Walked(w, t))
    PROVE  DerefTarget(t) = Target(t, Walked(w, t))
<1>1. ASSUME NEW p, GotPtr(t, p) PROVE Node(p) = mem[Actual(p)][Walked(w, t)[Actual(p)]]
  <2>1. Actual(p) \in Objs /\ p \in Ptr /\ <<Actual(p), p>> \in refs[t]
    BY <1>1 DEF GotPtr, Facts, TypeFacts
  <2> QED
    BY <2>1, OldContents DEF Node
<1>2. CASE step[t] = "head"
  BY <1>2 DEF DerefTarget, Target
<1>3. CASE step[t] = "walk"
  <2>1. DerefTarget(t) = Node(p_prev[t]).p_next /\ GotPtr(t, p_prev[t])
    BY <1>3 DEF DerefTarget, Walk
  <2> QED
    BY <1>1, <1>3, <2>1 DEF Target, Link
<1>4. CASE step[t] = "succ"
  <2>1. DerefTarget(t) = Node(p_next[t]).p_next /\ GotPtr(t, p_next[t])
    BY <1>4 DEF DerefTarget, Walk
  <2> QED
    BY <1>1, <1>4, <2>1 DEF Target, Link
<1> QED
  BY <1>2, <1>3, <1>4 DEF WalkSteps

\* The deref gave p for the block o that the walk of t is about.
LEMMA ArriveKeeps ==
    ASSUME NEW w \in Threads, Writers \subseteq {w}, Facts(w), Facts(w)', ListTypeOK, Own(w),
           NEW t \in Threads, InSection(t), pc'[t] = "section", Stepping(w, t), Position(w, t),
           step[t] \in WalkSteps, Walked(w, t)' = Walked(w, t),
           UNCHANGED <<data, obj_write_set, is_write_detected, ws_tail_counter>>,
           NEW o, o = Target(t, Walked(w, t)), NEW p,
           refs'[t] = refs[t] \cup {<<o, p>>}, Arrive(t, p)
    PROVE  /\ Stepping(w, t)' /\ Position(w, t)' /\ ListTypeOK' /\ (t = w => Own(w)')
           /\ Node(p).val = Key(mem, Walked(w, t), o)
<1>1. PICK c : c = Walked(w, t) /\ c = Walked(w, t)'
  OBVIOUS
<1>2. /\ TypeFacts /\ RefFacts(w)' /\ refs' \in [Threads -> SUBSET (Objs \X Ptr)]
      /\ OnList(t, c) /\ Walk(t, c)
  BY <1>1 DEF Facts, TypeFacts, Position
<1>3. PICK S \in SUBSET (Objs \ free) : IsList(mem, c, S) /\ \A r \in refs[t] : r[1] \in S
  BY <1>2 DEF OnList
<1>4. /\ step \in [Threads -> Steps] /\ DOMAIN mem = Objs
      /\ p_prev \in [Threads -> Ptr \cup {NULL}] /\ p_next \in [Threads -> Ptr \cup {NULL}]
      /\ n \in [Threads -> Ptr \cup {NULL}] /\ result \in [Threads -> BOOLEAN]
  BY DEF ListTypeOK
<1>5. /\ UNCHANGED <<mem, free, free_nodes, call>>
      /\ call[t].key \in CallKeys /\ call[t].op \in Ops[t]
      /\ step[t] = "succ" => call[t].op = "remove"
  BY DEF Arrive, blockVars, Stepping, WalkSteps
<1>6. o \in S /\ o \in Objs /\ p \in Ptr /\ <<o, p>> \in refs'[t]
  <2>1. o \in S
    BY <1>1, <1>2, <1>3, <1>5, TargetOnList
  <2>2. <<o, p>> \in refs'[t] /\ refs'[t] \subseteq Objs \X Ptr
    BY <1>2
  <2>3. <<o, p>> \in Objs \X Ptr
    BY <2>2
  <2> QED
    BY <2>1, <2>2, <2>3
<1>7. Actual(p)' = o /\ Contents(p)' = c[o]
  <2>1. t = w => ~is_write_detected'[w]
    BY DEF Own
  <2>2. ~NewCopy(w, t, p)'
    <3>1. t = w => Updated(w)' = {}
      BY <2>1 DEF Facts, UpdateFacts, InSection
    <3>2. NewCopy(w, t, p)' => t = w /\ o \in Updated(w)'
      BY <1>2, <1>6 DEF RefFacts, NewCopy
    <3> QED
      BY <3>1, <3>2
  <2> QED
    BY <1>1, <1>2, <1>6, <2>2 DEF RefFacts
<1>8. Actual(p) = o /\ Contents(p) = c[o]
  BY <1>7 DEF Actual, Contents, At
<1>9. Node(p).val = Key(mem, c, o)
  BY <1>8 DEF Node, Key
<1>10. OnList(t, c)'
  <2>1. \E U \in SUBSET (Objs \ free') : IsList(mem', c, U) /\ \A r \in refs'[t] : r[1] \in U
    BY <1>3, <1>5, <1>6
  <2> QED
    BY <2>1 DEF OnList
<1>11. ASSUME NEW q, NEW b, b = Actual(q), GotPtr(t, q)
       PROVE  Actual(q)' = b /\ <<b, q>> \in refs'[t]
  BY <1>2, <1>11, ActualKept DEF GotPtr
<1>12. PICK pp, pn, prev, next, key, op :
          /\ pp = p_prev[t] /\ pn = p_next[t] /\ prev = Actual(pp) /\ next = Actual(pn)
          /\ key = call[t].key /\ op = call[t].op
  OBVIOUS
<1>13. step[t] \in {"walk", "succ"} =>
          /\ Key(mem, c, prev) < key /\ Actual(pp)' = prev /\ <<prev, pp>> \in refs'[t]
  BY <1>2, <1>11, <1>12 DEF Walk
<1>14. step[t] = "succ" =>
          /\ next = Link(mem, c, prev) /\ Actual(pn)' = next /\ <<next, pn>> \in refs'[t]
          /\ op = "remove" /\ Key(mem, c, next) = key
  BY <1>2, <1>5, <1>11, <1>12 DEF Walk
<1>15. step[t] = "walk" => o = Link(mem, c, prev)
  BY <1>1, <1>12 DEF Target
<1>16. call'[t].key = key /\ call'[t].op = op /\ op \in Ops[t] /\ op \in {"contains", "add", "remove"}
  BY <1>5, <1>12, ListAssumption
<1>17. CASE step[t] = "head"
  <2>1. p_prev'[t] = p /\ step'[t] = "walk" /\ UNCHANGED <<p_next, n, result>>
        /\ p_prev' = [p_prev EXCEPT ![t] = p] /\ step' = [step EXCEPT ![t] = "walk"]
    BY <1>4, <1>17 DEF Arrive, GotoStep
  <2>2. Key(mem, c, o) < key
    BY <1>1, <1>3, <1>5, <1>12, <1>17, ListAssumption DEF Target, IsList
  <2>3. Walk(t, c)'
    <3>1. Actual(p_prev[t])' = o /\ GotPtr(t, p_prev[t])'
      BY <1>6, <1>7, <2>1 DEF Actual, GotPtr, At
    <3> QED
      BY <1>5, <1>16, <2>1, <2>2, <3>1 DEF Walk, LockSteps
  <2>4. Stepping(w, t)'
    BY <1>5, <2>1 DEF Stepping, Syncing, SyncLabels, WalkSteps, LockSteps
  <2>5. ListTypeOK'
    BY <1>4, <1>5, <1>6, <2>1 DEF ListTypeOK, Steps
  <2> QED
    BY <1>1, <1>9, <1>10, <2>1, <2>3, <2>4, <2>5 DEF Position, Own, WalkSteps
<1>18. ASSUME step[t] = "walk", Key(mem, c, o) < key, p_prev' = [p_prev EXCEPT ![t] = p],
              UNCHANGED <<p_next, n, result, step>>
       PROVE  Stepping(w, t)' /\ Position(w, t)' /\ ListTypeOK' /\ (t = w => Own(w)')
  <2>1. p_prev'[t] = p /\ step'[t] = "walk"
    BY <1>4, <1>18
  <2>2. Walk(t, c)'
    <3>1. Actual(p_prev[t])' = o /\ GotPtr(t, p_prev[t])'
      BY <1>6, <1>7, <2>1 DEF Actual, GotPtr, At
    <3> QED
      BY <1>5, <1>16, <1>18, <2>1, <3>1 DEF Walk, LockSteps
  <2>3. Stepping(w, t)'
    BY <1>5, <2>1 DEF Stepping, Syncing, SyncLabels, WalkSteps, LockSteps
  <2>4. ListTypeOK'
    BY <1>4, <1>5, <1>6, <1>18 DEF ListTypeOK, Steps
  <2> QED
    BY <1>1, <1>10, <2>1, <2>2, <2>3, <2>4 DEF Position, Own, WalkSteps
<1>19. ASSUME step[t] = "walk", Key(mem, c, o) >= key, p_next' = [p_next EXCEPT ![t] = p],
              result' = [result EXCEPT ![t] = (Key(mem, c, o) = key) # (op = "add")],
              step' = [step EXCEPT ![t] = AfterWalk(t, Key(mem, c, o))],
              UNCHANGED <<p_prev, n>>
       PROVE  Stepping(w, t)' /\ Position(w, t)' /\ ListTypeOK' /\ (t = w => Own(w)')
  <2>1. /\ p_next'[t] = p /\ p_prev'[t] = pp
        /\ \/ op = "add" /\ Key(mem, c, o) # key /\ step'[t] = "lock_prev"
           \/ op = "remove" /\ Key(mem, c, o) = key /\ step'[t] = "succ"
           \/ step'[t] = "unlock"
    BY <1>4, <1>12, <1>19 DEF AfterWalk
  <2>2. Key(mem, c, o) \in Int /\ key \in Int
    BY <1>3, <1>5, <1>6, <1>12, KeysOrdered, ListAssumption
  <2>3. Walk(t, c)'
    <3>1. Actual(p_next[t])' = o /\ GotPtr(t, p_next[t])'
      BY <1>6, <1>7, <2>1 DEF Actual, GotPtr, At
    <3>2. Actual(p_prev[t])' = prev /\ GotPtr(t, p_prev[t])'
      BY <1>13, <1>19, <2>1 DEF Actual, GotPtr, At
    <3> QED
      BY <1>5, <1>13, <1>15, <1>16, <1>19, <2>1, <2>2, <3>1, <3>2 DEF Walk, LockSteps
  <2>4. Stepping(w, t)'
    BY <1>5, <1>16, <2>1 DEF Stepping, Syncing, SyncLabels, WalkSteps, LockSteps
  <2>5. ListTypeOK'
    <3>1. step'[t] \in Steps
      BY <2>1 DEF Steps
    <3>2. step' \in [Threads -> Steps]
      BY <1>4, <1>19, <3>1
    <3> QED
      BY <1>4, <1>5, <1>6, <1>19, <3>2 DEF ListTypeOK
  <2>6. t = w => Own(w)'
    BY <2>1 DEF Own, WalkSteps
  <2> QED
    BY <1>1, <1>10, <2>3, <2>4, <2>5, <2>6 DEF Position
<1>20. ASSUME step[t] = "succ", n' = [n EXCEPT ![t] = p],
              step' = [step EXCEPT ![t] = "lock_prev"], UNCHANGED <<p_prev, p_next, result>>
       PROVE  Stepping(w, t)' /\ Position(w, t)' /\ ListTypeOK' /\ (t = w => Own(w)')
  <2>1. n'[t] = p /\ p_prev'[t] = pp /\ p_next'[t] = pn /\ step'[t] = "lock_prev"
    BY <1>4, <1>12, <1>20
  <2>2. o = Link(mem, c, next)
    BY <1>1, <1>12, <1>20 DEF Target
  <2>3. Walk(t, c)'
    <3>1. Actual(n[t])' = o /\ GotPtr(t, n[t])'
      BY <1>6, <1>7, <2>1 DEF Actual, GotPtr, At
    <3>2. Actual(p_prev[t])' = prev /\ GotPtr(t, p_prev[t])'
      BY <1>13, <1>20, <2>1 DEF Actual, GotPtr, At
    <3>3. Actual(p_next[t])' = next /\ GotPtr(t, p_next[t])'
      BY <1>14, <1>20, <2>1 DEF Actual, GotPtr, At
    <3> QED
      BY <1>5, <1>13, <1>14, <1>16, <1>20, <2>1, <2>2, <3>1, <3>2, <3>3 DEF Walk, LockSteps
  <2>4. Stepping(w, t)'
    BY <1>5, <1>14, <1>16, <1>20, <2>1 DEF Stepping, Syncing, SyncLabels, WalkSteps, LockSteps
  <2>5. ListTypeOK'
    BY <1>4, <1>5, <1>6, <1>20 DEF ListTypeOK, Steps
  <2> QED
    BY <1>1, <1>9, <1>10, <2>1, <2>3, <2>4, <2>5 DEF Position, Own, WalkSteps
<1> QED
  BY <1>1, <1>9, <1>12, <1>17, <1>18, <1>19, <1>20 DEF Arrive, GotoStep

-----------------------------------------------------------------------------
(* The threads that do not step. *)

LEMMA OtherThread ==
    ASSUME NEW w \in Threads, Writers \subseteq {w}, RluInv(w), RluInv(w)', Own(w),
           NEW t \in Threads, Stepping(w, t), Position(w, t),
           NEW u \in Threads \ {t}, Thread(u) \/ UNCHANGED vars,
           WalkSame(t), InSection(t) => SameList(Walked(w, t))
    PROVE  Stepping(w, t)' /\ Position(w, t)' /\ (t = w => Own(w)')
<1>1. Same(t)
  BY Others DEF Same, RluInv, ValueInv, LogInv
<1>2. Facts(w) /\ Facts(w)' /\ (InSection(t)' <=> InSection(t))
  BY <1>1, FactsNow, FactsNext DEF Same, InSection
<1>3. InSection(t)' => Walked(w, t)' = Walked(w, t)
  <2>1. CASE UNCHANGED vars
    BY <2>1 DEF Walked
  <2>2. CASE Thread(u)
    BY <2>2, WalkedStep
  <2> QED
    BY <2>1, <2>2
<1>4. Position(w, t)'
  <2>1. CASE ~InSection(t)'
    BY <2>1 DEF Position
  <2>2. CASE InSection(t)'
    <3>1. pc'[t] = "steal" => step[t] \in WalkSteps /\ cur_obj'[t] = Target(t, Walked(w, t))
      BY <1>1, <1>2, <2>2 DEF Same, Position, Walk, Stepping
    <3> QED
      BY <1>1, <1>2, <1>3, <2>2, <3>1, PositionKept DEF Same
  <2> QED
    BY <2>1, <2>2
<1>5. Stepping(w, t)'
  <2>1. pc'[t] \in {"cas", "copy"} => cur_obj'[t] = LockTarget(t)'
    <3> SUFFICES ASSUME pc'[t] \in {"cas", "copy"} PROVE cur_obj'[t] = LockTarget(t)'
      OBVIOUS
    <3>1. /\ pc[t] \in {"cas", "copy"} /\ step[t] \in LockSteps
          /\ cur_obj'[t] = LockTarget(t) /\ Walk(t, Walked(w, t))
      BY <1>1 DEF Same, Stepping, Position, InSection
    <3>2. PICK p : p = IF step[t] = "lock_prev" THEN p_prev[t] ELSE p_next[t]
      OBVIOUS
    <3>3. GotPtr(t, p) /\ LockTarget(t) = Actual(p)
      BY <3>1, <3>2 DEF Walk, LockTarget, LockSteps
    <3>4. Actual(p)' = Actual(p)
      BY <1>1, <1>2, <3>3, ActualKept DEF Same, Facts, TypeFacts
    <3>5. LockTarget(t)' = Actual(p)'
      BY <3>2 DEF WalkSame, LockTarget, Actual, At
    <3> QED
      BY <3>1, <3>3, <3>4, <3>5
  <2> QED
    BY <1>1, <2>1 DEF Stepping, Same, WalkSame, Syncing
<1>6. t = w => Own(w)'
  BY <1>1, <1>2 DEF Own, Same, WalkSame, WsCurId
<1> QED
  BY <1>4, <1>5, <1>6

-----------------------------------------------------------------------------
(* The lists and the blocks in the steps of rlu.c. *)

BlockInv(w) == Lists(w) /\ Copied(w) /\ Blocks(w) /\ Buffered(w)

LEMMA EndingSteps ==
    ASSUME TypeInv, NEW t \in Threads, Thread(t), ~SyncUnstamp(t), ~SyncEnd(t)
    PROVE  pc'[t] \in {"commit", "sync_end"} <=> pc[t] \in {"commit", "sync_end"}
<1>0. pc \in [Threads -> Labels]
  BY CounterTypes
<1> USE DEF Goto
<1>1. CASE ThreadInit(t) \/ ThreadPublish(t) \/ SyncCheckpoint(t)
  BY <1>0, <1>1 DEF ThreadInit, ThreadPublish, SyncCheckpoint, Checkpoint, SyncCall
<1>2. CASE ThreadFinish(t) \/ ThreadFinish2(t)
  BY <1>0, <1>2 DEF ThreadFinish, ThreadFinish2, SyncCall
<1>3. CASE Begin(t)
  <2>1. CASE ReaderLock(t)
    BY <1>0, <2>1 DEF ReaderLock, Checkpoint, SyncCall
  <2>2. CASE Register(t) \/ ReadVersion(t) \/ ReadCommitVersion(t)
    BY <1>0, <2>2 DEF Register, ReadVersion, ReadCommitVersion
  <2> QED
    BY <1>3, <2>1, <2>2 DEF Begin
<1>4. CASE Steal(t) \/ TryLockCas(t) \/ TryLockCopy(t) \/ SendSyncRequest(t)
  BY <1>0, <1>4 DEF Steal, TryLockCas, TryLockCopy, SendSyncRequest
<1>5. ASSUME NEW o \in Objs,
             \/ Deref(t, o) \/ DerefLocked(t, o)
             \/ TryLock(t, o) \/ TryLockOwn(t, o) \/ TryLockFail(t, o)
      PROVE  pc[t] = "section" /\ pc'[t] \in {"section", "steal", "request", "cas", "failed"}
  BY <1>0, <1>5 DEF Deref, DerefLocked, TryLock, TryLockOwn, TryLockFail, MayLock
<1>6. ASSUME NEW l \in WriterLocks, TryWriterLock(t, l)
      PROVE  pc[t] = "section" /\ pc'[t] \in {"section", "failed"}
  BY <1>0, <1>6 DEF TryWriterLock
<1>7. CASE End(t)
  <2>1. CASE ReaderUnlock(t) \/ Abort(t) \/ UnlockObjs(t) \/ ReleaseWriterLock(t)
    BY <1>0, <2>1 DEF ReaderUnlock, Abort, UnlockObjs, ReleaseWriterLock, Releasing
  <2>2. CASE CommitUnlock(t) \/ ReleaseEnd(t)
    BY <1>0, <2>2 DEF CommitUnlock, ReleaseEnd, Releasing, Checkpoint, SyncCall
  <2> QED
    BY <1>7, <2>1, <2>2 DEF End
<1>8. CASE Sync(t)
  <2>1. CASE SyncLoad(t) \/ SyncStore(t) \/ SyncBump(t) \/ Scan(t) \/ ScanEnd(t) \/ Wait(t)
    BY <1>0, <2>1 DEF SyncLoad, SyncStore, SyncBump, Scan, ScanEnd, Wait
  <2>2. CASE ResetWriteSets(t) \/ Writeback(t) \/ Unlock(t)
    BY <1>0, <2>2 DEF ResetWriteSets, Writeback, Unlock
  <2>3. CASE SyncCommit(t)
    BY <1>0, <2>3 DEF SyncCommit
  <2> QED
    BY <1>8, <2>1, <2>2, <2>3 DEF Sync
<1> QED
  BY <1>1, <1>2, <1>3, <1>4, <1>5, <1>6, <1>7, <1>8 DEF Thread, Access

\* The step of u does not assign, and what is assigned stays or is committed.
LEMMA LatestKept ==
    ASSUME NEW w \in Threads, Writers \subseteq {w}, RluInv(w), RluInv(w)',
           NEW u \in Threads, Thread(u), ~TryLockCopy(w),
           \/ ~CommitUnlock(w) /\ (Assigned(w)' <=> Assigned(w))
           \/ CommitUnlock(w) /\ Assigned(w)
    PROVE  /\ Latest(w)' = Latest(w)
           /\ UNCHANGED committed \/ committed' = Latest(w)
           /\ InSection(w)' /\ ~Assigned(w)' =>
                 /\ UNCHANGED committed
                 /\ \/ Updated(w)' = {}
                    \/ /\ InSection(w) /\ ~Assigned(w)
                       /\ Updated(w)' = Updated(w) /\ Future(w)' = Future(w)
<1>0. /\ UNCHANGED committed \/ (u = w /\ CommitUnlock(w) /\ committed' = Future(w))
      /\ InSection(w)' => UNCHANGED committed
  BY CommittedStep
<1>1. Assigned(w)' => InSection(w)'
  BY DEF Assigned, InSection
<1>2. InSection(w)' => \/ ReadVersion(w) /\ Updated(w)' = {}
                       \/ InSection(w) /\ Updated(w)' = Updated(w) /\ Future(w)' = Future(w)
  BY UpdatedStep
<1>3. CASE CommitUnlock(w)
  <2>1. pc'[w] \in {"load", "release_prev"}
    BY <1>3, CounterTypes DEF CommitUnlock, SyncCall, Goto, RluInv, ValueInv, LogInv
  <2>2. ~InSection(w)' /\ ~Assigned(w)' /\ Assigned(w)
    BY <1>3, <2>1 DEF InSection, Assigned
  <2>3. committed' = Future(w)
    BY <1>3 DEF CommitUnlock, Future
  <2> QED
    BY <2>2, <2>3 DEF Latest
<1>4. CASE ~CommitUnlock(w)
  <2>1. UNCHANGED committed
    BY <1>0, <1>4
  <2>2. CASE Assigned(w)
    <3>1. Assigned(w)' /\ ~ReadVersion(w)
      BY <1>4, <2>2 DEF ReadVersion, Assigned
    <3> QED
      BY <1>1, <1>2, <2>1, <2>2, <3>1 DEF Latest
  <2>3. CASE ~Assigned(w)
    BY <1>2, <1>4, <2>1, <2>3 DEF Latest
  <2> QED
    BY <2>2, <2>3
<1> QED
  BY <1>3, <1>4

LEMMA BufferKept ==
    ASSUME NEW w \in Threads, Writers \subseteq {w}, RluInv(w), RluInv(w)',
           NEW u \in Threads, Thread(u), UNCHANGED free_nodes, free_nodes[w] \in Seq(Objs),
           Buffered(w), u = w => ~SyncEnd(w), u # w => step'[w] = step[w],
           \/ ~CommitUnlock(w) /\ (Assigned(w)' <=> Assigned(w))
           \/ CommitUnlock(w) /\ Assigned(w)
    PROVE  Buffered(w)'
<1>0. /\ TypeInv /\ TypeInv' /\ RingOf(w) /\ RingOf(w)'
      /\ Len(free_nodes[w]) \in Nat /\ max_write_sets \in Nat
  BY WriteSetsAssumption DEF RluInv, ValueInv, LogInv, Ring
<1>1. /\ ws_tail_counter[w] \in Nat /\ ws_wb_counter[w] \in Nat
      /\ ws_tail_counter'[w] \in Nat /\ ws_wb_counter'[w] \in Nat
      /\ ws_head_counter[w] \in Nat
  BY <1>0, CounterTypes DEF TypeInv, TypeOK, OwnTypes
<1>2. CASE u # w
  BY <1>0, <1>2, Others DEF Same, Buffered, Assigned
<1>3. CASE CommitUnlock(w)
  <2>1. pc'[w] \in {"load", "release_prev"} /\ pc[w] = "section" /\ ~Assigned(w)' /\ Assigned(w)
    BY <1>0, <1>3, CounterTypes DEF CommitUnlock, SyncCall, Goto, Assigned
  <2>2. ws_tail_counter'[w] = ws_tail_counter[w] + 1 /\ ws_wb_counter'[w] = ws_wb_counter[w]
    BY <1>0, <1>3, CounterTypes DEF CommitUnlock
  <2> QED
    BY <1>0, <1>1, <2>1, <2>2 DEF Buffered
<1>4. CASE u = w /\ SyncUnstamp(w)
  <2>1. pc'[w] = "commit" /\ pc[w] = "writeback" /\ ~Assigned(w)
    BY <1>0, <1>4, CounterTypes DEF SyncUnstamp, Goto, Assigned
  <2>2. Len(free_nodes[w]) <= ws_tail_counter[w] - ws_wb_counter[w]
    BY <1>0, <1>1, <2>1 DEF Buffered
  <2>3. ws_tail_counter[w] <= ws_wb_counter[w] + max_write_sets
    BY <1>0 DEF RingOf
  <2> QED
    BY <1>0, <1>1, <2>1, <2>2, <2>3 DEF Buffered
<1>5. CASE u = w /\ ~SyncUnstamp(w) /\ ~CommitUnlock(w)
  <2>1. pc'[w] \in {"commit", "sync_end"} <=> pc[w] \in {"commit", "sync_end"}
    BY <1>0, <1>5, EndingSteps
  <2>2. ws_tail_counter'[w] = ws_tail_counter[w] /\ ws_wb_counter'[w] = ws_wb_counter[w]
    BY <1>0, <1>5, RingSteps DEF TryLockCopy, ReleaseEnd, ResetWriteSets
  <2> QED
    BY <1>0, <1>1, <1>5, <2>1, <2>2 DEF Buffered
<1> QED
  BY <1>2, <1>3, <1>4, <1>5

LEMMA BlocksKept ==
    ASSUME NEW w \in Threads, Writers \subseteq {w}, RluInv(w), RluInv(w)', ListTypeOK, BlockInv(w),
           NEW u \in Threads, Thread(u), UNCHANGED blockVars, ~TryLockCopy(w),
           u = w => ~SyncEnd(w), u # w => step'[w] = step[w],
           \/ ~CommitUnlock(w) /\ (Assigned(w)' <=> Assigned(w))
           \/ CommitUnlock(w) /\ Assigned(w),
           TryLockCas(u) => cur_obj[u] \notin free
    PROVE  BlockInv(w)'
<1>0. UNCHANGED <<mem, free, free_nodes>> /\ LogInv /\ TypeInv'
  BY DEF blockVars, RluInv, ValueInv, LogInv
<1>1. Lists(w)'
  <2>1. Alive(w)' = Alive(w) /\ Alive(w) \in SUBSET (Objs \ free)
    BY <1>0 DEF Alive, Freed
  <2>2. Latest(w)' = Latest(w) /\ (UNCHANGED committed \/ committed' = Latest(w))
    BY LatestKept
  <2>3. IsList(mem, Latest(w), Alive(w)) /\ Listed(committed) /\ Listed(Store)
    BY DEF BlockInv, Lists
  <2>4. Listed(Latest(w))
    BY <2>1, <2>3 DEF Listed
  <2>5. PICK l, c, s : l = Latest(w)' /\ c = committed' /\ s = Store'
    OBVIOUS
  <2>6. c = committed \/ c = Latest(w)
    BY <2>2, <2>5
  <2>7. Listed(c) /\ (s = Store \/ s = c)
    BY <2>3, <2>4, <2>5, <2>6, StoreStep
  <2>8. IsList(mem, l, Alive(w)) /\ Listed(c) /\ Listed(s)
    BY <2>2, <2>3, <2>5, <2>7
  <2>9. IsList(mem', l, Alive(w)') /\ Listed(c)' /\ Listed(s)'
    BY <1>0, <2>1, <2>8 DEF Listed
  <2> QED
    BY <2>5, <2>9 DEF Lists, Listed
<1>2. Copied(w)'
  <2> SUFFICES ASSUME InSection(w)', ~Assigned(w)', NEW o \in Updated(w)'
               PROVE  Future(w)'[o] \in DOMAIN mem'[o]
                      /\ mem'[o][Future(w)'[o]] = mem'[o][committed'[o]]
    BY DEF Copied
  <2>1. /\ UNCHANGED committed
        /\ InSection(w) /\ ~Assigned(w) /\ Updated(w)' = Updated(w) /\ Future(w)' = Future(w)
    BY LatestKept
  <2> QED
    BY <1>0, <2>1 DEF BlockInv, Copied
<1>3. Blocks(w)'
  <2>1. ASSUME NEW o \in free PROVE p_obj_copy'[o] = NULL
    <3>1. o \in Objs /\ p_obj_copy[o] = NULL
      BY DEF ListTypeOK, BlockInv, Blocks
    <3>2. p_obj_copy'[o] \in Addr \cup {NULL}
      BY <1>0, <3>1 DEF TypeInv, TypeOK, GlobalTypes
    <3>3. p_obj_copy'[o] \notin Addr
      BY <1>0, <2>1, <3>1, PointersStep, CopyTypes DEF LogInv
    <3> QED
      BY <3>2, <3>3
  <2> QED
    BY <1>0, <2>1 DEF BlockInv, Blocks, Freed
<1>4. Buffered(w)'
  BY <1>0, BufferKept DEF ListTypeOK, BlockInv
<1> QED
  BY <1>1, <1>2, <1>3, <1>4 DEF BlockInv

-----------------------------------------------------------------------------
(* The steps that leave the blocks alone. *)

\* What is left to show of a step of u is what it does to its own variables.
LEMMA QuietStep ==
    ASSUME NEW w \in Threads, Writers \subseteq {w}, RluInv(w), RluInv(w)', LInv(w),
           NEW u \in Threads, Thread(u), UNCHANGED blockVars,
           \A t \in Threads \ {u} : WalkSame(t), ListTypeOK', DOMAIN call' = Threads,
           Stepping(w, u)', Position(w, u)', u = w => Own(w)',
           u = w => /\ ~TryLockCopy(w) /\ ~SyncEnd(w)
                    /\ \/ ~CommitUnlock(w) /\ (Assigned(w)' <=> Assigned(w))
                       \/ CommitUnlock(w) /\ Assigned(w),
           TryLockCas(u) => cur_obj[u] \notin free
    PROVE  LInv(w)'
<1>0. TypeInv /\ BlockInv(w) /\ Own(w) /\ ListTypeOK /\ UNCHANGED <<mem, free>>
  BY DEF LInv, BlockInv, RluInv, ValueInv, LogInv, blockVars
<1>1. ASSUME NEW t \in Threads \ {u}
      PROVE  Stepping(w, t)' /\ Position(w, t)' /\ (t = w => Own(w)')
  <2>1. SameList(Walked(w, t)) /\ WalkSame(t) /\ Stepping(w, t) /\ Position(w, t)
    BY <1>0, SameBlocks DEF LInv
  <2> QED
    BY <1>0, <1>1, <2>1, OtherThread
<1>2. u # w => /\ ~TryLockCopy(w) /\ ~CommitUnlock(w) /\ (Assigned(w)' <=> Assigned(w))
               /\ step'[w] = step[w]
  <2> SUFFICES ASSUME u # w
               PROVE  /\ ~TryLockCopy(w) /\ ~CommitUnlock(w) /\ (Assigned(w)' <=> Assigned(w))
                      /\ step'[w] = step[w]
    OBVIOUS
  <2>1. Same(w) /\ WalkSame(w)
    BY <1>0, Others
  <2>2. ~TryLockCopy(w) /\ ~CommitUnlock(w)
    BY <1>0, <2>1, CounterTypes DEF Same, TryLockCopy, CommitUnlock, Goto, SyncCall
  <2> QED
    BY <2>1, <2>2 DEF Same, WalkSame, Assigned
<1>3. BlockInv(w)'
  BY <1>0, <1>2, BlocksKept
<1>4. Own(w)'
  BY <1>1
<1>5. \A t \in Threads : Stepping(w, t)' /\ Position(w, t)'
  BY <1>1
<1> QED
  BY <1>3, <1>4, <1>5 DEF LInv, BlockInv

\* t starts a section, or is to start one.
Starting(t) ==
    \/ pc[t] \in {"register", "version", "commit_version"}
    \/ Syncing(t) /\ ret[t] = "register"

LEMMA LibraryOut ==
    ASSUME TypeInv, NEW t \in Threads, Library(t),
           ~ReadVersion(t), ~ReadCommitVersion(t), ~TryLockCas(t), ~SendSyncRequest(t)
    PROVE  ~InSection(t)' /\ ~InSection(t) /\ (Starting(t)' => Starting(t))
<1> USE CounterTypes DEF InSection, Starting, Syncing, SyncLabels, Goto
<1>1. CASE Register(t)
  BY <1>1 DEF Register
<1>2. CASE UnlockObjs(t)
  BY <1>2 DEF UnlockObjs
<1>3. CASE ReleaseEnd(t)
  BY <1>3 DEF ReleaseEnd, Releasing, Checkpoint, SyncCall
<1>4. CASE SyncLoad(t) \/ SyncStore(t) \/ SyncBump(t) \/ Scan(t) \/ ScanEnd(t)
  BY <1>4 DEF SyncLoad, SyncStore, SyncBump, Scan, ScanEnd
<1>5. CASE Wait(t) \/ ResetWriteSets(t) \/ Writeback(t) \/ Unlock(t)
  BY <1>5 DEF Wait, ResetWriteSets, Writeback, Unlock
<1>6. CASE SyncUnstamp(t) \/ SyncCommit(t)
  BY <1>6 DEF SyncUnstamp, SyncCommit
<1>7. CASE ThreadFinish2(t)
  BY <1>7 DEF ThreadFinish2, SyncCall
<1> QED
  BY <1>1, <1>2, <1>3, <1>4, <1>5, <1>6, <1>7 DEF Library

\* Out of its section a thread only has to be where the call expects it.
LEMMA SteppingOut ==
    ASSUME NEW w \in Threads, NEW t \in Threads, ~InSection(t)',
           Starting(t)' => step'[t] = "head",
           step'[t] # "out" => call'[t].op \in Ops[t] /\ call'[t].key \in CallKeys,
           step'[t] \in LockSteps \cup {"assign"} => call'[t].op \in {"add", "remove"},
           step'[t] = "succ" => call'[t].op = "remove",
           step'[t] \in {"lock_next", "assign"} => t = w
    PROVE  Stepping(w, t)' /\ Position(w, t)' /\ (t = w => Own(w)')
<1>1. Stepping(w, t)'
  BY DEF Stepping, InSection, Starting
<1>2. Position(w, t)'
  BY DEF Position
<1>3. t = w => Own(w)'
  BY DEF Own
<1> QED
  BY <1>1, <1>2, <1>3

LEMMA SteppingFacts ==
    ASSUME NEW w \in Threads, NEW t \in Threads, Stepping(w, t)
    PROVE  /\ step[t] # "out" => call[t].op \in Ops[t] /\ call[t].key \in CallKeys
           /\ step[t] \in LockSteps \cup {"assign"} => call[t].op \in {"add", "remove"}
           /\ step[t] = "succ" => call[t].op = "remove"
           /\ step[t] \in {"lock_next", "assign"} => t = w
           /\ Starting(t) => step[t] = "head"
BY DEF Stepping, Starting

LEMMA ListLibraryOut ==
    ASSUME NEW w \in Threads, Writers \subseteq {w}, RluInv(w), RluInv(w)', LInv(w),
           NEW u \in Threads, Thread(u), Library(u),
           ~ReadVersion(u), ~ReadCommitVersion(u), ~TryLockCas(u), ~SendSyncRequest(u)
    PROVE  LInv(w)'
<1>0. TypeInv /\ Stepping(w, u) /\ UNCHANGED listVars /\ ListTypeOK /\ DOMAIN call = Threads
  BY DEF RluInv, ValueInv, LogInv, LInv, Library
<1>1. ~InSection(u)' /\ ~InSection(u) /\ (Starting(u)' => Starting(u))
  BY <1>0, LibraryOut
<1>2. UNCHANGED blockVars /\ \A t \in Threads : WalkSame(t)
  BY <1>0 DEF listVars, WalkSame, walkVars
<1>3. ListTypeOK' /\ DOMAIN call' = Threads
  BY <1>0 DEF ListTypeOK, listVars, blockVars, walkVars
<1>4. Stepping(w, u)' /\ Position(w, u)' /\ (u = w => Own(w)')
  <2>1. step'[u] = step[u] /\ call'[u] = call[u]
    BY <1>2 DEF WalkSame
  <2> QED
    BY <1>0, <1>1, <2>1, SteppingFacts, SteppingOut
<1>5. ~TryLockCopy(u) /\ ~CommitUnlock(u) /\ ~SyncEnd(u)
  <2>1. ~TryLockCopy(u) /\ ~CommitUnlock(u)
    BY <1>1 DEF InSection, TryLockCopy, CommitUnlock
  <2>2. ~SyncEnd(u)
    <3>1. pc[u] # "sync_end"
      BY <1>1 DEF InSection, Library, Register, UnlockObjs, ReleaseEnd, Releasing, SyncLoad,
         SyncStore, SyncBump, Scan, ScanEnd, Wait, ResetWriteSets, Writeback, Unlock,
         SyncUnstamp, SyncCommit, ThreadFinish2
    <3> QED
      BY <3>1 DEF SyncEnd
  <2> QED
    BY <2>1, <2>2
<1>6. ~Assigned(u)' /\ ~Assigned(u)
  BY <1>1 DEF Assigned, InSection
<1> QED
  BY <1>2, <1>3, <1>4, <1>5, <1>6, QuietStep

\* A section that goes on with the pointers that it has.
LEMMA PositionStays ==
    ASSUME NEW w \in Threads, Writers \subseteq {w}, RluInv(w), RluInv(w)',
           NEW u \in Threads, Thread(u), UNCHANGED <<mem, free>>, Position(w, u),
           InSection(u), WalkSame(u), refs'[u] = refs[u],
           pc'[u] = "steal" => step[u] \in WalkSteps /\ cur_obj'[u] = Target(u, Walked(w, u))
    PROVE  /\ Position(w, u)'
           /\ (InSection(u)' /\ step[u] \in LockSteps) => LockTarget(u)' = LockTarget(u)
<1>0. Facts(w) /\ Facts(w)' /\ SameList(Walked(w, u))
  BY FactsNow, FactsNext, SameBlocks
<1>1. InSection(u)' => Walked(w, u)' = Walked(w, u)
  BY WalkedStep DEF InSection, ReadVersion
<1>2. Position(w, u)'
  <2>1. CASE ~InSection(u)'
    BY <2>1 DEF Position
  <2>2. CASE InSection(u)'
    BY <1>0, <1>1, <2>2, PositionKept
  <2> QED
    BY <2>1, <2>2
<1>3. (InSection(u)' /\ step[u] \in LockSteps) => LockTarget(u)' = LockTarget(u)
  <2> SUFFICES ASSUME InSection(u)', step[u] \in LockSteps
               PROVE  LockTarget(u)' = LockTarget(u)
    OBVIOUS
  <2>1. PICK p : p = IF step[u] = "lock_prev" THEN p_prev[u] ELSE p_next[u]
    OBVIOUS
  <2>2. GotPtr(u, p) /\ LockTarget(u) = Actual(p)
    BY <2>1 DEF Position, Walk, LockTarget, LockSteps
  <2>3. Actual(p)' = Actual(p)
    BY <1>0, <2>2, ActualKept DEF Facts, TypeFacts
  <2>4. LockTarget(u)' = Actual(p)'
    BY <2>1 DEF WalkSame, LockTarget, Actual, At
  <2> QED
    BY <2>2, <2>3, <2>4
<1> QED
  BY <1>2, <1>3

\* The object that is being locked is on the list.
LEMMA LockTargetListed ==
    ASSUME NEW w \in Threads, NEW u \in Threads, Position(w, u), InSection(u), step[u] \in LockSteps
    PROVE  LockTarget(u) \in Objs /\ LockTarget(u) \notin free
<1>1. PICK S \in SUBSET (Objs \ free) : \A r \in refs[u] : r[1] \in S
  BY DEF Position, OnList
<1>2. PICK p : GotPtr(u, p) /\ LockTarget(u) = Actual(p)
  BY DEF Position, Walk, LockTarget, LockSteps
<1> QED
  BY <1>1, <1>2 DEF GotPtr

LEMMA ListReadVersion ==
    ASSUME NEW w \in Threads, Writers \subseteq {w}, RluInv(w), RluInv(w)', LInv(w),
           NEW u \in Threads, Thread(u), UNCHANGED listVars, ReadVersion(u)
    PROVE  LInv(w)'
<1>0. TypeInv /\ Stepping(w, u) /\ ListTypeOK /\ DOMAIN call = Threads /\ Lists(w)
  BY DEF RluInv, ValueInv, LogInv, LInv
<1>1. pc[u] = "version" /\ pc'[u] = "commit_version" /\ step[u] = "head"
  BY <1>0, CounterTypes DEF ReadVersion, Goto, Stepping
<1>2. /\ UNCHANGED blockVars /\ UNCHANGED <<mem, free>> /\ \A t \in Threads : WalkSame(t)
      /\ ListTypeOK' /\ DOMAIN call' = Threads
  BY <1>0 DEF listVars, WalkSame, walkVars, ListTypeOK, blockVars
<1>3. Position(w, u)'
  <2>1. refs'[u] = {} /\ (Walked(w, u)' = committed \/ Walked(w, u)' = Store)
    BY <1>1, WalkedStep DEF InSection
  <2>2. PICK c : c = Walked(w, u)' /\ (c = committed \/ c = Store)
    BY <2>1
  <2>3. Listed(c)
    BY <1>0, <2>2 DEF Lists
  <2>4. OnList(u, c)'
    BY <1>2, <2>1, <2>3 DEF OnList, Listed
  <2>5. Walk(u, c)'
    BY <1>1, <1>2 DEF Walk, WalkSame, LockSteps
  <2> QED
    BY <2>2, <2>4, <2>5 DEF Position
<1>4. Stepping(w, u)'
  BY <1>0, <1>1, <1>2 DEF Stepping, Syncing, SyncLabels, WalkSame, LockSteps
<1>5. u = w => Own(w)'
  <2> SUFFICES ASSUME u = w PROVE Own(w)'
    OBVIOUS
  <2>1. ~is_write_detected'[w]
    BY <1>1 DEF RluInv, ValueInv, LogInv, Ring, DetectedOf
  <2> QED
    BY <1>1, <1>2, <2>1 DEF Own, WalkSame, WalkSteps
<1>6. ~TryLockCopy(u) /\ ~CommitUnlock(u) /\ ~SyncEnd(u) /\ ~TryLockCas(u)
      /\ ~Assigned(u)' /\ ~Assigned(u)
  BY <1>1 DEF TryLockCopy, CommitUnlock, SyncEnd, TryLockCas, Assigned
<1> QED
  BY <1>2, <1>3, <1>4, <1>5, <1>6, QuietStep

LEMMA ListReadCommitVersion ==
    ASSUME NEW w \in Threads, Writers \subseteq {w}, RluInv(w), RluInv(w)', LInv(w),
           NEW u \in Threads, Thread(u), UNCHANGED listVars, ReadCommitVersion(u)
    PROVE  LInv(w)'
<1>0. /\ TypeInv /\ Stepping(w, u) /\ Position(w, u) /\ ListTypeOK /\ DOMAIN call = Threads
      /\ Own(w)
  BY DEF RluInv, ValueInv, LogInv, LInv
<1>1. /\ pc[u] = "commit_version" /\ pc'[u] = "section" /\ step[u] = "head"
      /\ UNCHANGED <<refs, is_write_detected, ws_tail_counter>>
  BY <1>0, CounterTypes DEF ReadCommitVersion, Goto, Stepping
<1>2. /\ UNCHANGED blockVars /\ UNCHANGED <<mem, free>> /\ \A t \in Threads : WalkSame(t)
      /\ ListTypeOK' /\ DOMAIN call' = Threads
  BY <1>0 DEF listVars, WalkSame, walkVars, ListTypeOK, blockVars
<1>3. Position(w, u)'
  BY <1>0, <1>1, <1>2, PositionStays DEF InSection
<1>4. Stepping(w, u)'
  BY <1>0, <1>1, <1>2 DEF Stepping, Syncing, SyncLabels, WalkSame, WalkSteps, LockSteps
<1>5. u = w => Own(w)'
  BY <1>0, <1>1, <1>2 DEF Own, WalkSame, WsCurId, InSection, WalkSteps
<1>6. ~TryLockCopy(u) /\ ~CommitUnlock(u) /\ ~SyncEnd(u) /\ ~TryLockCas(u)
      /\ ~Assigned(u)' /\ ~Assigned(u)
  BY <1>1, <1>2 DEF TryLockCopy, CommitUnlock, SyncEnd, TryLockCas, Assigned, WalkSame
<1> QED
  BY <1>2, <1>3, <1>4, <1>5, <1>6, QuietStep

LEMMA ListTryLockCas ==
    ASSUME NEW w \in Threads, Writers \subseteq {w}, RluInv(w), RluInv(w)', LInv(w),
           NEW u \in Threads, Thread(u), UNCHANGED listVars, TryLockCas(u)
    PROVE  LInv(w)'
<1>0. /\ TypeInv /\ Stepping(w, u) /\ Position(w, u) /\ ListTypeOK /\ DOMAIN call = Threads
      /\ Own(w)
  BY DEF RluInv, ValueInv, LogInv, LInv
<1>1. /\ pc[u] = "cas" /\ pc'[u] \in {"copy", "failed"} /\ step[u] \in LockSteps
      /\ UNCHANGED <<refs, is_write_detected, ws_tail_counter>>
      /\ pc'[u] = "copy" => cur_obj'[u] = cur_obj[u]
      /\ cur_obj[u] = LockTarget(u)
  BY <1>0, CounterTypes DEF TryLockCas, Goto, Stepping
<1>2. /\ UNCHANGED blockVars /\ UNCHANGED <<mem, free>> /\ \A t \in Threads : WalkSame(t)
      /\ ListTypeOK' /\ DOMAIN call' = Threads
  BY <1>0 DEF listVars, WalkSame, walkVars, ListTypeOK, blockVars
<1>3. Position(w, u)' /\ LockTarget(u)' = LockTarget(u)
  BY <1>0, <1>1, <1>2, PositionStays DEF InSection
<1>4. Stepping(w, u)'
  BY <1>0, <1>1, <1>2, <1>3 DEF Stepping, Syncing, SyncLabels, WalkSame
<1>5. u = w => Own(w)'
  BY <1>0, <1>1, <1>2 DEF Own, WalkSame, WsCurId, InSection
<1>6. ~TryLockCopy(u) /\ ~CommitUnlock(u) /\ ~SyncEnd(u)
      /\ ~Assigned(u)' /\ ~Assigned(u)
  BY <1>1, <1>2 DEF TryLockCopy, CommitUnlock, SyncEnd, Assigned
<1>7. cur_obj[u] \notin free
  BY <1>0, <1>1, LockTargetListed DEF InSection
<1> QED
  BY <1>2, <1>3, <1>4, <1>5, <1>6, <1>7, QuietStep

LEMMA ListSendSyncRequest ==
    ASSUME NEW w \in Threads, Writers \subseteq {w}, RluInv(w), RluInv(w)', LInv(w),
           NEW u \in Threads, Thread(u), UNCHANGED listVars, SendSyncRequest(u)
    PROVE  LInv(w)'
<1>0. /\ TypeInv /\ Stepping(w, u) /\ Position(w, u) /\ ListTypeOK /\ DOMAIN call = Threads
      /\ Own(w)
  BY DEF RluInv, ValueInv, LogInv, LInv
<1>1. /\ pc[u] = "request" /\ pc'[u] = "failed" /\ step[u] \in LockSteps
      /\ UNCHANGED <<refs, is_write_detected, ws_tail_counter>>
  BY <1>0, CounterTypes DEF SendSyncRequest, Goto, Stepping, ownVars, flagVars, counterVars
<1>2. /\ UNCHANGED blockVars /\ UNCHANGED <<mem, free>> /\ \A t \in Threads : WalkSame(t)
      /\ ListTypeOK' /\ DOMAIN call' = Threads
  BY <1>0 DEF listVars, WalkSame, walkVars, ListTypeOK, blockVars
<1>3. Position(w, u)' /\ LockTarget(u)' = LockTarget(u)
  BY <1>0, <1>1, <1>2, PositionStays DEF InSection
<1>4. Stepping(w, u)'
  BY <1>0, <1>1, <1>2, <1>3 DEF Stepping, Syncing, SyncLabels, WalkSame
<1>5. u = w => Own(w)'
  BY <1>0, <1>1, <1>2 DEF Own, WalkSame, WsCurId, InSection
<1>6. ~TryLockCopy(u) /\ ~CommitUnlock(u) /\ ~SyncEnd(u) /\ ~TryLockCas(u)
      /\ ~Assigned(u)' /\ ~Assigned(u)
  BY <1>1, <1>2 DEF TryLockCopy, CommitUnlock, SyncEnd, TryLockCas, Assigned
<1> QED
  BY <1>2, <1>3, <1>4, <1>5, <1>6, QuietStep

LEMMA WalkTarget ==
    ASSUME NEW w \in Threads, Writers \subseteq {w}, RluInv(w), LInv(w), NEW u \in Threads,
           InSection(u), step[u] \in WalkSteps
    PROVE  /\ DerefTarget(u) = Target(u, Walked(w, u)) /\ DerefTarget(u) \in Objs
           /\ pc[u] = "steal" => cur_obj[u] = Target(u, Walked(w, u))
<1>0. /\ Facts(w) /\ Own(w) /\ Stepping(w, u)
      /\ OnList(u, Walked(w, u)) /\ Walk(u, Walked(w, u))
  BY FactsNow DEF LInv, Position
<1>1. PICK S \in SUBSET (Objs \ free) :
          IsList(mem, Walked(w, u), S) /\ \A r \in refs[u] : r[1] \in S
  BY <1>0 DEF OnList
<1>2. DerefTarget(u) = Target(u, Walked(w, u))
  BY <1>0, DerefTargetIs
<1>3. Target(u, Walked(w, u)) \in S
  <2>1. call[u].key \in CallKeys /\ (step[u] = "succ" => call[u].op = "remove")
    BY <1>0, SteppingFacts DEF WalkSteps
  <2> QED
    BY <1>0, <1>1, <2>1, TargetOnList
<1>4. pc[u] = "steal" => cur_obj[u] = Target(u, Walked(w, u))
  BY <1>0 DEF Walk
<1> QED
  BY <1>2, <1>3, <1>4

\* The steps of rlu.c in a call.
LEMMA RluKinds ==
    ASSUME NEW w \in Threads, Writers \subseteq {w}, RluInv(w), LInv(w),
           NEW u \in Threads, StartOp(u) \/ Inside(u) \/ Finish(u),
           ~Return(u), ~Finish(u), ~AddNode(u), ~RemoveNode(u)
    PROVE  Begin(u) \/ Access(u) \/ End(u) \/ Sync(u) \/ ThreadFinish2(u)
<1>1. CASE StartOp(u) \/ Restart(u)
  BY <1>1 DEF StartOp, Restart, Begin
<1>2. CASE WalkDeref(u) \/ WalkDerefLocked(u)
  <2>1. InSection(u) /\ step[u] \in WalkSteps
    BY <1>2 DEF WalkDeref, WalkDerefLocked, Walking, InSection, WalkSteps
  <2>2. DerefTarget(u) \in Objs
    BY <2>1, WalkTarget
  <2>3. Deref(u, DerefTarget(u)) \/ DerefLocked(u, DerefTarget(u))
    BY <1>2 DEF WalkDeref, WalkDerefLocked
  <2> QED
    BY <2>2, <2>3 DEF Access
<1>3. CASE WalkSteal(u) \/ ListTryLockCopy(u)
  BY <1>3 DEF WalkSteal, ListTryLockCopy, Access
<1>4. CASE ListTryLock(u)
  <2>1. LockTarget(u) \in Objs
    <3>1. InSection(u) /\ step[u] \in LockSteps /\ Position(w, u)
      BY <1>4 DEF ListTryLock, LockStep, InSection, LockSteps, LInv
    <3> QED
      BY <3>1, LockTargetListed
  <2> QED
    BY <1>4, <2>1 DEF ListTryLock, Access
<1>5. CASE ListAbort(u) \/ ListUnlock(u)
  BY <1>5 DEF ListAbort, ListUnlock, End
<1>6. CASE ListSyncEnd(u)
  BY <1>6 DEF ListSyncEnd, Sync
<1>7. CASE Library(u)
  BY <1>7 DEF Library, Begin, Access, End, Sync
<1> QED
  BY <1>1, <1>2, <1>3, <1>4, <1>5, <1>6, <1>7 DEF Inside

\* The list calls rlu.c as its clients may.
LEMMA RluOfList ==
    ASSUME NEW w \in Threads, Writers \subseteq {w}, RluInv(w), LInv(w), NEW u \in Threads,
           StartOp(u) \/ Inside(u) \/ Finish(u)
    PROVE  Thread(u) \/ (UNCHANGED vars /\ (AddNode(u) \/ RemoveNode(u) \/ Return(u)))
<1>1. CASE AddNode(u)
  <2>1. PICK o \in free : Alloc(o)
    BY <1>1 DEF AddNode
  <2>2. p_obj_copy[o] = NULL /\ o \in Objs /\ p_obj_copy \in [Objs -> Addr \cup {NULL}]
    BY CopyTypes DEF LInv, Blocks, ListTypeOK, RluInv, ValueInv, LogInv
  <2>3. UNCHANGED p_obj_copy
    BY <2>1, <2>2 DEF Alloc
  <2> QED
    BY <1>1, <2>3 DEF AddNode, UnchangedRlu
<1>2. CASE RemoveNode(u)
  BY <1>2 DEF RemoveNode, UnchangedRlu
<1>3. CASE Return(u)
  BY <1>3 DEF Return
<1>4. CASE Finish(u)
  BY <1>4 DEF Finish, Thread
<1> QED
  BY <1>1, <1>2, <1>3, <1>4, RluKinds DEF Thread

-----------------------------------------------------------------------------
(* The steps of the walk. *)

LEMMA WalkArrives ==
    ASSUME NEW w \in Threads, Writers \subseteq {w}, RluInv(w), RluInv(w)', LInv(w),
           NEW u \in Threads, Thread(u), WalkDeref(u) \/ WalkSteal(u)
    PROVE  /\ InSection(u) /\ step[u] \in WalkSteps /\ pc'[u] = "section"
           /\ UNCHANGED <<data, obj_write_set, is_write_detected, ws_tail_counter>>
           /\ \E p : Arrive(u, p) /\ Node(p).val = Key(mem, Walked(w, u), Target(u, Walked(w, u)))
           /\ Stepping(w, u)' /\ Position(w, u)' /\ ListTypeOK' /\ (u = w => Own(w)')
<1>0. /\ TypeInv /\ Facts(w) /\ Facts(w)' /\ Stepping(w, u) /\ Position(w, u) /\ ListTypeOK
      /\ DOMAIN call = Threads /\ Own(w) /\ refs \in [Threads -> SUBSET (Objs \X Ptr)]
  BY FactsNow, FactsNext DEF RluInv, ValueInv, LogInv, LInv, Facts, TypeFacts
<1>1. /\ InSection(u) /\ step[u] \in WalkSteps /\ pc'[u] = "section"
      /\ UNCHANGED <<data, obj_write_set, is_write_detected, ws_tail_counter>>
  <2>1. CASE WalkDeref(u)
    BY <2>1 DEF WalkDeref, Walking, Deref, InSection, WalkSteps
  <2>2. CASE WalkSteal(u)
    BY <1>0, <2>2, CounterTypes DEF WalkSteal, Steal, Goto, InSection, Stepping
  <2> QED
    BY <2>1, <2>2
<1>2. PICK o, p : /\ o = Target(u, Walked(w, u)) /\ refs'[u] = refs[u] \cup {<<o, p>>}
                  /\ Arrive(u, p)
  <2>1. CASE WalkDeref(u)
    BY <1>0, <1>1, <2>1, WalkTarget DEF WalkDeref, Deref, Got
  <2>2. CASE WalkSteal(u)
    <3>1. cur_obj[u] = Target(u, Walked(w, u))
      BY <1>1, <2>2, WalkTarget DEF WalkSteal, Steal
    <3> QED
      BY <1>0, <2>2, <3>1 DEF WalkSteal, Steal, Got
  <2> QED
    BY <2>1, <2>2
<1>3. Walked(w, u)' = Walked(w, u)
  <2>1. InSection(u)' /\ ~ReadVersion(u)
    BY <1>1 DEF InSection, ReadVersion
  <2> QED
    BY <2>1, WalkedStep
<1> QED
  BY <1>0, <1>1, <1>2, <1>3, ArriveKeeps

LEMMA ListWalk ==
    ASSUME NEW w \in Threads, Writers \subseteq {w}, RluInv(w), RluInv(w)', LInv(w),
           NEW u \in Threads, Thread(u), WalkDeref(u) \/ WalkSteal(u)
    PROVE  LInv(w)'
<1>0. /\ TypeInv /\ Stepping(w, u) /\ Position(w, u) /\ ListTypeOK
      /\ DOMAIN call = Threads /\ Own(w)
  BY DEF RluInv, ValueInv, LogInv, LInv
<1>1. /\ InSection(u) /\ step[u] \in WalkSteps /\ pc'[u] = "section"
      /\ UNCHANGED <<data, obj_write_set, is_write_detected, ws_tail_counter>>
      /\ Stepping(w, u)' /\ Position(w, u)' /\ ListTypeOK' /\ (u = w => Own(w)')
  BY WalkArrives
<1>2. PICK p : Arrive(u, p)
  BY WalkArrives
<1>3. UNCHANGED blockVars /\ UNCHANGED call /\ DOMAIN call' = Threads
  BY <1>0, <1>2 DEF Arrive
<1>4. ASSUME NEW t \in Threads \ {u} PROVE WalkSame(t)
  BY <1>0, <1>2, <1>3 DEF Arrive, GotoStep, ListTypeOK, WalkSame
<1>5. pc[u] \in {"section", "steal"} /\ (pc[u] = "section" => WalkDeref(u))
  BY DEF WalkDeref, Walking, WalkSteal, Steal
<1>6. ~TryLockCopy(u) /\ ~CommitUnlock(u) /\ ~SyncEnd(u) /\ ~TryLockCas(u)
  <2>1. ~CommitUnlock(u)
    BY <1>0, <1>1, CounterTypes DEF CommitUnlock, SyncCall, Goto
  <2> QED
    BY <1>5, <2>1 DEF TryLockCopy, SyncEnd, TryLockCas
<1>7. u = w => ~Assigned(w)' /\ ~Assigned(w)
  BY <1>0, <1>1 DEF Own, Assigned
<1> QED
  BY <1>1, <1>3, <1>4, <1>6, <1>7, QuietStep

LEMMA ListDerefLocked ==
    ASSUME NEW w \in Threads, Writers \subseteq {w}, RluInv(w), RluInv(w)', LInv(w),
           NEW u \in Threads, Thread(u), WalkDerefLocked(u)
    PROVE  LInv(w)'
<1>0. /\ TypeInv /\ Stepping(w, u) /\ Position(w, u) /\ ListTypeOK
      /\ DOMAIN call = Threads /\ Own(w) /\ cur_obj \in [Threads -> Objs \cup {NULL}]
  BY CopyTypes DEF RluInv, ValueInv, LogInv, LInv
<1>1. /\ pc[u] = "section" /\ step[u] \in WalkSteps /\ pc'[u] = "steal"
      /\ UNCHANGED <<refs, is_write_detected, ws_tail_counter, listVars>>
      /\ cur_obj'[u] = DerefTarget(u)
  BY <1>0, CounterTypes DEF WalkDerefLocked, Walking, DerefLocked, Goto, WalkSteps
<1>2. /\ UNCHANGED blockVars /\ UNCHANGED <<mem, free>> /\ \A t \in Threads : WalkSame(t)
      /\ ListTypeOK' /\ DOMAIN call' = Threads
  BY <1>0, <1>1 DEF listVars, WalkSame, walkVars, ListTypeOK, blockVars
<1>3. Position(w, u)'
  <2>1. InSection(u) /\ DerefTarget(u) = Target(u, Walked(w, u))
    BY <1>1, WalkTarget DEF InSection
  <2> QED
    BY <1>0, <1>1, <1>2, <2>1, PositionStays
<1>4. Stepping(w, u)'
  BY <1>0, <1>1, <1>2 DEF Stepping, Syncing, SyncLabels, WalkSame, WalkSteps
<1>5. u = w => Own(w)'
  BY <1>0, <1>1, <1>2 DEF Own, WalkSame, WsCurId, InSection
<1>6. ~TryLockCopy(u) /\ ~CommitUnlock(u) /\ ~SyncEnd(u) /\ ~TryLockCas(u)
  <2>1. ~CommitUnlock(u)
    BY <1>0, <1>1, CounterTypes DEF CommitUnlock, SyncCall, Goto
  <2> QED
    BY <1>1, <2>1 DEF TryLockCopy, SyncEnd, TryLockCas
<1>7. ~Assigned(u)' /\ ~Assigned(u)
  BY <1>1 DEF Assigned, WalkSteps
<1> QED
  BY <1>2, <1>3, <1>4, <1>5, <1>6, <1>7, QuietStep

-----------------------------------------------------------------------------
(* The other steps of the list that leave the blocks alone. *)

LEMMA ListLocking ==
    ASSUME NEW w \in Threads, Writers \subseteq {w}, RluInv(w), RluInv(w)', LInv(w),
           NEW u \in Threads, Thread(u), ListTryLock(u)
    PROVE  LInv(w)'
<1>0. /\ TypeInv /\ Stepping(w, u) /\ Position(w, u) /\ ListTypeOK
      /\ DOMAIN call = Threads /\ Own(w)
      /\ cur_obj \in [Threads -> Objs \cup {NULL}] /\ is_write_detected \in [Threads -> BOOLEAN]
  BY CopyTypes, CounterTypes DEF RluInv, ValueInv, LogInv, LInv
<1>1. /\ pc[u] = "section" /\ step[u] \in LockSteps /\ pc'[u] \in {"request", "cas", "failed"}
      /\ UNCHANGED <<refs, ws_tail_counter, listVars>>
      /\ pc'[u] = "cas" => cur_obj'[u] = LockTarget(u)
      /\ is_write_detected[u] => is_write_detected'[u]
  <2>1. CASE TryLock(u, LockTarget(u))
    BY <1>0, <2>1, CounterTypes DEF ListTryLock, LockStep, LockSteps, TryLock, Goto
  <2>2. CASE TryLockFail(u, LockTarget(u))
    BY <1>0, <2>2, CounterTypes DEF ListTryLock, LockStep, LockSteps, TryLockFail, Goto
  <2> QED
    BY <2>1, <2>2 DEF ListTryLock
<1>2. /\ UNCHANGED blockVars /\ UNCHANGED <<mem, free>> /\ \A t \in Threads : WalkSame(t)
      /\ ListTypeOK' /\ DOMAIN call' = Threads
  BY <1>0, <1>1 DEF listVars, WalkSame, walkVars, ListTypeOK, blockVars
<1>3. Position(w, u)' /\ LockTarget(u)' = LockTarget(u)
  BY <1>0, <1>1, <1>2, PositionStays DEF InSection
<1>4. Stepping(w, u)'
  BY <1>0, <1>1, <1>2, <1>3 DEF Stepping, Syncing, SyncLabels, WalkSame
<1>5. u = w => Own(w)'
  BY <1>0, <1>1, <1>2 DEF Own, WalkSame, WsCurId, InSection, WalkSteps, LockSteps
<1>6. ~TryLockCopy(u) /\ ~CommitUnlock(u) /\ ~SyncEnd(u) /\ ~TryLockCas(u)
  <2>1. ~CommitUnlock(u)
    BY <1>0, <1>1, CounterTypes DEF CommitUnlock, SyncCall, Goto
  <2> QED
    BY <1>1, <2>1 DEF TryLockCopy, SyncEnd, TryLockCas
<1>7. ~Assigned(u)' /\ ~Assigned(u)
  BY <1>1 DEF Assigned, LockSteps
<1> QED
  BY <1>2, <1>3, <1>4, <1>5, <1>6, <1>7, QuietStep

\* rlu_reader_lock, at the start of a call and again after an abort.
LEMMA ListStart ==
    ASSUME NEW w \in Threads, Writers \subseteq {w}, RluInv(w), RluInv(w)', LInv(w),
           NEW u \in Threads, Thread(u), StartOp(u) \/ Restart(u)
    PROVE  LInv(w)'
<1>0. /\ TypeInv /\ Stepping(w, u) /\ ListTypeOK /\ DOMAIN call = Threads
      /\ step \in [Threads -> Steps]
  BY DEF RluInv, ValueInv, LogInv, LInv, ListTypeOK
<1>1. /\ UNCHANGED <<blockVars, walkVars, result>> /\ step' = [step EXCEPT ![u] = "head"]
      /\ ReaderLock(u)
      /\ \/ call' = call /\ step[u] = "restart"
         \/ \E op \in Ops[u], key \in CallKeys : call' = [call EXCEPT ![u] = [op |-> op, key |-> key]]
  BY DEF StartOp, Restart, GotoStep
<1>2. /\ DOMAIN call' = Threads /\ \A t \in Threads \ {u} : call'[t] = call[t]
      /\ call'[u].op \in Ops[u] /\ call'[u].key \in CallKeys
  <2>1. CASE call' = call /\ step[u] = "restart"
    BY <1>0, <2>1 DEF Stepping
  <2>2. CASE \E op \in Ops[u], key \in CallKeys : call' = [call EXCEPT ![u] = [op |-> op, key |-> key]]
    BY <1>0, <2>2
  <2> QED
    BY <1>1, <2>1, <2>2
<1>3. /\ UNCHANGED blockVars /\ \A t \in Threads \ {u} : WalkSame(t)
      /\ step'[u] = "head"
  BY <1>0, <1>1, <1>2 DEF WalkSame, walkVars
<1>4. ListTypeOK'
  BY <1>0, <1>1, <1>2 DEF ListTypeOK, blockVars, walkVars, Steps
<1>5. pc[u] = "idle" /\ pc'[u] \in {"register", "load"}
  BY <1>0, <1>1, CounterTypes DEF ReaderLock, Checkpoint, SyncCall, Goto
<1>6. Stepping(w, u)' /\ Position(w, u)' /\ (u = w => Own(w)')
  BY <1>2, <1>3, <1>5, SteppingOut DEF InSection, LockSteps
<1>7. ~TryLockCopy(u) /\ ~CommitUnlock(u) /\ ~SyncEnd(u) /\ ~TryLockCas(u)
      /\ ~Assigned(u)' /\ ~Assigned(u)
  BY <1>5 DEF TryLockCopy, CommitUnlock, SyncEnd, TryLockCas, Assigned
<1> QED
  BY <1>2, <1>3, <1>4, <1>6, <1>7, QuietStep

LEMMA ListFinish ==
    ASSUME NEW w \in Threads, Writers \subseteq {w}, RluInv(w), RluInv(w)', LInv(w),
           NEW u \in Threads, Thread(u), Finish(u)
    PROVE  LInv(w)'
<1>0. /\ TypeInv /\ Stepping(w, u) /\ ListTypeOK /\ DOMAIN call = Threads
  BY DEF RluInv, ValueInv, LogInv, LInv
<1>1. pc[u] = "idle" /\ step[u] = "out" /\ UNCHANGED listVars /\ ThreadFinish(u)
  BY DEF Finish, ThreadFinish
<1>2. pc'[u] = "finish2" \/ (pc'[u] = "load" /\ ret'[u] = "finish2")
  BY <1>0, <1>1, CounterTypes DEF ThreadFinish, SyncCall, Goto
<1>3. /\ UNCHANGED blockVars /\ \A t \in Threads : WalkSame(t)
      /\ ListTypeOK' /\ DOMAIN call' = Threads
  BY <1>0, <1>1 DEF listVars, WalkSame, walkVars, ListTypeOK, blockVars
<1>4. Stepping(w, u)' /\ Position(w, u)' /\ (u = w => Own(w)')
  <2>1. ~InSection(u)' /\ ~Starting(u)' /\ step'[u] = "out"
    BY <1>1, <1>2, <1>3 DEF InSection, Starting, WalkSame, Syncing, SyncLabels
  <2> QED
    BY <2>1, SteppingOut DEF LockSteps
<1>5. ~TryLockCopy(u) /\ ~CommitUnlock(u) /\ ~SyncEnd(u) /\ ~TryLockCas(u)
      /\ ~Assigned(u)' /\ ~Assigned(u)
  BY <1>1, <1>2 DEF TryLockCopy, CommitUnlock, SyncEnd, TryLockCas, Assigned
<1> QED
  BY <1>3, <1>4, <1>5, QuietStep

\* The section of a call ends, with RLU_READER_UNLOCK or RLU_ABORT.
LEMMA ListLeave ==
    ASSUME NEW w \in Threads, Writers \subseteq {w}, RluInv(w), RluInv(w)', LInv(w),
           NEW u \in Threads, Thread(u), ListUnlock(u) \/ ListAbort(u)
    PROVE  LInv(w)'
<1>0. /\ TypeInv /\ Stepping(w, u) /\ ListTypeOK /\ DOMAIN call = Threads
      /\ step \in [Threads -> Steps]
  BY DEF RluInv, ValueInv, LogInv, LInv, ListTypeOK
<1>1. /\ UNCHANGED <<blockVars, walkVars, call, result>> /\ InSection(u)
      /\ \/ /\ step' = [step EXCEPT ![u] = "return"] /\ step[u] = "unlock"
            /\ ReaderUnlock(u) \/ CommitUnlock(u)
         \/ step' = [step EXCEPT ![u] = "restart"] /\ Abort(u)
  BY DEF ListUnlock, ListAbort, GotoStep, ReaderUnlock, CommitUnlock, Abort, InSection
<1>2. \/ pc'[u] \in {"release_cur", "release_prev", "unlock_objs"}
      \/ pc'[u] = "load" /\ ret'[u] = "release_prev"
  BY <1>0, <1>1, CounterTypes DEF ReaderUnlock, CommitUnlock, Abort, SyncCall, Goto
<1>3. /\ UNCHANGED blockVars /\ \A t \in Threads \ {u} : WalkSame(t)
      /\ DOMAIN call' = Threads /\ step'[u] \in {"return", "restart"} /\ call'[u] = call[u]
  BY <1>0, <1>1 DEF WalkSame, walkVars
<1>4. ListTypeOK'
  BY <1>0, <1>1 DEF ListTypeOK, blockVars, walkVars, Steps
<1>5. ~InSection(u)' /\ ~Starting(u)'
  BY <1>2 DEF InSection, Starting, Syncing, SyncLabels
<1>6. Stepping(w, u)' /\ Position(w, u)' /\ (u = w => Own(w)')
  <2>1. step[u] # "out"
    BY <1>0, <1>1 DEF Stepping, InSection, WalkSteps, LockSteps, Abort
  <2> QED
    BY <1>0, <1>3, <1>5, <2>1, SteppingFacts, SteppingOut DEF LockSteps
<1>7. ~TryLockCopy(u) /\ ~SyncEnd(u) /\ ~TryLockCas(u)
  BY <1>1 DEF ReaderUnlock, CommitUnlock, Abort, TryLockCopy, SyncEnd, TryLockCas
<1>8. ~Assigned(u)' /\ (Assigned(u) <=> CommitUnlock(u))
  <2>1. ~Assigned(u)'
    BY <1>2 DEF Assigned
  <2>2. CASE ReaderUnlock(u)
    BY <2>2 DEF ReaderUnlock, CommitUnlock, Assigned
  <2>3. CASE CommitUnlock(u) /\ step[u] = "unlock"
    <3>1. Assigned(u)
      BY <2>3 DEF CommitUnlock, Assigned
    <3> QED
      BY <2>1, <2>3, <3>1
  <2>4. CASE Abort(u)
    <3>1. pc[u] = "failed"
      BY <2>4 DEF Abort
    <3>2. ~Assigned(u) /\ ~CommitUnlock(u)
      BY <3>1 DEF CommitUnlock, Assigned
    <3> QED
      BY <2>1, <3>2
  <2> QED
    BY <1>1, <2>1, <2>2, <2>3, <2>4
<1> QED
  BY <1>3, <1>4, <1>6, <1>7, <1>8, QuietStep

\* The call returns.
LEMMA ListReturn ==
    ASSUME NEW w \in Threads, Writers \subseteq {w}, RluInv(w), RluInv(w)', LInv(w),
           NEW u \in Threads, Return(u)
    PROVE  LInv(w)'
<1>0. /\ ListTypeOK /\ DOMAIN call = Threads /\ Own(w) /\ BlockInv(w)
      /\ UNCHANGED <<vars, blockVars, result>> /\ pc[u] = "idle"
      /\ step' = [step EXCEPT ![u] = "out"] /\ call' = [call EXCEPT ![u] = NULL]
      /\ p_prev' = [p_prev EXCEPT ![u] = NULL] /\ p_next' = [p_next EXCEPT ![u] = NULL]
      /\ n' = [n EXCEPT ![u] = NULL]
      /\ step \in [Threads -> Steps] /\ p_prev \in [Threads -> Ptr \cup {NULL}]
      /\ p_next \in [Threads -> Ptr \cup {NULL}] /\ n \in [Threads -> Ptr \cup {NULL}]
  BY DEF LInv, BlockInv, Return, GotoStep, ListTypeOK
<1>1. UNCHANGED <<mem, free, free_nodes>> /\ \A t \in Threads \ {u} : WalkSame(t)
  BY <1>0 DEF WalkSame, blockVars
<1>2. ListTypeOK' /\ DOMAIN call' = Threads
  BY <1>0, <1>1 DEF ListTypeOK, Steps
<1>3. Stepping(w, u)' /\ Position(w, u)' /\ (u = w => Own(w)')
  <2>1. pc'[u] = "idle" /\ step'[u] = "out"
    BY <1>0
  <2> QED
    BY <2>1, SteppingOut DEF InSection, Starting, Syncing, SyncLabels, LockSteps
<1>4. ASSUME NEW t \in Threads \ {u}
      PROVE  Stepping(w, t)' /\ Position(w, t)' /\ (t = w => Own(w)')
  <2>1. SameList(Walked(w, t)) /\ WalkSame(t) /\ Stepping(w, t) /\ Position(w, t)
    BY <1>1, SameBlocks DEF LInv
  <2> QED
    BY <1>0, <1>4, <2>1, OtherThread
<1>5. Assigned(w)' <=> Assigned(w)
  <2>1. CASE u = w
    BY <1>0, <2>1 DEF Assigned
  <2>2. CASE u # w
    <3>1. step'[w] = step[w]
      BY <1>1, <2>2 DEF WalkSame
    <3> QED
      BY <1>0, <3>1 DEF Assigned
  <2> QED
    BY <2>1, <2>2
<1>6. BlockInv(w)'
  <2>1. /\ Updated(w)' = Updated(w) /\ (InSection(w)' <=> InSection(w))
        /\ \A o \in Objs : Published(o)' = Published(o)
    BY <1>0 DEF Updated, WriteSet, InSection, Published, Publishing, Complete, At
  <2>2. Future(w)' = Future(w) /\ Store' = Store /\ UNCHANGED committed
    BY <1>0, <2>1 DEF Future, Store
  <2>3. Latest(w)' = Latest(w) /\ Alive(w)' = Alive(w)
    BY <1>1, <1>5, <2>2 DEF Latest, Alive, Freed
  <2>4. Lists(w)'
    BY <1>0, <1>1, <2>2, <2>3 DEF BlockInv, Lists, Listed
  <2>5. Copied(w)'
    BY <1>0, <1>1, <1>5, <2>1, <2>2 DEF BlockInv, Copied
  <2>6. Blocks(w)' /\ Buffered(w)'
    BY <1>0, <1>1, <1>5 DEF BlockInv, Blocks, Freed, Buffered
  <2> QED
    BY <2>4, <2>5, <2>6 DEF BlockInv
<1> QED
  BY <1>2, <1>3, <1>4, <1>6 DEF LInv, BlockInv

-----------------------------------------------------------------------------
(* The end of a synchronisation: rlu_process_free. *)

LEMMA OnlyWriterSyncs ==
    ASSUME NEW w \in Threads, Writers \subseteq {w}, RluInv(w), NEW u \in Threads, Syncing(u)
    PROVE  u = w
BY DEF RluInv, Bystanders, Bystander

LEMMA ListProcessFree ==
    ASSUME NEW w \in Threads, Writers \subseteq {w}, RluInv(w), RluInv(w)', LInv(w),
           NEW u \in Threads, Thread(u), ListSyncEnd(u)
    PROVE  LInv(w)'
<1>0. /\ TypeInv /\ TypeInv' /\ Facts(w) /\ Facts(w)' /\ ListTypeOK /\ BlockInv(w) /\ Own(w)
      /\ DOMAIN call = Threads /\ Stepping(w, w) /\ RingOf(w)'
  BY FactsNow, FactsNext DEF LInv, BlockInv, RluInv, ValueInv, LogInv, Ring
<1>1. pc[u] = "sync_end" /\ u = w
  BY OnlyWriterSyncs DEF ListSyncEnd, SyncEnd, Syncing, SyncLabels
<1>2. /\ pc'[w] = ret[w] /\ ret'[w] = "idle" /\ ret[w] \in Returns
      /\ UNCHANGED <<data, committed, p_obj_copy, ws_wb_counter, ws_tail_counter>>
  BY <1>0, <1>1, CounterTypes DEF ListSyncEnd, SyncEnd, Goto
<1>3. /\ free' = free \cup Freed(w) /\ free_nodes' = [free_nodes EXCEPT ![w] = <<>>]
      /\ UNCHANGED <<mem, call, step, walkVars, result>>
  BY <1>1 DEF ListSyncEnd, Freed
<1>4. ~InSection(w) /\ ~InSection(w)' /\ ~Assigned(w) /\ ~Assigned(w)'
      /\ ~Publishing(w) /\ ~Publishing(w)' /\ (Starting(w)' => Starting(w))
      /\ pc'[w] \notin {"commit", "sync_end"}
  BY <1>1, <1>2 DEF InSection, Assigned, Publishing, Starting, Syncing, SyncLabels, Returns
<1>5. data = committed /\ Store = committed /\ Store' = committed'
      /\ (\A o \in Objs : p_obj_copy[o] = NULL)
      /\ \A t \in Threads : InSection(t) => Walked(w, t) = committed
  BY <1>0, <1>1, <1>2, <1>4 DEF Facts, QuietFacts, Walked
<1>6. IsList(mem, committed, Alive(w))
  BY <1>0, <1>4 DEF BlockInv, Lists, Latest
<1>7. SameList(committed)
  <2> SUFFICES ASSUME NEW S \in SUBSET (Objs \ free), IsList(mem, committed, S)
               PROVE  S \cap free' = {}
    BY <1>3 DEF SameList, IsList
  <2>1. S = Alive(w)
    BY <1>6, ListUnique
  <2> QED
    BY <1>3, <2>1 DEF Alive
<1>8. Freed(w) \subseteq Objs /\ free_nodes'[w] = <<>> /\ Freed(w)' = {}
      /\ free_nodes \in [Threads -> Seq(Objs)] /\ \A t \in Threads \ {w} : free_nodes'[t] = free_nodes[t]
  <2>1. free_nodes \in [Threads -> Seq(Objs)]
    BY <1>0 DEF ListTypeOK
  <2>2. Freed(w) \subseteq Objs
    BY <2>1 DEF Freed
  <2>3. free_nodes'[w] = <<>> /\ \A t \in Threads \ {w} : free_nodes'[t] = free_nodes[t]
    BY <1>3, <2>1
  <2>4. Freed(w)' = {}
    BY <2>3 DEF Freed
  <2> QED
    BY <2>1, <2>2, <2>3, <2>4
<1>9. ListTypeOK' /\ DOMAIN call' = Threads
  <2>1. free' \in SUBSET Objs /\ free_nodes' \in [Threads -> Seq(Objs)]
    BY <1>0, <1>3, <1>8 DEF ListTypeOK
  <2> QED
    BY <1>0, <1>3, <2>1 DEF ListTypeOK, walkVars
<1>10. Alive(w)' = Alive(w)
  BY <1>3, <1>8 DEF Alive
<1>11. Lists(w)'
  <2>1. Latest(w)' = committed /\ Store' = committed /\ committed' = committed
    BY <1>2, <1>4, <1>5 DEF Latest
  <2>2. IsList(mem', committed, Alive(w)') /\ Alive(w)' \in SUBSET (Objs \ free')
    BY <1>3, <1>6, <1>10 DEF Alive
  <2>3. PICK l, c, s : l = Latest(w)' /\ c = committed' /\ s = Store'
    OBVIOUS
  <2>4. IsList(mem', l, Alive(w)') /\ Listed(c)' /\ Listed(s)'
    BY <2>1, <2>2, <2>3 DEF Listed
  <2> QED
    BY <2>3, <2>4 DEF Lists, Listed
<1>12. Copied(w)' /\ Blocks(w)'
  BY <1>0, <1>2, <1>3, <1>4, <1>5, <1>8 DEF Copied, BlockInv, Blocks
<1>13. Buffered(w)'
  <2>1. ws_wb_counter'[w] <= ws_tail_counter'[w] /\ ws_wb_counter'[w] \in Nat /\ ws_tail_counter'[w] \in Nat
    BY <1>0 DEF RingOf, TypeInv, TypeOK, OwnTypes
  <2>2. Len(free_nodes'[w]) = 0
    BY <1>8
  <2> QED
    BY <1>4, <2>1, <2>2 DEF Buffered
<1>14. \A t \in Threads : WalkSame(t)
  BY <1>3 DEF WalkSame, walkVars
<1>15. Stepping(w, w)' /\ Position(w, w)' /\ Own(w)'
  BY <1>0, <1>4, <1>14, SteppingFacts, SteppingOut DEF WalkSame
<1>16. ASSUME NEW t \in Threads \ {w} PROVE Stepping(w, t)' /\ Position(w, t)'
  <2>1. InSection(t) => SameList(Walked(w, t))
    BY <1>5, <1>7
  <2>2. Stepping(w, t) /\ Position(w, t) /\ WalkSame(t)
    BY <1>14 DEF LInv
  <2> QED
    BY <1>0, <1>1, <2>1, <2>2, OtherThread
<1>17. \A t \in Threads : Stepping(w, t)' /\ Position(w, t)'
  BY <1>15, <1>16
<1> QED
  BY <1>9, <1>11, <1>12, <1>13, <1>15, <1>17 DEF LInv

-----------------------------------------------------------------------------
(* The steps of the section of w that write to copies and new blocks. *)

\* The update of the section in progress is in no contents but its own.
New(w) == <<w, n_starts[w]>>

\* Contents without that update keep their nodes.
OldKept(w) ==
    /\ free' \subseteq free
    /\ \A o \in Objs \ free : \A v \in DOMAIN mem[o] :
          New(w) \notin v => v \in DOMAIN mem'[o] /\ mem'[o][v] = mem[o][v]

LEMMA OldListSame ==
    ASSUME NEW w \in Threads, OldKept(w), NEW c, \A o \in Objs : New(w) \notin c[o]
    PROVE  SameList(c)
<1> SUFFICES ASSUME NEW S \in SUBSET (Objs \ free), IsList(mem, c, S)
             PROVE  /\ S \cap free' = {}
                    /\ \A o \in S : c[o] \in DOMAIN mem'[o] /\ mem'[o][c[o]] = mem[o][c[o]]
  BY DEF SameList
<1>1. S \cap free' = {}
  BY DEF OldKept
<1>2. \A o \in S : c[o] \in DOMAIN mem[o]
  BY DEF IsList
<1> QED
  BY <1>1, <1>2 DEF OldKept

LEMMA OldContentsSame ==
    ASSUME NEW w \in Threads, Facts(w), InSection(w), OldKept(w)
    PROVE  /\ SameList(committed) /\ SameList(Store)
           /\ \A t \in Threads : InSection(t) => SameList(Walked(w, t))
<1>1. /\ \A o \in Objs : New(w) \notin committed[o] /\ New(w) \notin data[o]
      /\ Store = data /\ \A t \in Threads : InSection(t) => snap[t] = data
  BY DEF Facts, UpdateFacts, QuietFacts, New, InSection, Publishing
<1>2. SameList(committed) /\ SameList(data)
  BY <1>1, OldListSame
<1> QED
  BY <1>1, <1>2 DEF Walked

\* What is not about the nodes that are written.
LEMMA WriteStep ==
    ASSUME NEW w \in Threads, Writers \subseteq {w}, RluInv(w), RluInv(w)', LInv(w),
           Thread(w) \/ UNCHANGED vars, InSection(w), InSection(w)', UNCHANGED <<data, committed>>,
           OldKept(w), \A t \in Threads \ {w} : WalkSame(t)
    PROVE  /\ \A t \in Threads \ {w} : Stepping(w, t)' /\ Position(w, t)'
           /\ Listed(committed)' /\ Listed(Store)'
           /\ OnList(w, committed) /\ SameList(committed)
<1>0. Facts(w) /\ Facts(w)' /\ Own(w) /\ Lists(w) /\ Position(w, w)
  BY FactsNow, FactsNext DEF LInv
<1>1. /\ SameList(committed) /\ SameList(Store)
      /\ \A t \in Threads : InSection(t) => SameList(Walked(w, t))
  BY <1>0, OldContentsSame
<1>2. ASSUME NEW t \in Threads \ {w} PROVE Stepping(w, t)' /\ Position(w, t)'
  <2>1. Stepping(w, t) /\ Position(w, t) /\ WalkSame(t)
    BY DEF LInv
  <2> QED
    BY <1>0, <1>1, <1>2, <2>1, OtherThread
<1>3. Store' = Store
  <2>1. ~Publishing(w) /\ ~Publishing(w)'
    BY DEF InSection, Publishing
  <2> QED
    BY <1>0, <2>1 DEF Facts, QuietFacts
<1>4. Listed(committed)'
  <2>1. \E S \in SUBSET (Objs \ free') : IsList(mem', committed, S)
    BY <1>0, <1>1, ListedKept DEF Lists
  <2> QED
    BY <2>1 DEF Listed
<1>5. Listed(Store)'
  <2>1. PICK s : s = Store /\ s = Store'
    BY <1>3
  <2>2. \E S \in SUBSET (Objs \ free') : IsList(mem', s, S)
    BY <1>0, <1>1, <2>1, ListedKept DEF Lists
  <2> QED
    BY <2>1, <2>2 DEF Listed
<1>6. OnList(w, committed)
  BY <1>0 DEF Position, Walked
<1> QED
  BY <1>1, <1>2, <1>4, <1>5, <1>6

\* RLU_TRY_LOCK makes a copy, which is the same node.
LEMMA CopyNodes ==
    ASSUME NEW w \in Threads, Writers \subseteq {w}, RluInv(w), RluInv(w)', LInv(w),
           Thread(w), ListTryLockCopy(w), NEW o, o = LockTarget(w), NEW p, p = cur_copy[w]
    PROVE  /\ pc[w] = "copy" /\ pc'[w] = "section" /\ o \in Objs /\ o \notin free /\ o = cur_obj[w]
           /\ UNCHANGED <<data, committed, n_starts, is_write_detected, ws_tail_counter,
                          ws_wb_counter, p_obj_copy>>
           /\ p \in Addr /\ p.ws = WsCurId(w) /\ refs'[w] = refs[w] \cup {<<o, p>>}
           /\ Actual(p)' = o
           /\ DOMAIN mem' = Objs /\ OldKept(w) /\ Copied(w)'
           /\ \A b \in Objs : \A v \in DOMAIN mem'[b] :
                 v \in Value /\ \E u \in DOMAIN mem[b] : mem'[b][v] = mem[b][u]
<1>0. /\ TypeInv /\ Facts(w) /\ Facts(w)' /\ ListTypeOK /\ Copied(w) /\ Stepping(w, w)
      /\ Position(w, w) /\ DetectedOf(w)
  BY FactsNow, FactsNext DEF LInv, RluInv, ValueInv, LogInv, Ring
<1>1. pc[w] = "copy" /\ TryLockCopy(w) /\ o = cur_obj[w] /\ step[w] \in LockSteps
  BY <1>0 DEF ListTryLockCopy, TryLockCopy, Stepping
<1>2. /\ UNCHANGED <<data, committed, n_starts, is_write_detected, ws_tail_counter,
                     ws_wb_counter, p_obj_copy>>
      /\ pc'[w] = "section" /\ refs'[w] = refs[w] \cup {<<o, p>>}
      /\ p = NextCopy(w) /\ p \in Addr
  BY <1>0, <1>1, CopyTypes, CounterTypes DEF TryLockCopy, Goto, Got, Facts, TypeFacts, DetectedOf
<1>3. p.ws = WsCurId(w)
  BY <1>2 DEF NextCopy
<1>4. o \in Objs /\ o \notin free
  BY <1>0, <1>1, LockTargetListed DEF InSection
<1>5. Actual(p)' = o
  <2>1. <<o, p>> \in refs'[w] /\ p \in Ptr
    BY <1>2 DEF Ptr
  <2> QED
    BY <1>0, <1>4, <2>1 DEF Facts, RefFacts
<1>6. /\ committed[o] = data[o] /\ data[o] \in DOMAIN mem[o]
      /\ \A b \in Objs : New(w) \notin committed[b] /\ New(w) \notin data[b]
  <2>1. committed[o] = data[o] /\ \A b \in Objs : New(w) \notin committed[b] /\ New(w) \notin data[b]
    BY <1>0, <1>1 DEF Facts, UpdateFacts, InSection, New
  <2>2. PICK S \in SUBSET (Objs \ free) : IsList(mem, committed, S) /\ \A r \in refs[w] : r[1] \in S
    BY <1>0, <1>1 DEF Position, OnList, Walked, InSection
  <2>3. PICK q : GotPtr(w, q) /\ o = Actual(q)
    BY <1>0, <1>1 DEF Position, Walk, LockTarget, LockSteps, InSection
  <2>4. o \in S
    BY <2>2, <2>3 DEF GotPtr
  <2> QED
    BY <2>1, <2>2, <2>4 DEF IsList
<1> DEFINE new == data[o] \cup {New(w)}
<1>7. /\ mem' = [mem EXCEPT ![o] = [u \in DOMAIN mem[o] \cup {new} |->
                                       mem[o][IF u = new THEN data[o] ELSE u]]]
      /\ UNCHANGED free /\ DOMAIN mem = Objs
  BY <1>0, <1>1 DEF ListTryLockCopy, New, ListTypeOK
<1> HIDE DEF new
<1>8. /\ DOMAIN mem' = Objs /\ \A b \in Objs \ {o} : mem'[b] = mem[b]
      /\ mem'[o] = [u \in DOMAIN mem[o] \cup {new} |-> mem[o][IF u = new THEN data[o] ELSE u]]
  BY <1>4, <1>7
<1>9. /\ DOMAIN mem'[o] = DOMAIN mem[o] \cup {new} /\ mem'[o][new] = mem[o][data[o]]
      /\ \A v \in DOMAIN mem[o] \ {new} : mem'[o][v] = mem[o][v]
  BY <1>8
<1>10. OldKept(w)
  <2>1. New(w) \in new
    BY DEF new
  <2>2. ASSUME NEW b \in Objs, NEW v \in DOMAIN mem[b], New(w) \notin v
        PROVE  v \in DOMAIN mem'[b] /\ mem'[b][v] = mem[b][v]
    BY <1>8, <1>9, <2>1, <2>2
  <2> QED
    BY <1>7, <2>2 DEF OldKept
<1>11. new \in Value
  <2>1. data[o] \in Value /\ n_starts[w] \in Nat
    BY <1>0, <1>4 DEF Facts, TypeFacts
  <2> QED
    BY <2>1 DEF new, New, Value
<1>12. ASSUME NEW b \in Objs, NEW v \in DOMAIN mem'[b]
       PROVE  v \in Value /\ \E u \in DOMAIN mem[b] : mem'[b][v] = mem[b][u]
  <2>0. v \in DOMAIN mem[b] => v \in Value
    BY <1>0 DEF ListTypeOK
  <2>1. CASE b # o
    BY <1>8, <1>12, <2>0, <2>1
  <2>2. CASE b = o /\ v = new
    BY <1>6, <1>9, <1>11, <2>2
  <2>3. CASE b = o /\ v # new
    BY <1>9, <1>12, <2>0, <2>3
  <2> QED
    BY <2>1, <2>2, <2>3
<1>13. Updated(w)' = Updated(w) \cup {o}
  <2>1. obj_write_set'[w][WsCurId(w)] = Append(obj_write_set[w][WsCurId(w)], NewEntry(w))
    BY <1>0, <1>1, CopiedEntry
  <2>2. WriteSet(w, ws_tail_counter[w])' = Append(WriteSet(w, ws_tail_counter[w]), NewEntry(w))
    BY <1>2, <2>1 DEF WriteSet, WsCurId
  <2>3. NewEntry(w).obj = o /\ NewEntry(w) \in Entry
    BY <1>0, <1>1, CopiedEntry DEF NewEntry
  <2>4. PICK ws \in Seq(Entry) : ws = WriteSet(w, ws_tail_counter[w])
    BY <1>0, LenTypes, CounterTypes
  <2>5. /\ DOMAIN Append(ws, NewEntry(w)) = DOMAIN ws \cup {Len(ws) + 1}
        /\ \A k \in DOMAIN ws : Append(ws, NewEntry(w))[k] = ws[k]
        /\ Append(ws, NewEntry(w))[Len(ws) + 1] = NewEntry(w)
    BY <2>3, <2>4
  <2> QED
    BY <2>2, <2>3, <2>4, <2>5 DEF Updated
<1>14. Copied(w)'
  <2> SUFFICES ASSUME NEW b \in Updated(w)'
               PROVE  Future(w)'[b] \in DOMAIN mem'[b] /\ mem'[b][Future(w)'[b]] = mem'[b][committed[b]]
    BY <1>2 DEF Copied
  <2>1. b \in Objs
    BY <1>0, <1>2 DEF Facts, UpdateFacts, InSection
  <2>2. Future(w)'[b] = committed[b] \cup {New(w)}
    BY <1>2, <2>1 DEF Future, New
  <2>3. CASE b = o
    <3>1. Future(w)'[b] = new
      BY <1>6, <2>2, <2>3 DEF new
    <3>2. committed[o] # new
      BY <1>4, <1>6 DEF new
    <3> QED
      BY <1>6, <1>9, <2>3, <3>1, <3>2
  <2>4. CASE b # o
    <3>1. b \in Updated(w) /\ InSection(w) /\ ~Assigned(w)
      BY <1>1, <1>13, <2>4 DEF InSection, Assigned
    <3>2. Future(w)[b] = Future(w)'[b]
      BY <2>1, <2>2, <3>1 DEF Future, New
    <3> QED
      BY <1>0, <1>8, <2>1, <2>4, <3>1, <3>2 DEF Copied
  <2> QED
    BY <2>3, <2>4
<1> QED
  BY <1>1, <1>2, <1>3, <1>4, <1>5, <1>8, <1>10, <1>12, <1>14

\* Where the walk is, is where it was: only the pointers to what is locked change.
LEMMA CopyPosition ==
    ASSUME NEW w \in Threads, Writers \subseteq {w}, RluInv(w), RluInv(w)', LInv(w),
           Thread(w), ListTryLockCopy(w)
    PROVE  Stepping(w, w)' /\ Position(w, w)' /\ Own(w)'
<1>a. PICK o, p, c : o = LockTarget(w) /\ p = cur_copy[w] /\ c = committed
  OBVIOUS
<1> DEFINE prev == Actual(p_prev[w])
           next == Actual(p_next[w])
           succ == Actual(n[w])
<1>0. /\ TypeInv /\ TypeFacts /\ RefFacts(w)' /\ refs' \in [Threads -> SUBSET (Objs \X Ptr)]
      /\ ListTypeOK /\ Stepping(w, w) /\ Position(w, w) /\ DetectedOf(w)
  BY FactsNow, FactsNext DEF LInv, RluInv, ValueInv, LogInv, Ring, Facts, TypeFacts
<1>1. /\ pc[w] = "copy" /\ pc'[w] = "section"
      /\ UNCHANGED <<committed, is_write_detected, ws_tail_counter>>
      /\ p \in Addr /\ p.ws = WsCurId(w) /\ refs'[w] = refs[w] \cup {<<o, p>>}
      /\ Actual(p)' = o /\ OldKept(w) /\ c = committed'
  BY <1>a, CopyNodes
<1>2. /\ SameList(c) /\ OnList(w, c) /\ Walk(w, c) /\ step[w] \in LockSteps
  BY <1>a, <1>0, <1>1, FactsNow, OldContentsSame DEF InSection, Position, Walked, Stepping
<1>3. PICK S \in SUBSET (Objs \ free) : IsList(mem, c, S) /\ \A r \in refs[w] : r[1] \in S
  BY <1>2 DEF OnList
<1>4. S \in SUBSET (Objs \ free') /\ IsList(mem', c, S)
  BY <1>2, <1>3, ListKept
<1>5. GotPtr(w, p_prev[w]) /\ GotPtr(w, p_next[w]) /\ (call[w].op = "remove" => GotPtr(w, n[w]))
  BY <1>2 DEF Walk
<1>6. /\ prev \in S /\ next \in S /\ o \in S /\ (call[w].op = "remove" => succ \in S)
      /\ o = IF step[w] = "lock_prev" THEN prev ELSE next
  BY <1>a, <1>2, <1>3, <1>5 DEF GotPtr, LockTarget, LockSteps
<1>7. OnList(w, c)'
  <2>1. \E U \in SUBSET (Objs \ free') : IsList(mem', c, U) /\ \A r \in refs'[w] : r[1] \in U
    BY <1>1, <1>3, <1>4, <1>6
  <2> QED
    BY <1>1, <2>1 DEF OnList
<1>8. \A b \in S : Key(mem', c, b) = Key(mem, c, b)
                   /\ Link(mem', c, b) = Link(mem, c, b)
  BY <1>2, <1>3 DEF SameList, Key, Link
<1>9. /\ \/ /\ step[w] = "lock_prev" /\ step'[w] = "lock_next"
            /\ p_prev'[w] = p /\ p_next'[w] = p_next[w]
         \/ /\ step[w] = "lock_next" /\ step'[w] = "assign"
            /\ p_next'[w] = p /\ p_prev'[w] = p_prev[w]
      /\ UNCHANGED <<call, n>>
  BY <1>a, <1>0 DEF ListTryLockCopy, ListTypeOK, GotoStep
<1>10. PICK pp, pn, nn, b1, b2, b3 :
           /\ pp = p_prev[w] /\ pn = p_next[w] /\ nn = n[w]
           /\ b1 = prev /\ b2 = next /\ b3 = succ
  OBVIOUS
<1>11. /\ Actual(pp)' = b1 /\ <<b1, pp>> \in refs'[w]
       /\ Actual(pn)' = b2 /\ <<b2, pn>> \in refs'[w]
       /\ call[w].op = "remove" => Actual(nn)' = b3 /\ <<b3, nn>> \in refs'[w]
  <2>1. refs[w] \subseteq refs'[w]
    BY <1>1
  <2> QED
    BY <1>0, <1>5, <1>10, <2>1, ActualKept
<1>13. Actual(p)' = o /\ <<o, p>> \in refs'[w]
  BY <1>1
<1>14. /\ Actual(p_prev[w])' = b1 /\ GotPtr(w, p_prev[w])'
       /\ Actual(p_next[w])' = b2 /\ GotPtr(w, p_next[w])'
       /\ call[w].op = "remove" => Actual(n[w])' = b3 /\ GotPtr(w, n[w])'
  BY <1>6, <1>9, <1>10, <1>11, <1>13 DEF Actual, GotPtr, At
<1>15. /\ Key(mem, c, b1) < call[w].key
       /\ b2 = Link(mem, c, b1)
       /\ IF call[w].op = "add" THEN call[w].key < Key(mem, c, b2)
          ELSE Key(mem, c, b2) = call[w].key
       /\ call[w].op = "remove" => b3 = Link(mem, c, b2)
  BY <1>2, <1>10 DEF Walk
<1>16. Walk(w, c)'
  <2>1. pc'[w] # "steal" /\ call' = call /\ b1 \in S /\ b2 \in S
    BY <1>1, <1>6, <1>9, <1>10
  <2>2. /\ Key(mem', c, b1) < call[w].key
        /\ b2 = Link(mem', c, b1)
        /\ IF call[w].op = "add" THEN call[w].key < Key(mem', c, b2)
           ELSE Key(mem', c, b2) = call[w].key
        /\ call[w].op = "remove" => b3 = Link(mem', c, b2)
    BY <1>1, <1>8, <1>15, <2>1
  <2>3. step'[w] # "succ"
    BY <1>9
  <2> QED
    BY <1>14, <2>1, <2>2, <2>3 DEF Walk
<1>17. Position(w, w)'
  BY <1>a, <1>1, <1>7, <1>16 DEF Position, Walked
<1>18. Stepping(w, w)'
  BY <1>0, <1>1, <1>2, <1>9 DEF Stepping, Syncing, SyncLabels, LockSteps
<1>19. Own(w)'
  <2>1. is_write_detected[w]
    BY <1>0, <1>1 DEF DetectedOf
  <2>2. step[w] = "lock_next" => p_prev[w] \in Addr /\ p_prev[w].ws = WsCurId(w)
    BY <1>1 DEF LInv, Own, InSection
  <2>3. WsCurId(w)' = WsCurId(w)
    BY <1>1 DEF WsCurId
  <2> QED
    BY <1>1, <1>9, <2>1, <2>2, <2>3 DEF Own, WalkSteps
<1> QED
  BY <1>17, <1>18, <1>19

LEMMA ListCopy ==
    ASSUME NEW w \in Threads, Writers \subseteq {w}, RluInv(w), RluInv(w)', LInv(w),
           NEW u \in Threads, Thread(u), ListTryLockCopy(u)
    PROVE  LInv(w)'
<1>0. /\ TypeInv /\ ListTypeOK /\ DOMAIN call = Threads /\ BlockInv(w) /\ Ring
  BY DEF LInv, BlockInv, RluInv, ValueInv, LogInv
<1>1. u = w
  <2>1. is_write_detected[u]
    BY <1>0 DEF ListTryLockCopy, TryLockCopy, Ring, DetectedOf
  <2> QED
    BY <2>1 DEF RluInv, Bystanders, Bystander
<1>2. ListTryLockCopy(w) /\ Thread(w)
  BY <1>1
<1>3. PICK o, p : o = LockTarget(w) /\ p = cur_copy[w]
  OBVIOUS
<1>4. /\ pc[w] = "copy" /\ pc'[w] = "section"
      /\ UNCHANGED <<data, committed, n_starts, is_write_detected, ws_tail_counter,
                     ws_wb_counter, p_obj_copy>>
      /\ p \in Addr
      /\ DOMAIN mem' = Objs /\ OldKept(w) /\ Copied(w)'
      /\ \A b \in Objs : \A v \in DOMAIN mem'[b] :
            v \in Value /\ \E x \in DOMAIN mem[b] : mem'[b][v] = mem[b][x]
  BY <1>2, <1>3, CopyNodes
<1>5. /\ UNCHANGED <<free, free_nodes, call, n, result>>
      /\ \/ /\ p_prev' = [p_prev EXCEPT ![w] = p] /\ UNCHANGED p_next
            /\ step' = [step EXCEPT ![w] = "lock_next"]
         \/ /\ p_next' = [p_next EXCEPT ![w] = p] /\ UNCHANGED p_prev
            /\ step' = [step EXCEPT ![w] = "assign"]
  BY <1>2, <1>3 DEF ListTryLockCopy, GotoStep
<1>6. ListTypeOK' /\ DOMAIN call' = Threads
  <2>0. /\ step \in [Threads -> Steps] /\ p_prev \in [Threads -> Ptr \cup {NULL}]
        /\ p_next \in [Threads -> Ptr \cup {NULL}] /\ p \in Ptr
        /\ "lock_next" \in Steps /\ "assign" \in Steps
    BY <1>0, <1>4 DEF ListTypeOK, Steps, Ptr
  <2>1. step' \in [Threads -> Steps] /\ p_prev' \in [Threads -> Ptr \cup {NULL}]
        /\ p_next' \in [Threads -> Ptr \cup {NULL}]
    BY <2>0, <1>5
  <2>2. \A b \in Objs : \A v \in DOMAIN mem'[b] : v \in Value /\ mem'[b][v] \in NodeType
    BY <1>0, <1>4 DEF ListTypeOK
  <2> QED
    BY <1>0, <1>4, <1>5, <2>1, <2>2 DEF ListTypeOK
<1>7. ASSUME NEW t \in Threads \ {w} PROVE WalkSame(t)
  BY <1>0, <1>5 DEF ListTypeOK, WalkSame
<1>8. /\ \A t \in Threads \ {w} : Stepping(w, t)' /\ Position(w, t)'
      /\ Listed(committed)' /\ Listed(Store)' /\ SameList(committed)
  BY <1>2, <1>4, <1>7, WriteStep DEF InSection
<1>9. Stepping(w, w)' /\ Position(w, w)' /\ Own(w)'
  BY <1>2, CopyPosition
<1>10. \A t \in Threads : Stepping(w, t)' /\ Position(w, t)'
  BY <1>8, <1>9
<1>11. ~Assigned(w) /\ ~Assigned(w)'
  <2>1. step'[w] # "unlock"
    BY <1>0, <1>5 DEF ListTypeOK
  <2> QED
    BY <1>4, <2>1 DEF Assigned
<1>12. Lists(w)'
  <2>1. Latest(w)' = committed /\ Latest(w) = committed
    BY <1>4, <1>11 DEF Latest
  <2>2. Alive(w)' = Alive(w) /\ Alive(w) \in SUBSET (Objs \ free)
    BY <1>5 DEF Alive, Freed
  <2>3. IsList(mem', committed, Alive(w))
    BY <1>0, <1>8, <2>1, <2>2, ListKept DEF BlockInv, Lists
  <2>4. PICK l, a : l = Latest(w)' /\ a = Alive(w)'
    OBVIOUS
  <2>5. IsList(mem', l, a)
    BY <2>1, <2>2, <2>3, <2>4
  <2> QED
    BY <1>8, <2>4, <2>5 DEF Lists
<1>13. Blocks(w)'
  BY <1>0, <1>4, <1>5 DEF BlockInv, Blocks, Freed
<1>14. Buffered(w)'
  BY <1>0, <1>4, <1>5, <1>11 DEF BlockInv, Buffered
<1> QED
  BY <1>4, <1>6, <1>9, <1>10, <1>12, <1>13, <1>14 DEF LInv

\* The section of w is about to store to the copy of p_prev: its copies make the
\* list that the calls before it left, and prev and next are where the key belongs.
LEMMA AssignFacts ==
    ASSUME NEW w \in Threads, Writers \subseteq {w}, RluInv(w), LInv(w),
           pc[w] = "section", step[w] = "assign",
           NEW c, c = Future(w), NEW S, S = Alive(w),
           NEW prev, prev = Actual(p_prev[w]), NEW next, next = Actual(p_next[w])
    PROVE  /\ InSection(w) /\ is_write_detected[w] /\ ~Assigned(w)
           /\ IsList(mem, c, S) /\ S \in SUBSET (Objs \ free)
           /\ prev \in S \ {p_max_node} /\ next \in S
           /\ Contents(p_prev[w]) = c[prev] /\ New(w) \in c[prev]
           /\ next = Link(mem, c, prev) /\ Key(mem, c, prev) < call[w].key
           /\ call[w].key \in CallKeys /\ call[w].op \in {"add", "remove"}
           /\ call[w].op = "add" => call[w].key < Key(mem, c, next)
           /\ call[w].op = "remove" => /\ next # p_max_node
                                       /\ Actual(n[w]) = Link(mem, c, next)
           /\ \A b \in Objs : p_obj_copy[b] = NULL => c[b] = data[b]
           /\ IsList(mem, committed, S) /\ \A b \in S : Key(mem, c, b) = Key(mem, committed, b)
           /\ call[w].op = "remove" => Key(mem, c, next) = call[w].key
<1>0. /\ Facts(w) /\ Lists(w) /\ Copied(w) /\ Own(w) /\ Stepping(w, w) /\ Position(w, w)
      /\ InSection(w) /\ ~Assigned(w) /\ committed \in [Objs -> Value]
  BY FactsNow DEF LInv, InSection, Assigned, Facts, TypeFacts
<1>1. IsList(mem, committed, S) /\ S \in SUBSET (Objs \ free)
  BY <1>0 DEF Lists, Latest, Alive
<1>2. \A r \in refs[w] : r[1] \in S
  <2>1. PICK T : IsList(mem, committed, T) /\ \A r \in refs[w] : r[1] \in T
    BY <1>0 DEF Position, OnList, Walked
  <2> QED
    BY <1>1, <2>1, ListUnique
<1>3. \A b \in S : c[b] \in DOMAIN mem[b] /\ mem[b][c[b]] = mem[b][committed[b]]
  <2> SUFFICES ASSUME NEW b \in S PROVE c[b] \in DOMAIN mem[b] /\ mem[b][c[b]] = mem[b][committed[b]]
    OBVIOUS
  <2>1. CASE b \in Updated(w)
    BY <1>0, <2>1 DEF Copied
  <2>2. CASE b \notin Updated(w)
    <3>1. c[b] = committed[b]
      BY <1>1, <2>2 DEF Future
    <3> QED
      BY <1>1, <3>1 DEF IsList
  <2> QED
    BY <2>1, <2>2
<1>4. IsList(mem, c, S)
  BY <1>1, <1>3, ListSame
<1>5. \A b \in S : Key(mem, c, b) = Key(mem, committed, b) /\ Link(mem, c, b) = Link(mem, committed, b)
  BY <1>3 DEF Key, Link
<1>6. /\ GotPtr(w, p_prev[w]) /\ Key(mem, committed, prev) < call[w].key
      /\ GotPtr(w, p_next[w]) /\ next = Link(mem, committed, prev)
      /\ IF call[w].op = "add" THEN call[w].key < Key(mem, committed, next)
         ELSE Key(mem, committed, next) = call[w].key
      /\ call[w].op = "remove" => Actual(n[w]) = Link(mem, committed, next)
  BY <1>0 DEF Position, Walk, Walked
<1>7. prev \in S /\ next \in S /\ <<prev, p_prev[w]>> \in refs[w]
  BY <1>2, <1>6 DEF GotPtr
<1>8. /\ is_write_detected[w] /\ p_prev[w] \in Addr /\ p_prev[w].ws = WsCurId(w)
      /\ call[w].key \in CallKeys /\ call[w].op \in {"add", "remove"}
  BY <1>0, SteppingFacts DEF Own
<1>9. Contents(p_prev[w]) = c[prev] /\ prev \in Updated(w)
  <2>1. NewCopy(w, w, p_prev[w]) /\ p_prev[w] \in Ptr /\ prev \in Objs
    BY <1>1, <1>7, <1>8 DEF NewCopy, Ptr
  <2> QED
    BY <1>0, <1>7, <2>1 DEF Facts, RefFacts
<1>10. New(w) \in c[prev]
  BY <1>1, <1>7, <1>9 DEF Future, New
<1>11. prev # p_max_node /\ (call[w].op = "remove" => next # p_max_node)
  <2>1. Key(mem, committed, p_max_node) = LIST_VAL_MAX
    BY <1>1 DEF IsList
  <2>2. call[w].key \in Int /\ call[w].key < LIST_VAL_MAX /\ LIST_VAL_MAX \in Int
    BY <1>8, ListAssumption
  <2> QED
    BY <1>6, <2>1, <2>2
<1>12. ASSUME NEW b \in Objs, p_obj_copy[b] = NULL PROVE c[b] = data[b]
  <2>1. b \notin Updated(w) /\ data[b] = committed[b]
    BY <1>0, <1>12 DEF Facts, UpdateFacts, QuietFacts
  <2> QED
    BY <2>1 DEF Future
<1> QED
  BY <1>0, <1>1, <1>4, <1>5, <1>6, <1>7, <1>8, <1>9, <1>10, <1>11, <1>12

\* The store leaves a list, which is the latest one from then on.
LEMMA AssignStep ==
    ASSUME NEW w \in Threads, Writers \subseteq {w}, RluInv(w), RluInv(w)', LInv(w),
           pc[w] = "section", step[w] = "assign", step' = [step EXCEPT ![w] = "unlock"],
           UNCHANGED <<vars, call, walkVars, result>>, OldKept(w), ListTypeOK', Blocks(w)',
           IsList(mem', Future(w), Alive(w)'), Len(free_nodes'[w]) <= Len(free_nodes[w]) + 1
    PROVE  LInv(w)'
<1>0. /\ InSection(w) /\ is_write_detected[w] /\ ~Assigned(w)
      /\ call[w].key \in CallKeys /\ call[w].op \in {"add", "remove"}
  <2>1. PICK c, S, prev, next : /\ c = Future(w) /\ S = Alive(w)
                                /\ prev = Actual(p_prev[w]) /\ next = Actual(p_next[w])
    OBVIOUS
  <2> QED
    BY <2>1, AssignFacts
<1>1. /\ step \in [Threads -> Steps] /\ DOMAIN call = Threads /\ Stepping(w, w)
      /\ TypeInv /\ RingOf(w) /\ Buffered(w) /\ free_nodes \in [Threads -> Seq(Objs)]
      /\ free_nodes' \in [Threads -> Seq(Objs)]
  BY DEF LInv, ListTypeOK, RluInv, ValueInv, LogInv, Ring
<1>2. step'[w] = "unlock" /\ \A t \in Threads \ {w} : WalkSame(t)
  BY <1>1 DEF WalkSame, walkVars
<1>3. /\ pc'[w] = "section" /\ InSection(w)' /\ Assigned(w)'
      /\ UNCHANGED <<data, committed, refs, is_write_detected, ws_tail_counter, ws_wb_counter>>
  BY <1>0, <1>2 DEF InSection, Assigned
<1>4. /\ \A t \in Threads \ {w} : Stepping(w, t)' /\ Position(w, t)'
      /\ Listed(committed)' /\ Listed(Store)' /\ OnList(w, committed) /\ SameList(committed)
  BY <1>0, <1>2, <1>3, WriteStep
<1>5. Position(w, w)'
  <2>1. PICK c : c = committed /\ c = committed'
    BY <1>3
  <2>2. PICK S \in SUBSET (Objs \ free) : IsList(mem, c, S) /\ \A r \in refs[w] : r[1] \in S
    BY <1>4, <2>1 DEF OnList
  <2>3. S \in SUBSET (Objs \ free') /\ IsList(mem', c, S)
    BY <1>4, <2>1, <2>2, ListKept
  <2>4. OnList(w, c)'
    BY <1>3, <2>2, <2>3 DEF OnList
  <2>5. Walk(w, c)'
    BY <1>2, <1>3 DEF Walk, LockSteps
  <2> QED
    BY <2>1, <2>4, <2>5 DEF Position, Walked
<1>6. Stepping(w, w)'
  <2>1. call[w].op \in Ops[w]
    BY <1>1, SteppingFacts
  <2> QED
    BY <1>0, <1>2, <1>3, <2>1 DEF Stepping, Syncing, SyncLabels, LockSteps
<1>7. Own(w)'
  BY <1>2 DEF Own, WalkSteps
<1>8. Lists(w)'
  <2>1. Updated(w)' = Updated(w)
    BY DEF Updated, WriteSet
  <2>2. Future(w)' = Future(w)
    BY <2>1 DEF Future
  <2>3. Latest(w)' = Future(w)
    BY <1>3, <2>2 DEF Latest
  <2>4. PICK l, a : l = Latest(w)' /\ a = Alive(w)'
    OBVIOUS
  <2>5. IsList(mem', l, a)
    BY <2>3, <2>4
  <2> QED
    BY <1>4, <2>4, <2>5 DEF Lists
<1>9. Copied(w)'
  BY <1>3 DEF Copied
<1>10. Buffered(w)'
  <2>1. ws_tail_counter[w] \in Nat /\ ws_wb_counter[w] \in Nat
    BY <1>1, CounterTypes
  <2>2. Len(free_nodes[w]) \in Nat /\ Len(free_nodes'[w]) \in Nat
    BY <1>1
  <2>3. Len(free_nodes[w]) <= ws_tail_counter[w] - ws_wb_counter[w]
    BY <1>0, <1>1, <2>1 DEF Buffered
  <2> QED
    BY <1>3, <2>1, <2>2, <2>3 DEF Buffered
<1>11. \A t \in Threads : Stepping(w, t)' /\ Position(w, t)'
  BY <1>4, <1>5, <1>6
<1>12. DOMAIN call' = Threads
  BY <1>1
<1> QED
  BY <1>7, <1>8, <1>9, <1>10, <1>11, <1>12 DEF LInv

\* A node with the key of the call is on the list.
LEMMA AddEffect ==
    ASSUME NEW w \in Threads, Writers \subseteq {w}, RluInv(w), LInv(w),
           NEW u \in Threads, AddNode(u)
    PROVE  /\ u = w /\ pc[w] = "section" /\ step[w] = "assign" /\ call[w].op = "add"
           /\ step' = [step EXCEPT ![w] = "unlock"] /\ UNCHANGED <<vars, call, walkVars, result>>
           /\ OldKept(w) /\ ListTypeOK' /\ Blocks(w)'
           /\ IsList(mem', Future(w), Alive(w)') /\ Len(free_nodes'[w]) <= Len(free_nodes[w]) + 1
           /\ \A b \in Alive(w) : Key(mem', Future(w), b) = Key(mem, committed, b)
           /\ \E o \in Objs \ Alive(w) : /\ Alive(w)' = Alive(w) \cup {o}
                                        /\ Key(mem', Future(w), o) = call[w].key
<1>0. u = w /\ Stepping(w, u)
  BY DEF AddNode, LInv, Stepping
<1>1. /\ pc[w] = "section" /\ step[w] = "assign" /\ call[w].op = "add"
      /\ step' = [step EXCEPT ![w] = "unlock"]
      /\ UNCHANGED <<free_nodes, call, walkVars, result>>
  BY <1>0 DEF AddNode, GotoStep
<1>2. PICK c, S, prev, next, key :
          /\ c = Future(w) /\ S = Alive(w) /\ prev = Actual(p_prev[w]) /\ next = Actual(p_next[w])
          /\ key = call[w].key
  OBVIOUS
<1>3. /\ IsList(mem, c, S) /\ S \in SUBSET (Objs \ free)
      /\ prev \in S \ {p_max_node} /\ next \in S
      /\ Contents(p_prev[w]) = c[prev] /\ New(w) \in c[prev]
      /\ next = Link(mem, c, prev) /\ Key(mem, c, prev) < key
      /\ key \in CallKeys /\ key < Key(mem, c, next)
      /\ \A b \in Objs : p_obj_copy[b] = NULL => c[b] = data[b]
      /\ \A b \in S : Key(mem, c, b) = Key(mem, committed, b)
  BY <1>1, <1>2, AssignFacts
<1>4. PICK o \in free : /\ Alloc(o)
                        /\ mem' = AssignNext(w, [mem EXCEPT ![o] = [v \in {data[o]} |->
                                        [val |-> key, p_next |-> next]]], o)
  BY <1>0, <1>2 DEF AddNode
<1>5. /\ ListTypeOK /\ Blocks(w) /\ DOMAIN mem = Objs /\ free \in SUBSET Objs
      /\ p_obj_copy \in [Objs -> Addr \cup {NULL}] /\ data \in [Objs -> Value]
      /\ free_nodes \in [Threads -> Seq(Objs)] /\ step \in [Threads -> Steps]
  BY FactsNow, CopyTypes DEF LInv, ListTypeOK, RluInv, ValueInv, LogInv, Facts, TypeFacts
<1>6. /\ o \in Objs /\ p_obj_copy[o] = NULL /\ free' = free \ {o} /\ UNCHANGED vars
      /\ o \notin S /\ o # prev
  <2>1. o \in Objs /\ p_obj_copy[o] = NULL
    BY <1>5 DEF Blocks
  <2>2. UNCHANGED p_obj_copy /\ free' = free \ {o}
    BY <1>4, <1>5, <2>1 DEF Alloc
  <2>3. UNCHANGED vars
    BY <1>0, <2>2 DEF AddNode, UnchangedRlu
  <2> QED
    BY <1>3, <2>1, <2>2, <2>3
<1> DEFINE node == [val |-> key, p_next |-> next]
<1>7. /\ DOMAIN mem' = Objs
      /\ mem'[o] = [v \in {data[o]} |-> node]
      /\ mem'[prev] = [mem[prev] EXCEPT ![c[prev]].p_next = o]
      /\ \A b \in Objs \ {o, prev} : mem'[b] = mem[b]
  <2>1. PICK m : m = [mem EXCEPT ![o] = [v \in {data[o]} |-> node]]
    OBVIOUS
  <2>2. /\ DOMAIN m = Objs /\ m[o] = [v \in {data[o]} |-> node]
        /\ \A b \in Objs \ {o} : m[b] = mem[b]
    BY <1>5, <1>6, <2>1
  <2>3. mem' = [m EXCEPT ![prev][c[prev]].p_next = o]
    BY <1>2, <1>3, <1>4, <2>1 DEF AssignNext
  <2> QED
    BY <1>3, <1>5, <1>6, <2>2, <2>3
<1> HIDE DEF node
<1>8. c[prev] \in DOMAIN mem[prev] /\ mem[prev][c[prev]] \in NodeType /\ c[o] = data[o]
  BY <1>3, <1>6 DEF IsList
<1>9. /\ DOMAIN mem'[prev] = DOMAIN mem[prev]
      /\ mem'[prev][c[prev]] = [val |-> Key(mem, c, prev), p_next |-> o]
      /\ \A v \in DOMAIN mem[prev] \ {c[prev]} : mem'[prev][v] = mem[prev][v]
      /\ DOMAIN mem'[o] = {data[o]} /\ mem'[o][c[o]] = node
  BY <1>7, <1>8 DEF NodeType, Key
<1>10. OldKept(w)
  <2>1. ASSUME NEW b \in Objs \ free, NEW v \in DOMAIN mem[b], New(w) \notin v
        PROVE  v \in DOMAIN mem'[b] /\ mem'[b][v] = mem[b][v]
    <3>1. CASE b = prev
      BY <1>3, <1>9, <2>1, <3>1
    <3>2. CASE b # prev
      BY <1>7, <2>1, <3>2
    <3> QED
      BY <3>1, <3>2
  <2> QED
    BY <1>6, <2>1 DEF OldKept
<1>11. key \in Keys /\ node \in NodeType
  BY <1>3, ListAssumption DEF node, NodeType, IsList
<1>12. IsList(mem', c, S \cup {o})
  <2>1. \A b \in S \ {prev} : c[b] \in DOMAIN mem'[b] /\ mem'[b][c[b]] = mem[b][c[b]]
    BY <1>3, <1>6, <1>7 DEF IsList
  <2>2. node = [val |-> key, p_next |-> Link(mem, c, prev)]
    BY <1>3 DEF node
  <2>3. PICK m2 : m2 = mem'
    OBVIOUS
  <2>4. /\ \A b \in S \ {prev} : c[b] \in DOMAIN m2[b] /\ m2[b][c[b]] = mem[b][c[b]]
        /\ c[prev] \in DOMAIN m2[prev] /\ c[o] \in DOMAIN m2[o]
        /\ m2[prev][c[prev]] = [val |-> Key(mem, c, prev), p_next |-> o]
        /\ m2[o][c[o]] = [val |-> key, p_next |-> Link(mem, c, prev)]
    BY <1>8, <1>9, <2>1, <2>2, <2>3
  <2>5. /\ prev \in S \ {p_max_node} /\ o \in Objs \ S /\ key \in Keys
        /\ Key(mem, c, prev) < key /\ key < Key(mem, c, Link(mem, c, prev))
    BY <1>3, <1>6, <1>11
  <2>6. IsList(m2, c, S \cup {o})
    BY <1>3, <2>4, <2>5, ListInsert
  <2> QED
    BY <2>3, <2>6
<1>13. Alive(w)' = S \cup {o}
  BY <1>1, <1>2, <1>4, <1>5, <1>6 DEF Alive, Freed, Blocks
<1>14. IsList(mem', Future(w), Alive(w)')
  BY <1>2, <1>12, <1>13
<1>15. Blocks(w)'
  BY <1>1, <1>5, <1>6 DEF Blocks, Freed
<1>16. ListTypeOK'
  <2>1. ASSUME NEW b \in Objs, NEW v \in DOMAIN mem'[b] PROVE v \in Value /\ mem'[b][v] \in NodeType
    <3>1. CASE b = o
      BY <1>5, <1>8, <1>9, <1>11, <2>1, <3>1
    <3>2. CASE b = prev
      <4>1. v \in DOMAIN mem[prev]
        BY <1>9, <2>1, <3>2
      <4>2. v \in Value /\ mem[prev][v] \in NodeType
        BY <1>5, <2>1, <3>2, <4>1 DEF ListTypeOK
      <4>3. v = c[prev] => mem'[prev][v] \in NodeType
        BY <1>6, <1>8, <1>9 DEF NodeType, Key
      <4> QED
        BY <1>9, <3>2, <4>1, <4>2, <4>3
    <3>3. CASE b \notin {o, prev}
      BY <1>5, <1>7, <2>1, <3>3 DEF ListTypeOK
    <3> QED
      BY <3>1, <3>2, <3>3
  <2>2. step' \in [Threads -> Steps] /\ free' \in SUBSET Objs
    BY <1>1, <1>5, <1>6 DEF Steps
  <2> QED
    BY <1>1, <1>5, <1>7, <2>1, <2>2 DEF ListTypeOK, walkVars
<1>17. Len(free_nodes'[w]) <= Len(free_nodes[w]) + 1
  BY <1>1, <1>5
<1>18. \A b \in S : Key(mem', c, b) = Key(mem, committed, b)
  <2>1. ASSUME NEW b \in S PROVE Key(mem', c, b) = Key(mem, c, b)
    <3>1. CASE b = prev
      <4>1. mem'[b][c[b]].val = Key(mem, c, b)
        BY <1>9, <3>1
      <4> QED
        BY <4>1 DEF Key
    <3>2. CASE b # prev
      <4>1. mem'[b] = mem[b]
        BY <1>3, <1>6, <1>7, <3>2
      <4> QED
        BY <4>1 DEF Key
    <3> QED
      BY <3>1, <3>2
  <2> QED
    BY <1>3, <2>1
<1>19. Key(mem', c, o) = key /\ o \in Objs \ S
  BY <1>3, <1>6, <1>9 DEF Key, node
<1> QED
  BY <1>0, <1>1, <1>2, <1>6, <1>10, <1>13, <1>14, <1>15, <1>16, <1>17, <1>18, <1>19

LEMMA ListAddNode ==
    ASSUME NEW w \in Threads, Writers \subseteq {w}, RluInv(w), RluInv(w)', LInv(w),
           NEW u \in Threads, AddNode(u)
    PROVE  LInv(w)'
BY AddEffect, AssignStep

\* The node with the key of the call is off the list, and noted.
LEMMA RemoveEffect ==
    ASSUME NEW w \in Threads, Writers \subseteq {w}, RluInv(w), LInv(w),
           NEW u \in Threads, RemoveNode(u)
    PROVE  /\ u = w /\ pc[w] = "section" /\ step[w] = "assign" /\ call[w].op = "remove"
           /\ step' = [step EXCEPT ![w] = "unlock"] /\ UNCHANGED <<vars, call, walkVars, result>>
           /\ OldKept(w) /\ ListTypeOK' /\ Blocks(w)'
           /\ IsList(mem', Future(w), Alive(w)') /\ Len(free_nodes'[w]) <= Len(free_nodes[w]) + 1
           /\ \A b \in Alive(w) : Key(mem', Future(w), b) = Key(mem, committed, b)
           /\ \E o \in Alive(w) : /\ Alive(w)' = Alive(w) \ {o}
                                 /\ Key(mem, committed, o) = call[w].key
<1>0. u = w /\ Stepping(w, u)
  BY DEF RemoveNode, LInv, Stepping
<1>1. /\ pc[w] = "section" /\ step[w] = "assign" /\ call[w].op = "remove"
      /\ step' = [step EXCEPT ![w] = "unlock"] /\ UNCHANGED vars
      /\ UNCHANGED <<free, call, walkVars, result>>
  BY <1>0 DEF RemoveNode, GotoStep, UnchangedRlu
<1>2. PICK c, S, prev, next, last :
          /\ c = Future(w) /\ S = Alive(w) /\ prev = Actual(p_prev[w]) /\ next = Actual(p_next[w])
          /\ last = Actual(n[w])
  OBVIOUS
<1>3. /\ IsList(mem, c, S) /\ S \in SUBSET (Objs \ free)
      /\ prev \in S \ {p_max_node} /\ next \in S
      /\ Contents(p_prev[w]) = c[prev] /\ New(w) \in c[prev]
      /\ next = Link(mem, c, prev) /\ next # p_max_node /\ last = Link(mem, c, next)
      /\ \A b \in S : Key(mem, c, b) = Key(mem, committed, b)
      /\ Key(mem, c, next) = call[w].key
  BY <1>1, <1>2, AssignFacts
<1>4. /\ ListTypeOK /\ Blocks(w) /\ DOMAIN mem = Objs /\ free \in SUBSET Objs
      /\ free_nodes \in [Threads -> Seq(Objs)] /\ step \in [Threads -> Steps]
  BY DEF LInv, ListTypeOK
<1>5. mem' = [mem EXCEPT ![prev][c[prev]].p_next = last]
      /\ free_nodes' = [free_nodes EXCEPT ![w] = Append(free_nodes[w], next)]
  BY <1>0, <1>2, <1>3, <1>4 DEF RemoveNode, AssignNext, Free
<1>6. /\ DOMAIN mem' = Objs
      /\ mem'[prev] = [mem[prev] EXCEPT ![c[prev]].p_next = last]
      /\ \A b \in Objs \ {prev} : mem'[b] = mem[b]
  BY <1>3, <1>4, <1>5
<1>7. /\ c[prev] \in DOMAIN mem[prev] /\ mem[prev][c[prev]] \in NodeType
      /\ last \in Objs /\ next \in Objs
  BY <1>3 DEF IsList, LinksStay
<1>8. /\ DOMAIN mem'[prev] = DOMAIN mem[prev]
      /\ mem'[prev][c[prev]] = [val |-> Key(mem, c, prev), p_next |-> last]
      /\ \A v \in DOMAIN mem[prev] \ {c[prev]} : mem'[prev][v] = mem[prev][v]
  BY <1>6, <1>7 DEF NodeType, Key
<1>9. OldKept(w)
  <2>1. ASSUME NEW b \in Objs \ free, NEW v \in DOMAIN mem[b], New(w) \notin v
        PROVE  v \in DOMAIN mem'[b] /\ mem'[b][v] = mem[b][v]
    <3>1. CASE b = prev
      BY <1>3, <1>8, <2>1, <3>1
    <3>2. CASE b # prev
      BY <1>6, <2>1, <3>2
    <3> QED
      BY <3>1, <3>2
  <2> QED
    BY <1>1, <2>1 DEF OldKept
<1>10. IsList(mem', c, S \ {next})
  <2>1. PICK m2 : m2 = mem'
    OBVIOUS
  <2>2. /\ \A b \in S \ {prev} : c[b] \in DOMAIN m2[b] /\ m2[b][c[b]] = mem[b][c[b]]
        /\ c[prev] \in DOMAIN m2[prev]
        /\ m2[prev][c[prev]] = [val |-> Key(mem, c, prev),
                                p_next |-> Link(mem, c, Link(mem, c, prev))]
    BY <1>3, <1>6, <1>7, <1>8, <2>1 DEF IsList
  <2>3. prev \in S \ {p_max_node} /\ Link(mem, c, prev) # p_max_node
    BY <1>3
  <2>4. IsList(m2, c, S \ {Link(mem, c, prev)})
    BY <1>3, <2>2, <2>3, ListRemove
  <2> QED
    BY <1>3, <2>1, <2>4
<1>11. /\ free_nodes'[w] = Append(free_nodes[w], next)
       /\ \A t \in Threads \ {w} : free_nodes'[t] = free_nodes[t]
       /\ free_nodes' \in [Threads -> Seq(Objs)]
       /\ Freed(w)' = Freed(w) \cup {next} /\ Len(free_nodes'[w]) = Len(free_nodes[w]) + 1
  <2>1. /\ free_nodes'[w] = Append(free_nodes[w], next)
        /\ \A t \in Threads \ {w} : free_nodes'[t] = free_nodes[t]
    BY <1>4, <1>5
  <2>2. PICK q \in Seq(Objs) : q = free_nodes[w]
    BY <1>4
  <2>3. /\ DOMAIN Append(q, next) = DOMAIN q \cup {Len(q) + 1}
        /\ \A k \in DOMAIN q : Append(q, next)[k] = q[k]
        /\ Append(q, next)[Len(q) + 1] = next /\ Len(Append(q, next)) = Len(q) + 1
        /\ Append(q, next) \in Seq(Objs)
    BY <1>7, <2>2
  <2>4. Freed(w)' = Freed(w) \cup {next}
    BY <2>1, <2>2, <2>3 DEF Freed
  <2>5. free_nodes' \in [Threads -> Seq(Objs)]
    BY <1>4, <1>5, <2>2, <2>3
  <2> QED
    BY <2>1, <2>2, <2>3, <2>4, <2>5
<1>12. Alive(w)' = S \ {next}
  BY <1>1, <1>2, <1>11 DEF Alive
<1>13. IsList(mem', Future(w), Alive(w)')
  BY <1>2, <1>10, <1>12
<1>14. Blocks(w)'
  <2>1. next \notin free
    BY <1>3
  <2> QED
    BY <1>1, <1>4, <1>11, <2>1 DEF Blocks
<1>15. ListTypeOK'
  <2>1. ASSUME NEW b \in Objs, NEW v \in DOMAIN mem'[b] PROVE v \in Value /\ mem'[b][v] \in NodeType
    <3>1. CASE b = prev
      <4>1. v \in DOMAIN mem[prev]
        BY <1>8, <2>1, <3>1
      <4>2. v \in Value /\ mem[prev][v] \in NodeType
        BY <1>4, <2>1, <3>1, <4>1 DEF ListTypeOK
      <4>3. v = c[prev] => mem'[prev][v] \in NodeType
        BY <1>7, <1>8 DEF NodeType, Key
      <4> QED
        BY <1>8, <3>1, <4>1, <4>2, <4>3
    <3>2. CASE b # prev
      BY <1>4, <1>6, <2>1, <3>2 DEF ListTypeOK
    <3> QED
      BY <3>1, <3>2
  <2>2. step' \in [Threads -> Steps]
    BY <1>1, <1>4 DEF Steps
  <2> QED
    BY <1>1, <1>4, <1>6, <1>11, <2>1, <2>2 DEF ListTypeOK, walkVars
<1>16. Len(free_nodes'[w]) <= Len(free_nodes[w]) + 1
  <2>1. Len(free_nodes[w]) \in Nat
    BY <1>4
  <2> QED
    BY <1>11, <2>1
<1>17. \A b \in S : Key(mem', c, b) = Key(mem, committed, b)
  <2>1. ASSUME NEW b \in S PROVE Key(mem', c, b) = Key(mem, c, b)
    <3>1. CASE b = prev
      <4>1. mem'[b][c[b]].val = Key(mem, c, b)
        BY <1>8, <3>1
      <4> QED
        BY <4>1 DEF Key
    <3>2. CASE b # prev
      <4>1. mem'[b] = mem[b]
        BY <1>3, <1>6, <3>2
      <4> QED
        BY <4>1 DEF Key
    <3> QED
      BY <3>1, <3>2
  <2> QED
    BY <1>3, <2>1
<1>18. Key(mem, committed, next) = call[w].key
  BY <1>3
<1> QED
  BY <1>0, <1>1, <1>2, <1>3, <1>9, <1>12, <1>13, <1>14, <1>15, <1>16, <1>17, <1>18

LEMMA ListRemoveNode ==
    ASSUME NEW w \in Threads, Writers \subseteq {w}, RluInv(w), RluInv(w)', LInv(w),
           NEW u \in Threads, RemoveNode(u)
    PROVE  LInv(w)'
BY RemoveEffect, AssignStep

-----------------------------------------------------------------------------
(* The invariant. *)

LEMMA ListStutters ==
    ASSUME NEW w \in Threads, LInv(w), UNCHANGED allVars
    PROVE  LInv(w)'
<1>0. /\ UNCHANGED vars
      /\ UNCHANGED <<mem, free, free_nodes, call, step, p_prev, p_next, n, result>>
  BY DEF allVars, listVars, blockVars, walkVars
<1>1. ListTypeOK' /\ DOMAIN call' = Threads
  BY <1>0 DEF LInv, ListTypeOK
<1>2. /\ (InSection(w)' <=> InSection(w)) /\ (Assigned(w)' <=> Assigned(w))
      /\ Updated(w)' = Updated(w) /\ \A o \in Objs : Published(o)' = Published(o)
  BY <1>0 DEF InSection, Assigned, Updated, WriteSet, Published, Publishing, Complete, At
<1>3. Future(w)' = Future(w) /\ Store' = Store /\ UNCHANGED committed
  BY <1>0, <1>2 DEF Future, Store
<1>4. Latest(w)' = Latest(w) /\ Alive(w)' = Alive(w) /\ Freed(w)' = Freed(w)
  BY <1>0, <1>2, <1>3 DEF Latest, Alive, Freed
<1>5. Lists(w)' /\ Copied(w)'
  BY <1>0, <1>2, <1>3, <1>4 DEF LInv, Lists, Listed, Copied
<1>6. Blocks(w)' /\ Buffered(w)' /\ Own(w)'
  BY <1>0, <1>2, <1>4 DEF LInv, Blocks, Buffered, Own, WsCurId
<1>7. ASSUME NEW t \in Threads PROVE Stepping(w, t)' /\ Position(w, t)'
  <2>0. \A p : Actual(p)' = Actual(p)
    BY <1>0 DEF Actual, At
  <2>1. Stepping(w, t)'
    BY <1>0 DEF LInv, Stepping, Syncing, LockTarget, Actual, At
  <2>2. PICK c : c = Walked(w, t) /\ c = Walked(w, t)'
    BY <1>0 DEF Walked
  <2>3. CASE InSection(t)
    <3>1. OnList(t, c) /\ Walk(t, c)
      BY <2>2, <2>3 DEF LInv, Position
    <3>2. OnList(t, c)'
      BY <1>0, <3>1 DEF OnList
    <3>3. Walk(t, c)'
      BY <1>0, <3>1 DEF Walk, GotPtr, Target, Actual, At
    <3> QED
      BY <2>1, <2>2, <3>2, <3>3 DEF Position
  <2>4. CASE ~InSection(t)
    <3>1. ~InSection(t)'
      BY <1>0, <2>4 DEF InSection
    <3> QED
      BY <2>1, <3>1 DEF Position
  <2> QED
    BY <2>3, <2>4
<1> QED
  BY <1>1, <1>5, <1>6, <1>7 DEF LInv

LEMMA ListThreadStep ==
    ASSUME NEW w \in Threads, Writers \subseteq {w}, RluInv(w), RluInv(w)', LInv(w),
           NEW u \in Threads, StartOp(u) \/ Inside(u) \/ Finish(u)
    PROVE  LInv(w)'
<1>1. CASE AddNode(u) \/ RemoveNode(u) \/ Return(u)
  BY <1>1, ListAddNode, ListRemoveNode, ListReturn
<1>2. CASE Thread(u) /\ (StartOp(u) \/ Restart(u) \/ Finish(u))
  BY <1>2, ListStart, ListFinish
<1>3. CASE Thread(u) /\ (WalkDeref(u) \/ WalkDerefLocked(u) \/ WalkSteal(u))
  BY <1>3, ListWalk, ListDerefLocked
<1>4. CASE Thread(u) /\ (ListTryLock(u) \/ ListTryLockCopy(u))
  BY <1>4, ListLocking, ListCopy
<1>5. CASE Thread(u) /\ (ListAbort(u) \/ ListUnlock(u) \/ ListSyncEnd(u))
  BY <1>5, ListLeave, ListProcessFree
<1>6. CASE Thread(u) /\ Library(u)
  <2>1. UNCHANGED listVars
    BY <1>6 DEF Library
  <2> QED
    BY <1>6, <2>1, ListReadVersion, ListReadCommitVersion, ListTryLockCas, ListSendSyncRequest,
       ListLibraryOut
<1> QED
  BY <1>1, <1>2, <1>3, <1>4, <1>5, <1>6, RluOfList DEF Inside

LEMMA LInvStep ==
    ASSUME NEW w \in Threads, Writers \subseteq {w}
    PROVE  RluInv(w) /\ LInv(w) /\ VersionsBelowMax /\ [ListNext]_allVars
              => RluInv(w)' /\ LInv(w)' /\ [Next]_vars
<1> SUFFICES ASSUME RluInv(w), LInv(w), VersionsBelowMax, [ListNext]_allVars
             PROVE  RluInv(w)' /\ LInv(w)' /\ [Next]_vars
  OBVIOUS
<1>1. CASE UNCHANGED allVars
  <2>1. [Next]_vars
    BY <1>1 DEF allVars
  <2> QED
    BY <1>1, <2>1, RluInvStep, ListStutters
<1>2. ASSUME NEW u \in Threads, StartOp(u) \/ Inside(u) \/ Finish(u)
      PROVE  RluInv(w)' /\ LInv(w)' /\ [Next]_vars
  <2>1. [Next]_vars
    BY <1>2, RluOfList DEF Next
  <2>2. RluInv(w)'
    BY <2>1, RluInvStep
  <2> QED
    BY <1>2, <2>1, <2>2, ListThreadStep
<1> QED
  BY <1>1, <1>2 DEF ListNext

LEMMA LInvInit ==
    ASSUME NEW w \in Threads
    PROVE  ListInit => RluInv(w) /\ LInv(w)
<1> SUFFICES ASSUME ListInit PROVE RluInv(w) /\ LInv(w)
  OBVIOUS
<1>0. Init /\ RluInv(w)
  BY RluInvInit DEF ListInit
<1>1. /\ mem = [o \in Objs |-> [v \in IF o \in Used THEN {{}} ELSE {} |-> InitialNode(o)]]
      /\ free = Objs \ Used /\ free_nodes = [t \in Threads |-> <<>>]
      /\ call = [t \in Threads |-> NULL] /\ step = [t \in Threads |-> "out"]
      /\ p_prev = [t \in Threads |-> NULL] /\ p_next = [t \in Threads |-> NULL]
      /\ n = [t \in Threads |-> NULL] /\ result = [t \in Threads |-> FALSE]
  BY DEF ListInit, Used
<1>2. /\ p_obj_copy = [o \in Objs |-> NULL]
      /\ data = [o \in Objs |-> {}] /\ committed = [o \in Objs |-> {}]
      /\ \A t \in Threads : pc[t] \in {"idle", "new"} /\ ret[t] = "idle"
      /\ ws_tail_counter[w] = 0 /\ ws_wb_counter[w] = 0
  BY <1>0 DEF Init
<1>3. Store = [o \in Objs |-> {}]
  BY <1>2 DEF Store, Published
<1>4. IsList(mem, committed, Used)
  BY <1>1, <1>2, InitialList
<1>5. Freed(w) = {} /\ Alive(w) = Used /\ Used \in SUBSET (Objs \ free)
  <2>1. free_nodes[w] = <<>>
    BY <1>1
  <2>2. Freed(w) = {}
    BY <2>1 DEF Freed
  <2> QED
    BY <1>1, <1>4, <2>2 DEF Alive, IsList
<1>6. \A t \in Threads : ~InSection(t) /\ ~Starting(t) /\ step[t] = "out"
  BY <1>1, <1>2 DEF InSection, Starting, Syncing, SyncLabels
<1>7. Lists(w)
  <2>1. Latest(w) = committed
    BY <1>2 DEF Latest, Assigned
  <2>2. Store = committed
    BY <1>2, <1>3
  <2> QED
    BY <1>4, <1>5, <2>1, <2>2 DEF Lists, Listed
<1>8. Copied(w) /\ Own(w)
  BY <1>6 DEF Copied, Own
<1>9. Blocks(w)
  BY <1>1, <1>2, <1>5 DEF Blocks
<1>10. Buffered(w)
  <2>1. Len(free_nodes[w]) = 0
    BY <1>1
  <2> QED
    BY <1>2, <2>1, WriteSetsAssumption DEF Buffered, Assigned
<1>11. \A t \in Threads : Stepping(w, t) /\ Position(w, t)
  BY <1>2, <1>6 DEF Stepping, Position, InSection, LockSteps, Syncing, SyncLabels
<1>12. ListTypeOK /\ DOMAIN call = Threads
  <2>1. ASSUME NEW o \in Objs, NEW v \in DOMAIN mem[o] PROVE v \in Value /\ mem[o][v] \in NodeType
    <3>1. o \in Used /\ v = {} /\ mem[o][v] = InitialNode(o)
      BY <1>1, <2>1
    <3> QED
      BY <3>1, InitialLinks DEF Value
  <2>2. free \in SUBSET Objs /\ DOMAIN mem = Objs
    BY <1>1
  <2>3. /\ free_nodes \in [Threads -> Seq(Objs)] /\ step \in [Threads -> Steps]
        /\ p_prev \in [Threads -> Ptr \cup {NULL}] /\ p_next \in [Threads -> Ptr \cup {NULL}]
        /\ n \in [Threads -> Ptr \cup {NULL}] /\ result \in [Threads -> BOOLEAN]
        /\ \A t \in Threads : call[t] = NULL
    BY <1>1 DEF Steps
  <2> QED
    BY <1>1, <2>1, <2>2, <2>3 DEF ListTypeOK
<1> QED
  BY <1>0, <1>7, <1>8, <1>9, <1>10, <1>11, <1>12 DEF LInv

LEMMA ListInvariant ==
    ASSUME NEW CONSTANT w, w \in Threads, Writers \subseteq {w}
    PROVE  ListSpec /\ []VersionsBelowMax => [](RluInv(w) /\ LInv(w))
<1>1. RluInv(w) /\ LInv(w) /\ VersionsBelowMax /\ [ListNext]_allVars => (RluInv(w) /\ LInv(w))'
  BY LInvStep
<1>2. ListInit => RluInv(w) /\ LInv(w)
  BY LInvInit
<1> QED
  BY <1>1, <1>2, PTL DEF ListSpec

-----------------------------------------------------------------------------
(* D. What the invariant says of the list. *)

\* The list uses rlu.c as one of the clients of Rlu does: what is proved of Rlu
\* holds under it.
THEOREM ListIsClient ==
    ASSUME NEW CONSTANT w, w \in Threads, Writers \subseteq {w}
    PROVE  ListSpec /\ []VersionsBelowMax => Spec
<1>1. RluInv(w) /\ LInv(w) /\ VersionsBelowMax /\ [ListNext]_allVars => [Next]_vars
  BY LInvStep
<1>2. ListInit => Init
  BY DEF ListInit
<1> QED
  BY <1>1, <1>2, ListInvariant, PTL DEF ListSpec, Spec

\* The variables of the list functions of hash-list.c have their types.
THEOREM ListTypeCorrect ==
    ASSUME NEW CONSTANT w, w \in Threads, Writers \subseteq {w}
    PROVE  ListSpec /\ []VersionsBelowMax => []ListTypeOK
<1>1. LInv(w) => ListTypeOK
  BY DEF LInv
<1> QED
  BY <1>1, ListInvariant, PTL

LEMMA NothingFreeIsUsed ==
    ASSUME NEW w \in Threads, Writers \subseteq {w}, RluInv(w), LInv(w)
    PROVE  NoUseAfterFree
<1>0. Facts(w) /\ Lists(w)
  BY FactsNow DEF LInv
<1>1. ASSUME NEW t \in Threads, NEW r \in refs[t] PROVE r[1] \notin free
  <2>1. r[1] \in Objs /\ r[2] \in Ptr /\ r = <<r[1], r[2]>>
    BY <1>0, <1>1 DEF Facts, TypeFacts
  <2>2. InSection(t)
    BY <1>0, <1>1, <2>1 DEF Facts, RefFacts
  <2>3. OnList(t, Walked(w, t))
    BY <2>2 DEF LInv, Position
  <2> QED
    BY <1>1, <2>3 DEF OnList
<1>2. ASSUME NEW t \in Threads PROVE Chain(OwnContents(t)) \cap free = {}
  <2>1. PICK c : c = OwnContents(t) /\ Listed(c)
    BY <1>0 DEF Facts, QuietFacts, Lists
  <2>2. PICK S \in SUBSET (Objs \ free) : IsList(mem, c, S)
    BY <2>1 DEF Listed
  <2>3. Chain(c) = S
    BY <2>2, ChainOfList
  <2> QED
    BY <2>1, <2>2, <2>3
<1> QED
  BY <1>1, <1>2 DEF NoUseAfterFree

\* A block is freed (rlu_process_free, rlu.c:583) only when no pointer of a section
\* is to it or to a copy of it, and it is on no list that a section could walk:
\* the grace period and the deferred write-backs suffice, for one thread that
\* updates the list and any number that search it.
THEOREM NothingUsedIsFreed ==
    ASSUME NEW CONSTANT w, w \in Threads, Writers \subseteq {w}
    PROVE  ListSpec /\ []VersionsBelowMax => []NoUseAfterFree
<1>1. RluInv(w) /\ LInv(w) => NoUseAfterFree
  BY NothingFreeIsUsed
<1> QED
  BY <1>1, ListInvariant, PTL

LEMMA BufferBounded ==
    ASSUME NEW w \in Threads, Writers \subseteq {w}, RluInv(w), LInv(w)
    PROVE  FreeBuffer
<1>0. /\ Facts(w) /\ TypeInv /\ Blocks(w) /\ Buffered(w)
      /\ free_nodes \in [Threads -> Seq(Objs)] /\ max_write_sets \in Nat
  BY FactsNow, WriteSetsAssumption DEF LInv, ListTypeOK, RluInv, ValueInv, LogInv
<1> SUFFICES ASSUME NEW t \in Threads
             PROVE  /\ pc[t] = "sync_end" =>
                          \A k \in DOMAIN free_nodes[t] : p_obj_copy[free_nodes[t][k]] = NULL
                    /\ Len(free_nodes[t]) <= max_write_sets
                    /\ pc[t] = "idle" =>
                          Len(free_nodes[t]) <= ws_tail_counter[t] - ws_wb_counter[t]
  BY DEF FreeBuffer
<1>1. /\ RingOf(t) /\ ws_tail_counter[t] \in Nat /\ ws_wb_counter[t] \in Nat
      /\ Len(free_nodes[t]) \in Nat
  BY <1>0, CounterTypes DEF RluInv, ValueInv, LogInv, Ring
<1>2. CASE t # w
  <2>1. free_nodes[t] = <<>>
    BY <1>0, <1>2 DEF Blocks
  <2>2. Len(free_nodes[t]) = 0 /\ DOMAIN free_nodes[t] = {}
    BY <2>1
  <2>3. ws_wb_counter[t] <= ws_tail_counter[t]
    BY <1>1 DEF RingOf
  <2> QED
    BY <1>0, <1>1, <2>2, <2>3
<1>3. CASE t = w
  <2>1. ASSUME pc[w] = "sync_end", NEW k \in DOMAIN free_nodes[w]
        PROVE  p_obj_copy[free_nodes[w][k]] = NULL
    <3>1. free_nodes[w][k] \in Objs
      BY <1>0, <2>1
    <3> QED
      BY <1>0, <2>1, <3>1 DEF Facts, QuietFacts
  <2>2. Len(free_nodes[w]) <= max_write_sets
    <3>1. CASE pc[w] \in {"commit", "sync_end"}
      BY <1>0, <3>1 DEF Buffered
    <3>2. CASE Assigned(w)
      <4>1. ws_tail_counter[w] < ws_wb_counter[w] + max_write_sets
        BY <1>1, <1>3, <3>2 DEF RingOf, Assigned, Syncing, SyncLabels
      <4> QED
        BY <1>0, <1>1, <1>3, <3>2, <4>1 DEF Buffered, Assigned
    <3>3. CASE ~Assigned(w) /\ pc[w] \notin {"commit", "sync_end"}
      <4>1. ws_tail_counter[w] <= ws_wb_counter[w] + max_write_sets
        BY <1>1, <1>3 DEF RingOf
      <4> QED
        BY <1>0, <1>1, <1>3, <3>3, <4>1 DEF Buffered
    <3> QED
      BY <3>1, <3>2, <3>3
  <2>3. pc[w] = "idle" => Len(free_nodes[w]) <= ws_tail_counter[w] - ws_wb_counter[w]
    BY <1>0, <1>1, <1>3 DEF Buffered, Assigned
  <2> QED
    BY <1>3, <2>1, <2>2, <2>3
<1> QED
  BY <1>2, <1>3

\* The assertion of rlu_process_free (rlu.c:450) holds, and rlu_free's (rlu.c:737):
\* a synchronisation leaves no block in the buffer locked, and the buffer holds one
\* block at most for each write-set that is deferred.
THEOREM FreeBufferBounded ==
    ASSUME NEW CONSTANT w, w \in Threads, Writers \subseteq {w}
    PROVE  ListSpec /\ []VersionsBelowMax => []FreeBuffer
<1>1. RluInv(w) /\ LInv(w) => FreeBuffer
  BY BufferBounded
<1> QED
  BY <1>1, ListInvariant, PTL

LEMMA AllAccountedFor ==
    ASSUME NEW w \in Threads, Writers \subseteq {w}, RluInv(w), LInv(w)
    PROVE  NothingLeaked
<1> SUFFICES ASSUME Done PROVE free = Objs \ Chain(data)
  BY DEF NothingLeaked
<1>0. /\ Facts(w) /\ TypeInv /\ Lists(w) /\ Buffered(w) /\ RingOf(w) /\ pc[w] = "done"
      /\ free_nodes[w] \in Seq(Objs) /\ free \in SUBSET Objs
  BY FactsNow DEF LInv, ListTypeOK, RluInv, ValueInv, LogInv, Ring, Done
<1>1. IsList(mem, data, Alive(w))
  BY <1>0 DEF Lists, Latest, Assigned, Facts, QuietFacts
<1>2. Chain(data) = Alive(w)
  BY <1>1, ChainOfList
<1>3. Freed(w) = {}
  <2>1. ws_head_counter[w] = ws_tail_counter[w]
    BY <1>0 DEF RluInv, StealInv, Finishing, FinishingOf
  <2>2. /\ ws_head_counter[w] \in Nat /\ ws_wb_counter[w] \in Nat /\ ws_tail_counter[w] \in Nat
        /\ ws_head_counter[w] <= ws_wb_counter[w] /\ ws_wb_counter[w] <= ws_tail_counter[w]
    BY <1>0, CounterTypes DEF RingOf
  <2>3. Len(free_nodes[w]) \in Nat /\ Len(free_nodes[w]) <= 0
    <3>1. ws_tail_counter[w] - ws_wb_counter[w] + 0 = 0
      BY <2>1, <2>2
    <3>2. Len(free_nodes[w]) <= ws_tail_counter[w] - ws_wb_counter[w] + 0
      BY <1>0 DEF Buffered, Assigned
    <3> QED
      BY <1>0, <3>1, <3>2
  <2>4. DOMAIN free_nodes[w] = {}
    BY <1>0, <2>3
  <2> QED
    BY <2>4 DEF Freed
<1> QED
  BY <1>0, <1>2, <1>3 DEF Alive

\* No block is lost: once all the threads have finished, what is not in the list is
\* free again (rlu_thread_finish synchronises for the last time, rlu.c:687).
THEOREM NoBlockLeaks ==
    ASSUME NEW CONSTANT w, w \in Threads, Writers \subseteq {w}
    PROVE  ListSpec /\ []VersionsBelowMax => []NothingLeaked
<1>1. RluInv(w) /\ LInv(w) => NothingLeaked
  BY AllAccountedFor
<1> QED
  BY <1>1, ListInvariant, PTL

-----------------------------------------------------------------------------
(* E. What the list promises: the steps of what is published and deferred. *)

\* The contents that t would walk if its section started now.
Seeing(w, t) == IF t = w THEN committed ELSE Store

LEMMA OthersBacklog ==
    ASSUME NEW w \in Threads, Writers \subseteq {w}
    PROVE  RluInv(w) => \A t \in Threads \ {w} : Backlog[t] = 0
<1> SUFFICES ASSUME RluInv(w), NEW t \in Threads \ {w} PROVE Backlog[t] = 0
  OBVIOUS
<1>1. TypeInv /\ RingOf(t) /\ Bystander(t)
  BY DEF RluInv, ValueInv, LogInv, Ring, Bystanders
<1>2. ws_wb_counter[t] \in Nat /\ ws_wb_counter[t] = ws_tail_counter[t]
  BY <1>1, CounterTypes DEF RingOf, Bystander
<1> QED
  BY <1>2 DEF Backlog

LEMMA OthersBacklogNext ==
    ASSUME NEW w \in Threads, Writers \subseteq {w}
    PROVE  RluInv(w)' => (\A t \in Threads \ {w} : Backlog[t] = 0)'
<1>1. RluInv(w) => \A t \in Threads \ {w} : Backlog[t] = 0
  BY OthersBacklog
<1> QED
  BY <1>1, PTL

\* What w has deferred is committed, and published by a synchronisation at once.
LEMMA ContentsStep ==
    ASSUME NEW w \in Threads, Writers \subseteq {w}, RluInv(w), RluInv(w)',
           NEW u \in Threads, Thread(u)
    PROVE  /\ Backlog[w] \in Nat
           /\ \/ ~CommitUnlock(u) /\ UNCHANGED <<committed, Backlog>> /\ Store' = Store
              \/ /\ u = w /\ CommitUnlock(w) /\ committed' = Future(w) /\ Store' = Store
                 /\ Backlog' = [Backlog EXCEPT ![w] = @ + 1]
              \/ /\ u = w /\ SyncBump(w) /\ UNCHANGED committed /\ Store' = committed
                 /\ Backlog[w] > 0 /\ Backlog' = [Backlog EXCEPT ![w] = 0]
<1>0. /\ TypeInv /\ TypeInv' /\ RingOf(w) /\ Bystanders /\ ValueInv
      /\ QuietFacts(w) /\ QuietFacts(w)' /\ committed \in [Objs -> Value] /\ LogInv
      /\ data \in [Objs -> Value]
  BY FactsNow, FactsNext, FlagTypes DEF RluInv, ValueInv, LogInv, Facts, Ring
<1>1. /\ ws_wb_counter[w] \in Nat /\ ws_tail_counter[w] \in Nat
      /\ ws_wb_counter[w] <= ws_tail_counter[w]
      /\ ws_wb_counter \in [Threads -> Nat] /\ ws_tail_counter \in [Threads -> Nat]
      /\ pc \in [Threads -> Labels]
  BY <1>0, CounterTypes DEF RingOf
<1> DEFINE back  == ws_tail_counter[w] - ws_wb_counter[w]
           back2 == ws_tail_counter'[w] - ws_wb_counter'[w]
<1>2. /\ Backlog[w] = IF Publishing(w) THEN 0 ELSE back
      /\ Backlog'[w] = IF Publishing(w)' THEN 0 ELSE back2
  BY DEF Backlog
<1>3. Backlog[w] \in Nat
  BY <1>1, <1>2
<1>4. ASSUME NEW x, Backlog'[w] = x PROVE Backlog' = [Backlog EXCEPT ![w] = x]
  <2>1. \A t \in Threads \ {w} : Backlog'[t] = Backlog[t]
    BY OthersBacklog, OthersBacklogNext
  <2>2. /\ DOMAIN Backlog = Threads /\ Backlog' = [t \in Threads |-> Backlog'[t]]
    BY DEF Backlog
  <2>3. DOMAIN Backlog' = Threads
    BY <2>2
  <2> QED
    BY <1>4, <2>1, <2>2, <2>3
<1>5. Backlog'[w] = Backlog[w] => UNCHANGED Backlog
  <2>1. Backlog = [Backlog EXCEPT ![w] = Backlog[w]]
    BY DEF Backlog
  <2> QED
    BY <1>4, <2>1
<1>6. ASSUME CommitUnlock(w), u = w PROVE committed' = Future(w) /\ Store' = Store /\ Backlog'[w] = Backlog[w] + 1
  <2>1. /\ committed' = Future(w) /\ pc[w] = "section" /\ pc'[w] \in {"load", "release_prev"}
        /\ ws_tail_counter'[w] = ws_tail_counter[w] + 1 /\ UNCHANGED ws_wb_counter
    BY <1>1, <1>6 DEF CommitUnlock, Future, SyncCall, Goto
  <2>2. ~Publishing(w) /\ ~Publishing(w)' /\ UNCHANGED data
    BY <1>0, <1>6, <2>1, DataSteps DEF Publishing, Writeback
  <2> QED
    BY <1>0, <1>1, <1>2, <2>1, <2>2 DEF QuietFacts
<1>7. ASSUME SyncBump(w), u = w
      PROVE  /\ UNCHANGED committed /\ Store' = committed /\ Backlog'[w] = 0
             /\ Backlog[w] = 0 => Store' = Store
  <2>1. /\ pc[w] = "bump" /\ pc'[w] = "scan" /\ UNCHANGED committed
    BY <1>1, <1>7 DEF SyncBump, Goto
  <2>2. ~Publishing(w) /\ Publishing(w)'
    BY <2>1 DEF Publishing
  <2>3. ASSUME Backlog[w] = 0 PROVE data = committed
    <3>1. ws_wb_counter[w] = ws_tail_counter[w]
      BY <1>1, <1>2, <2>2, <2>3
    <3>2. ASSUME NEW o \in Objs PROVE data[o] = committed[o]
      <4>1. p_obj_copy[o] = NULL
        BY <1>0, <2>1, <3>1, NothingOwned DEF BackLabels, InSection
      <4> QED
        BY <1>0, <4>1 DEF QuietFacts
    <3> QED
      BY <1>0, <3>2
  <2> QED
    BY <1>0, <1>2, <2>1, <2>2, <2>3 DEF QuietFacts
<1>8. ASSUME u # w \/ ~(CommitUnlock(w) \/ SyncBump(w))
      PROVE  ~CommitUnlock(u) /\ UNCHANGED <<committed, Backlog>> /\ Store' = Store
  <2>1. ~CommitUnlock(u) /\ UNCHANGED committed
    <3>1. ASSUME u # w PROVE ~CommitUnlock(u)
      BY <3>1 DEF CommitUnlock, RluInv, Bystanders, Bystander
    <3> QED
      BY <1>8, <3>1, CommittedStep
  <2>2. CASE u = w /\ SyncUnstamp(w)
    <3>1. /\ pc[w] = "writeback" /\ pc'[w] = "commit" /\ UNCHANGED ws_tail_counter
          /\ ws_wb_counter'[w] = ws_tail_counter[w]
      BY <1>1, <2>2 DEF SyncUnstamp, Goto
    <3>2. Publishing(w) /\ ~Publishing(w)'
      BY <3>1 DEF Publishing
    <3>3. Store' = Store
      BY <1>0, <2>1, <3>1, <3>2 DEF QuietFacts
    <3>4. Backlog'[w] = Backlog[w]
      BY <1>1, <1>2, <3>1, <3>2
    <3> QED
      BY <1>5, <2>1, <3>3, <3>4
  <2>3. CASE ~(u = w /\ SyncUnstamp(w))
    <3>1. /\ Publishing(w)' <=> Publishing(w)
          /\ ws_tail_counter'[w] = ws_tail_counter[w] /\ ws_wb_counter'[w] = ws_wb_counter[w]
      <4>1. CASE u # w
        BY <1>0, <4>1, Others DEF Same, Publishing
      <4>2. CASE u = w
        <5>1. ws_wb_counter' = ws_wb_counter
          BY <1>0, <1>8, <2>3, <4>2, RingSteps
          DEF counterVars, TryLockCopy, ReleaseEnd, ResetWriteSets
        <5> QED
          BY <1>0, <1>8, <2>3, <4>2, <5>1, RoleSteps
      <4> QED
        BY <4>1, <4>2
    <3>2. Publishing(w) \/ UNCHANGED data
      <4>1. ASSUME Writeback(u) PROVE Publishing(w)
        <5>1. u = w
          BY <1>0, <4>1, BackSteps, LockedByWriter
        <5> QED
          BY <4>1, <5>1 DEF Writeback, Publishing
      <4> QED
        BY <1>0, <4>1, DataSteps
    <3>3. Store' = Store
      BY <1>0, <2>1, <3>1, <3>2 DEF QuietFacts
    <3> QED
      BY <1>2, <1>5, <2>1, <3>1, <3>3
  <2> QED
    BY <2>2, <2>3
<1>9. CASE u = w /\ CommitUnlock(w)
  <2>1. Backlog' = [Backlog EXCEPT ![w] = Backlog[w] + 1]
    BY <1>4, <1>6, <1>9
  <2> QED
    BY <1>3, <1>6, <1>9, <2>1
<1>10. CASE u = w /\ SyncBump(w)
  <2>1. ~CommitUnlock(w)
    BY <1>10 DEF SyncBump, CommitUnlock
  <2>2. CASE Backlog[w] = 0
    BY <1>3, <1>5, <1>7, <1>10, <2>1, <2>2
  <2>3. CASE Backlog[w] # 0
    <3>1. Backlog' = [Backlog EXCEPT ![w] = 0]
      BY <1>4, <1>7, <1>10
    <3> QED
      BY <1>3, <1>7, <1>10, <2>3, <3>1
  <2> QED
    BY <2>2, <2>3
<1> QED
  BY <1>3, <1>8, <1>9, <1>10

-----------------------------------------------------------------------------
(* The keys in the lists, in a step. *)

LEMMA BlockSteps ==
    ASSUME NEW w \in Threads, Writers \subseteq {w}, RluInv(w), RluInv(w)', LInv(w),
           NEW u \in Threads, StartOp(u) \/ Inside(u) \/ Finish(u)
    PROVE  \/ UNCHANGED mem /\ Alive(w)' = Alive(w)
           \/ /\ u = w /\ InSection(w) /\ OldKept(w)
              /\ \/ ListTryLockCopy(w) /\ Alive(w)' = Alive(w)
                 \/ AddNode(w) \/ RemoveNode(w)
<1>0. Ring /\ free_nodes \in [Threads -> Seq(Objs)]
  BY DEF RluInv, ValueInv, LogInv, LInv, ListTypeOK
<1>1. CASE UNCHANGED blockVars
  BY <1>1 DEF blockVars, Alive, Freed
<1>2. CASE ListTryLockCopy(u)
  <2>1. u = w
    <3>1. is_write_detected[u]
      BY <1>0, <1>2 DEF ListTryLockCopy, TryLockCopy, Ring, DetectedOf
    <3> QED
      BY <3>1 DEF RluInv, Bystanders, Bystander
  <2>2. Thread(w)
    BY <1>2, <2>1 DEF ListTryLockCopy, Thread, Access
  <2>3. PICK o, p : o = LockTarget(w) /\ p = cur_copy[w]
    OBVIOUS
  <2>4. pc[w] = "copy" /\ OldKept(w)
    BY <1>2, <2>1, <2>2, <2>3, CopyNodes
  <2>5. Alive(w)' = Alive(w)
    BY <1>2 DEF ListTryLockCopy, Alive, Freed
  <2> QED
    BY <1>2, <2>1, <2>4, <2>5 DEF InSection
<1>3. CASE AddNode(u)
  <2>1. u = w /\ pc[w] = "section" /\ OldKept(w)
    BY <1>3, AddEffect
  <2> QED
    BY <1>3, <2>1 DEF InSection
<1>4. CASE RemoveNode(u)
  <2>1. u = w /\ pc[w] = "section" /\ OldKept(w)
    BY <1>4, RemoveEffect
  <2> QED
    BY <1>4, <2>1 DEF InSection
<1>5. CASE ListSyncEnd(u)
  <2>1. u = w
    BY <1>5, OnlyWriterSyncs DEF ListSyncEnd, SyncEnd, Syncing, SyncLabels
  <2>2. /\ free' = free \cup Freed(w) /\ free_nodes'[w] = <<>> /\ UNCHANGED mem
    BY <1>0, <1>5, <2>1 DEF ListSyncEnd, Freed
  <2>3. Freed(w)' = {}
    BY <2>2 DEF Freed
  <2>4. Alive(w)' = Alive(w)
    BY <2>2, <2>3 DEF Alive
  <2> QED
    BY <2>2, <2>4
<1>6. \/ UNCHANGED blockVars \/ ListTryLockCopy(u) \/ AddNode(u) \/ RemoveNode(u)
      \/ ListSyncEnd(u)
  BY DEF StartOp, Finish, Inside, Restart, WalkDeref, WalkDerefLocked, WalkSteal, Arrive,
     ListTryLock, ListAbort, ListUnlock, Return, Library, listVars
<1> QED
  BY <1>1, <1>2, <1>3, <1>4, <1>5, <1>6

LEMMA ListMembersKept ==
    ASSUME NEW c, SameList(c), Listed(c)
    PROVE  MembersOn(mem', c) = MembersOn(mem, c)
<1>1. PICK S \in SUBSET (Objs \ free) : IsList(mem, c, S)
  BY DEF Listed
<1>2. \A o \in S : c[o] \in DOMAIN mem'[o] /\ mem'[o][c[o]] = mem[o][c[o]]
  BY <1>1 DEF SameList
<1> QED
  BY <1>1, <1>2, SameMembers

\* What is published, what is committed and what sections read stay the same keys
\* while copies and new blocks are written.
LEMMA MembersKept ==
    ASSUME NEW w \in Threads, Writers \subseteq {w}, RluInv(w), RluInv(w)', LInv(w),
           NEW u \in Threads, StartOp(u) \/ Inside(u) \/ Finish(u)
    PROVE  /\ MembersOn(mem', committed) = MembersOn(mem, committed)
           /\ MembersOn(mem', Store) = MembersOn(mem, Store)
           /\ \A t \in Threads : InSection(t) =>
                 MembersOn(mem', Walked(w, t)) = MembersOn(mem, Walked(w, t))
<1>1. CASE UNCHANGED mem
  BY <1>1
<1>2. CASE InSection(w) /\ OldKept(w)
  <2>1. Facts(w) /\ Lists(w)
    BY FactsNow DEF LInv
  <2>2. /\ SameList(committed) /\ SameList(Store)
        /\ \A t \in Threads : InSection(t) => SameList(Walked(w, t))
    BY <1>2, <2>1, OldContentsSame
  <2>3. ASSUME NEW t \in Threads, InSection(t)
        PROVE  MembersOn(mem', Walked(w, t)) = MembersOn(mem, Walked(w, t))
    <3>1. Listed(Walked(w, t))
      BY <2>3 DEF LInv, Position, OnList, Listed
    <3> QED
      BY <2>2, <2>3, <3>1, ListMembersKept
  <2> QED
    BY <2>1, <2>2, <2>3, ListMembersKept DEF Lists
<1> QED
  BY <1>1, <1>2, BlockSteps

\* What a call of test() commits, as keys.
Update(w) ==
    LET key    == call[w].key
        before == MembersOn(mem, committed)
        after  == MembersOn(mem, Future(w))
    IN  \/ call[w].op = "add" /\ key \notin before /\ after = before \cup {key}
        \/ call[w].op = "remove" /\ key \in before /\ after = before \ {key}

LEMMA MembersAdded ==
    ASSUME NEW w \in Threads, Writers \subseteq {w}, RluInv(w), LInv(w), AddNode(w)
    PROVE  /\ call[w].key \notin MembersOn(mem, committed)
           /\ MembersOn(mem', Future(w)) = MembersOn(mem, committed) \cup {call[w].key}
<1>1. /\ pc[w] = "section" /\ step[w] = "assign" /\ call[w].op = "add"
      /\ IsList(mem', Future(w), Alive(w)')
      /\ \A b \in Alive(w) : Key(mem', Future(w), b) = Key(mem, committed, b)
  BY AddEffect
<1>2. PICK o \in Objs \ Alive(w) : /\ Alive(w)' = Alive(w) \cup {o}
                                   /\ Key(mem', Future(w), o) = call[w].key
  BY AddEffect
<1>3. PICK c, S, prev, next : /\ c = Future(w) /\ S = Alive(w)
                              /\ prev = Actual(p_prev[w]) /\ next = Actual(p_next[w])
  OBVIOUS
<1>4. /\ IsList(mem, c, S) /\ prev \in S \ {p_max_node} /\ next = Link(mem, c, prev)
      /\ Key(mem, c, prev) < call[w].key /\ call[w].key \in CallKeys
      /\ call[w].key < Key(mem, c, next) /\ next \in S
      /\ IsList(mem, committed, S) /\ \A b \in S : Key(mem, c, b) = Key(mem, committed, b)
  BY <1>1, <1>3, AssignFacts
<1>5. MembersOn(mem, committed) = KeysIn(mem, committed, S) /\ MembersOn(mem, c) = KeysIn(mem, c, S)
  BY <1>4, MembersOnList
<1>6. KeysIn(mem, c, S) = KeysIn(mem, committed, S)
  BY <1>4 DEF KeysIn, Inner
<1>7. call[w].key \notin MembersOn(mem, c)
  <2>1. call[w].key \in Keys /\ call[w].key \in Int /\ Key(mem, c, next) \in Int
    BY <1>4, KeysOrdered, ListAssumption
  <2> QED
    BY <1>4, <2>1, KeyFound
<1>8. PICK m2, S2 : m2 = mem' /\ S2 = Alive(w)'
  OBVIOUS
<1>9. MembersOn(m2, c) = KeysIn(m2, c, S2)
  BY <1>1, <1>3, <1>8, MembersOnList
<1>10. Inner(S2) = Inner(S) \cup {o}
  <2>1. p_min_node \in S /\ p_max_node \in S
    BY <1>4 DEF IsList
  <2> QED
    BY <1>2, <1>3, <1>8, <2>1 DEF Inner
<1>11. KeysIn(m2, c, S2) = KeysIn(mem, committed, S) \cup {call[w].key}
  <2>1. \A b \in Inner(S) : Key(m2, c, b) = Key(mem, committed, b)
    BY <1>1, <1>3, <1>8 DEF Inner
  <2>2. Key(m2, c, o) = call[w].key
    BY <1>2, <1>3, <1>8
  <2> QED
    BY <1>10, <2>1, <2>2 DEF KeysIn
<1> QED
  BY <1>3, <1>5, <1>6, <1>7, <1>8, <1>9, <1>11

LEMMA MembersRemoved ==
    ASSUME NEW w \in Threads, Writers \subseteq {w}, RluInv(w), LInv(w), RemoveNode(w)
    PROVE  /\ call[w].key \in MembersOn(mem, committed)
           /\ MembersOn(mem', Future(w)) = MembersOn(mem, committed) \ {call[w].key}
<1>1. /\ pc[w] = "section" /\ step[w] = "assign" /\ call[w].op = "remove"
      /\ IsList(mem', Future(w), Alive(w)')
      /\ \A b \in Alive(w) : Key(mem', Future(w), b) = Key(mem, committed, b)
  BY RemoveEffect
<1>2. PICK o \in Alive(w) : /\ Alive(w)' = Alive(w) \ {o}
                            /\ Key(mem, committed, o) = call[w].key
  BY RemoveEffect
<1>3. PICK c, S, prev, next : /\ c = Future(w) /\ S = Alive(w)
                              /\ prev = Actual(p_prev[w]) /\ next = Actual(p_next[w])
  OBVIOUS
<1>4. call[w].key \in CallKeys /\ IsList(mem, committed, S)
  BY <1>1, <1>3, AssignFacts
<1>5. call[w].key \in Int /\ LIST_VAL_MIN < call[w].key /\ call[w].key < LIST_VAL_MAX
      /\ LIST_VAL_MIN \in Int /\ LIST_VAL_MAX \in Int
  BY <1>4, ListAssumption
<1>6. /\ Key(mem, committed, p_min_node) = LIST_VAL_MIN
      /\ Key(mem, committed, p_max_node) = LIST_VAL_MAX
  BY <1>4 DEF IsList
<1>7. o \in Inner(S)
  BY <1>2, <1>3, <1>5, <1>6 DEF Inner
<1>8. MembersOn(mem, committed) = KeysIn(mem, committed, S)
  BY <1>4, MembersOnList
<1>9. PICK m2, S2 : m2 = mem' /\ S2 = Alive(w)'
  OBVIOUS
<1>10. MembersOn(m2, c) = KeysIn(m2, c, S2)
  BY <1>1, <1>3, <1>9, MembersOnList
<1>11. Inner(S2) = Inner(S) \ {o}
  BY <1>2, <1>3, <1>9 DEF Inner
<1>12. KeysIn(m2, c, S2) = KeysIn(mem, committed, S) \ {call[w].key}
  <2>1. \A b \in Inner(S) : Key(m2, c, b) = Key(mem, committed, b)
    BY <1>1, <1>3, <1>9 DEF Inner
  <2>2. \A b \in Inner(S) : Key(mem, committed, b) = Key(mem, committed, o) => b = o
    BY <1>4, <1>7, NothingBetween DEF Inner, Between
  <2> QED
    BY <1>2, <1>7, <1>11, <2>1, <2>2 DEF KeysIn
<1> QED
  BY <1>2, <1>3, <1>7, <1>8, <1>9, <1>10, <1>12 DEF KeysIn

\* The history variables of the list, when only w updates it.
LEMMA ViewFactsNow ==
    ASSUME NEW w \in Threads, Writers \subseteq {w}
    PROVE  RluInv(w) /\ LInv(w) =>
               /\ Members(PublishedContents) = MembersOn(mem, Store)
               /\ \A t \in Threads : Members(OwnContents(t)) = MembersOn(mem, Seeing(w, t))
<1> SUFFICES ASSUME RluInv(w), LInv(w)
             PROVE  /\ Members(PublishedContents) = MembersOn(mem, Store)
                    /\ \A t \in Threads : Members(OwnContents(t)) = MembersOn(mem, Seeing(w, t))
  OBVIOUS
<1>1. Listed(committed) /\ Listed(Store) /\ QuietFacts(w)
  BY FactsNow DEF LInv, Lists, Facts
<1>2. ASSUME NEW c, Listed(c) PROVE Members(c) = MembersOn(mem, c)
  BY <1>2, MembersAreOn DEF Listed
<1>3. PublishedContents = Store
  BY DEF PublishedContents, Store
<1>4. \A t \in Threads : OwnContents(t) = Seeing(w, t)
  BY <1>1 DEF QuietFacts, Seeing
<1>5. \A t \in Threads : Listed(Seeing(w, t))
  BY <1>1 DEF Seeing
<1> QED
  BY <1>1, <1>2, <1>3, <1>4, <1>5

-----------------------------------------------------------------------------
(* The calls. *)

\* The thread is in rlu_thread_finish, or beyond it.
Stopping(t) ==
    pc[t] \in {"finish2", "done"} \/ (Syncing(t) /\ ret[t] \in {"finish2", "done"})

LEMMA StoppingSteps ==
    ASSUME TypeInv, NEW t \in Threads,
           Begin(t) \/ Access(t) \/ End(t) \/ Sync(t) \/ ThreadFinish2(t), Stopping(t)'
    PROVE  Stopping(t)
<1> USE CounterTypes DEF Stopping, Syncing, SyncLabels, Goto
<1>1. CASE Begin(t)
  BY <1>1 DEF Begin, ReaderLock, Register, ReadVersion, ReadCommitVersion, Checkpoint, SyncCall
<1>2. CASE Access(t)
  <2>1. ~(Steal(t) \/ TryLockCas(t) \/ TryLockCopy(t) \/ SendSyncRequest(t))
    BY DEF Steal, TryLockCas, TryLockCopy, SendSyncRequest
  <2>2. ASSUME NEW o \in Objs PROVE ~(Deref(t, o) \/ DerefLocked(t, o))
    BY <2>2 DEF Deref, DerefLocked
  <2>3. ASSUME NEW o \in Objs PROVE ~(TryLock(t, o) \/ TryLockOwn(t, o) \/ TryLockFail(t, o))
    BY <2>3 DEF TryLock, TryLockOwn, TryLockFail, MayLock
  <2>4. ASSUME NEW l \in WriterLocks PROVE ~TryWriterLock(t, l)
    BY <2>4 DEF TryWriterLock
  <2> QED
    BY <1>2, <2>1, <2>2, <2>3, <2>4 DEF Access
<1>3. CASE End(t)
  <2>1. CASE ReaderUnlock(t) \/ Abort(t) \/ UnlockObjs(t) \/ ReleaseWriterLock(t)
    BY <2>1 DEF ReaderUnlock, Abort, UnlockObjs, ReleaseWriterLock, Releasing
  <2>2. CASE CommitUnlock(t) \/ ReleaseEnd(t)
    BY <2>2 DEF CommitUnlock, ReleaseEnd, Releasing, Checkpoint, SyncCall
  <2> QED
    BY <1>3, <2>1, <2>2 DEF End
<1>4. CASE Sync(t)
  BY <1>4 DEF Sync, SyncLoad, SyncStore, SyncBump, Scan, ScanEnd, Wait, ResetWriteSets,
     Writeback, Unlock, SyncUnstamp, SyncCommit, SyncEnd
<1>5. CASE ThreadFinish2(t)
  BY <1>5 DEF ThreadFinish2
<1> QED
  BY <1>1, <1>2, <1>3, <1>4, <1>5

\* What the variables of the calls are, besides ListTypeOK.
CallTypes ==
    /\ DOMAIN call = Threads /\ result \in [Threads -> BOOLEAN] /\ diff \in [Threads -> Int]
    /\ seen = [t \in Threads |-> seen[t]] /\ step \in [Threads -> Steps]

CallSame(t) ==
    call'[t] = call[t] /\ step'[t] = step[t] /\ result'[t] = result[t] /\ diff'[t] = diff[t]

\* The steps of a call that change its variables.
CallSteps(u) == StartOp(u) \/ WalkDeref(u) \/ WalkSteal(u) \/ AddNode(u) \/ RemoveNode(u) \/ Return(u)

\* The other steps of a thread: its call stays the same.
Goes(u) ==
    /\ UNCHANGED <<call, result, diff>>
    /\ \/ step' = step /\ ~(pc'[u] = "section" /\ step[u] = "unlock")
       \/ ListUnlock(u) /\ step' = [step EXCEPT ![u] = "return"] /\ step[u] = "unlock"
       \/ pc[u] = "idle" /\ step[u] = "restart" /\ step' = [step EXCEPT ![u] = "head"]
       \/ /\ InSection(u) /\ step[u] \in LockSteps
          /\ \E l \in {"restart", "lock_next", "assign"} : step' = [step EXCEPT ![u] = l]

LEMMA OthersCall ==
    ASSUME CallTypes, NEW u \in Threads, StartOp(u) \/ Inside(u) \/ Finish(u),
           NEW t \in Threads \ {u}
    PROVE  CallSame(t)
<1> USE DEF CallTypes, CallSame, GotoStep
<1>1. CASE StartOp(u) \/ Return(u)
  BY <1>1 DEF StartOp, Return
<1>2. CASE Restart(u) \/ ListAbort(u) \/ ListUnlock(u)
  BY <1>2 DEF Restart, ListAbort, ListUnlock, benchVars
<1>3. CASE \E p : Arrive(u, p)
  BY <1>3 DEF Arrive, benchVars
<1>4. CASE ListTryLockCopy(u)
  BY <1>4 DEF ListTryLockCopy, benchVars
<1>5. CASE AddNode(u) \/ RemoveNode(u)
  BY <1>5 DEF AddNode, RemoveNode, benchVars
<1>6. CASE UNCHANGED listVars
  BY <1>6 DEF listVars, benchVars
<1>7. CASE ListSyncEnd(u)
  BY <1>7 DEF ListSyncEnd, benchVars
<1> QED
  BY <1>1, <1>2, <1>3, <1>4, <1>5, <1>6, <1>7
  DEF Inside, WalkDeref, WalkDerefLocked, WalkSteal, ListTryLock, Library, Finish

LEMMA GoesSteps ==
    ASSUME NEW w \in Threads, Writers \subseteq {w}, RluInv(w), LInv(w),
           NEW u \in Threads, StartOp(u) \/ Inside(u) \/ Finish(u)
    PROVE  CallSteps(u) \/ Goes(u)
<1>0. TypeInv /\ Stepping(w, u)
  BY DEF RluInv, ValueInv, LogInv, LInv
<1>1. CASE CallSteps(u)
  BY <1>1
<1>2. CASE Restart(u) \/ ListUnlock(u)
  BY <1>2 DEF Goes, Restart, ListUnlock, GotoStep, ReaderLock, benchVars
<1>3. CASE ListAbort(u)
  <2>1. pc[u] = "failed"
    BY <1>3 DEF ListAbort, Abort
  <2> QED
    BY <1>0, <1>3, <2>1 DEF Goes, ListAbort, GotoStep, Stepping, InSection, benchVars
<1>4. CASE ListTryLockCopy(u)
  <2>1. pc[u] = "copy"
    BY <1>4 DEF ListTryLockCopy, TryLockCopy
  <2> QED
    BY <1>0, <1>4, <2>1 DEF Goes, ListTryLockCopy, GotoStep, Stepping, InSection, benchVars
<1>5. CASE WalkDerefLocked(u) \/ ListTryLock(u)
  <2>1. step[u] # "unlock" /\ UNCHANGED listVars
    BY <1>5 DEF WalkDerefLocked, Walking, ListTryLock, LockStep
  <2> QED
    BY <2>1 DEF Goes, listVars, benchVars
<1>6. CASE ListSyncEnd(u)
  <2>1. pc'[u] # "section"
    BY <1>0, <1>6, CounterTypes DEF ListSyncEnd, SyncEnd, Goto, Returns
  <2> QED
    BY <1>6, <2>1 DEF Goes, ListSyncEnd, benchVars
<1>7. CASE Library(u)
  <2>1. ~(pc'[u] = "section" /\ step[u] = "unlock")
    <3>1. CASE ReadVersion(u)
      BY <1>0, <3>1, CounterTypes DEF ReadVersion, Goto
    <3>2. CASE ReadCommitVersion(u) \/ TryLockCas(u) \/ SendSyncRequest(u)
      BY <1>0, <3>2 DEF ReadCommitVersion, TryLockCas, SendSyncRequest, Stepping, LockSteps
    <3>3. CASE ~(ReadVersion(u) \/ ReadCommitVersion(u) \/ TryLockCas(u) \/ SendSyncRequest(u))
      BY <1>0, <1>7, <3>3, LibraryOut DEF InSection
    <3> QED
      BY <3>1, <3>2, <3>3
  <2> QED
    BY <1>7, <2>1 DEF Goes, Library, listVars, benchVars
<1>8. CASE Finish(u)
  <2>1. step[u] # "unlock"
    BY <1>8 DEF Finish
  <2> QED
    BY <1>8, <2>1 DEF Goes, Finish, listVars, benchVars
<1> QED
  BY <1>1, <1>2, <1>3, <1>4, <1>5, <1>6, <1>7, <1>8 DEF CallSteps, Inside

\* A call is under way from its first section to its return.
Calling(t) == call[t] = NULL <=> step[t] = "out"

\* A thread that finishes is in no call.
Ended(t) == Stopping(t) => step[t] = "out"

LEMMA StartedCall ==
    ASSUME NEW t \in Threads, CallTypes, StartOp(t)
    PROVE  /\ \E op \in {"contains", "add", "remove"}, key \in Keys :
                 call' = [call EXCEPT ![t] = [op |-> op, key |-> key]]
           /\ call'[t] # NULL /\ step'[t] = "head" /\ pc[t] = "idle" /\ step[t] = "out"
           /\ UNCHANGED <<result, diff>>
<1>1. PICK op \in Ops[t], key \in CallKeys : call' = [call EXCEPT ![t] = [op |-> op, key |-> key]]
  BY DEF StartOp
<1>2. op \in {"contains", "add", "remove"} /\ key \in Keys
  BY ListAssumption
<1>3. call'[t] # NULL
  BY <1>1, <1>2, ListAssumption DEF CallTypes
<1> QED
  BY <1>1, <1>2, <1>3 DEF StartOp, GotoStep, CallTypes, ReaderLock

LEMMA CallingStep ==
    ASSUME NEW w \in Threads, Writers \subseteq {w}, RluInv(w), LInv(w), CallTypes,
           NEW u \in Threads, StartOp(u) \/ Inside(u) \/ Finish(u), NEW t \in Threads, Calling(t)
    PROVE  Calling(t)'
<1> USE DEF Calling, CallTypes
<1>1. CASE t # u
  <2>1. CallSame(t)
    BY <1>1, OthersCall
  <2> QED
    BY <2>1 DEF CallSame
<1>2. CASE t = u /\ StartOp(t)
  BY <1>2, StartedCall
<1>3. CASE t = u /\ Return(t)
  BY <1>3 DEF Return, GotoStep
<1>4. CASE t = u /\ (AddNode(t) \/ RemoveNode(t))
  BY <1>4 DEF AddNode, RemoveNode, GotoStep
<1>5. CASE t = u /\ (WalkDeref(t) \/ WalkSteal(t))
  <2>1. PICK p : Arrive(t, p)
    BY <1>5 DEF WalkDeref, WalkSteal
  <2> QED
    BY <2>1 DEF Arrive, GotoStep, AfterWalk
<1>6. CASE t = u /\ Goes(t)
  BY <1>6 DEF Goes, LockSteps
<1> QED
  BY <1>1, <1>2, <1>3, <1>4, <1>5, <1>6, GoesSteps DEF CallSteps

LEMMA EndedStep ==
    ASSUME NEW w \in Threads, Writers \subseteq {w}, RluInv(w), LInv(w), CallTypes,
           NEW u \in Threads, StartOp(u) \/ Inside(u) \/ Finish(u), NEW t \in Threads, Ended(t)
    PROVE  Ended(t)'
<1>0. TypeInv /\ Stepping(w, t)
  BY DEF RluInv, ValueInv, LogInv, LInv
<1>1. CASE t # u
  <2>1. CallSame(t)
    BY <1>1, OthersCall
  <2>2. Same(t)
    BY <1>0, <1>1, RluOfList, Others DEF Same
  <2> QED
    BY <2>1, <2>2 DEF CallSame, Same, Ended, Stopping, Syncing
<1>2. CASE t = u /\ Return(t)
  BY <1>2 DEF Return, GotoStep, Ended, CallTypes
<1>3. CASE t = u /\ Finish(t)
  BY <1>3 DEF Finish, Ended, listVars
<1>4. CASE t = u /\ (AddNode(t) \/ RemoveNode(t))
  BY <1>4, CounterTypes DEF AddNode, RemoveNode, UnchangedRlu, Ended, Stopping, Syncing, SyncLabels
<1>5. ASSUME t = u, ~Return(t), ~Finish(t), ~AddNode(t), ~RemoveNode(t), Stopping(t)'
      PROVE  step'[t] = "out"
  <2>1. Begin(t) \/ Access(t) \/ End(t) \/ Sync(t) \/ ThreadFinish2(t)
    BY <1>5, RluKinds
  <2>2. Stopping(t)
    BY <1>0, <1>5, <2>1, StoppingSteps
  <2>3. step[t] = "out" /\ ~InSection(t) /\ pc[t] # "idle"
    BY <2>2 DEF Ended, Stopping, InSection, Syncing, SyncLabels
  <2>4. ~CallSteps(t)
    <3>1. ~StartOp(t)
      BY <2>3 DEF StartOp, ReaderLock
    <3>2. ~WalkDeref(t) /\ ~WalkSteal(t)
      BY <2>3 DEF WalkDeref, Walking, WalkSteal, Steal, InSection
    <3> QED
      BY <1>5, <3>1, <3>2 DEF CallSteps
  <2>5. Goes(t)
    BY <1>5, <2>4, GoesSteps
  <2> QED
    BY <2>3, <2>5 DEF Goes
<1> QED
  BY <1>1, <1>2, <1>3, <1>4, <1>5 DEF Ended

-----------------------------------------------------------------------------
(* What a call has seen, and what it answers. *)

\* What the call of t is about is in the list with the contents c.
Has(t, c) == call[t].key \in MembersOn(mem, c)

\* The call of t changes the list, if its section gets that far.
Changing(t) == call[t].op # "contains" /\ result[t]

Closing(t) == step[t] \in {"unlock", "return"}

LEMMA WalkFinds ==
    ASSUME NEW w \in Threads, NEW t \in Threads, InSection(t), Stepping(w, t), Position(w, t),
           step[t] = "walk", NEW v, v = Key(mem, Walked(w, t), Target(t, Walked(w, t))),
           v >= call[t].key
    PROVE  v \in Int /\ call[t].key \in Int /\ (Has(t, Walked(w, t)) <=> v = call[t].key)
<1>1. PICK c, prev, key : c = Walked(w, t) /\ prev = Actual(p_prev[t]) /\ key = call[t].key
  OBVIOUS
<1>2. Walk(t, c) /\ OnList(t, c) /\ call[t].key \in CallKeys
  BY <1>1, SteppingFacts DEF Position
<1>3. PICK S \in SUBSET (Objs \ free) : IsList(mem, c, S) /\ \A r \in refs[t] : r[1] \in S
  BY <1>2 DEF OnList
<1>4. prev \in S /\ Key(mem, c, prev) < key /\ Target(t, c) = Link(mem, c, prev)
  BY <1>1, <1>2, <1>3, TargetOnList DEF Walk, Target, WalkSteps
<1>5. key \in Keys /\ key \in Int /\ key < LIST_VAL_MAX /\ LIST_VAL_MAX \in Int
  BY <1>1, <1>2, ListAssumption
<1>6. prev # p_max_node
  BY <1>3, <1>4, <1>5 DEF IsList
<1>7. v \in Int
  <2>1. Target(t, c) \in S
    BY <1>3, <1>4, <1>6 DEF IsList, LinksStay
  <2> QED
    BY <1>1, <1>3, <2>1, KeysOrdered
<1>8. key <= Key(mem, c, Link(mem, c, prev))
  BY <1>1, <1>4, <1>5, <1>7
<1>9. key \in MembersOn(mem, c) <=> Key(mem, c, Link(mem, c, prev)) = key
  BY <1>3, <1>4, <1>5, <1>6, <1>8, KeyFound
<1> QED
  BY <1>1, <1>4, <1>5, <1>7, <1>9 DEF Has

\* The walk goes on, finds something to do, or ends the section with the answer.
LEMMA WalkEnds ==
    ASSUME NEW w \in Threads, Writers \subseteq {w}, RluInv(w), RluInv(w)', LInv(w), CallTypes,
           NEW u \in Threads, WalkDeref(u) \/ WalkSteal(u)
    PROVE  /\ InSection(u) /\ step[u] \in WalkSteps /\ pc'[u] = "section"
           /\ UNCHANGED <<call, diff, is_write_detected>> /\ ~is_write_detected[u]
           /\ \/ step'[u] = "walk"
              \/ step'[u] = "lock_prev" /\ step[u] = "succ" /\ UNCHANGED result
              \/ step'[u] \in {"succ", "lock_prev"} /\ Changing(u)'
              \/ /\ step'[u] = "unlock" /\ step[u] = "walk" /\ ~Changing(u)'
                 /\ call[u].op \in {"contains", "add", "remove"}
                 /\ call[u].op = "contains" => result'[u] = Has(u, Walked(w, u))
                 /\ call[u].op = "add" => Has(u, Walked(w, u))
                 /\ call[u].op = "remove" => ~Has(u, Walked(w, u))
<1>0. Thread(u) /\ Stepping(w, u) /\ Position(w, u) /\ Own(w) /\ CallTypes
  BY RluOfList DEF LInv, AddNode, RemoveNode, Return, Inside, WalkDeref, WalkSteal, Walking, Deref,
     Steal, Thread, Access
<1>1. /\ InSection(u) /\ step[u] \in WalkSteps /\ pc'[u] = "section" /\ UNCHANGED is_write_detected
  BY <1>0, WalkArrives
<1>2. PICK p, v : /\ Arrive(u, p) /\ v = Node(p).val
                  /\ v = Key(mem, Walked(w, u), Target(u, Walked(w, u)))
  BY <1>0, WalkArrives
<1>3. UNCHANGED <<call, diff>>
  BY <1>2 DEF Arrive, benchVars
<1>4. ~is_write_detected[u]
  <2>1. CASE u = w
    BY <1>0, <1>1, <2>1 DEF Own
  <2>2. CASE u # w
    BY <2>2 DEF RluInv, Bystanders, Bystander
  <2> QED
    BY <2>1, <2>2
<1>5. call[u].op \in {"contains", "add", "remove"}
  BY <1>0, <1>1, SteppingFacts, ListAssumption DEF WalkSteps
<1>6. CASE step[u] \in {"head", "succ"}
  BY <1>0, <1>1, <1>2, <1>3, <1>4, <1>6 DEF Arrive, GotoStep, CallTypes
<1>7. CASE step[u] = "walk" /\ ~(v >= call[u].key)
  BY <1>0, <1>1, <1>2, <1>3, <1>4, <1>7 DEF Arrive, GotoStep
<1>8. CASE step[u] = "walk" /\ v >= call[u].key
  <2>1. v \in Int /\ call[u].key \in Int /\ (Has(u, Walked(w, u)) <=> v = call[u].key)
    BY <1>0, <1>1, <1>2, <1>8, WalkFinds
  <2>2. ~(v < call[u].key)
    BY <1>8, <2>1
  <2>3. /\ result' = [result EXCEPT ![u] = (v = call[u].key) # (call[u].op = "add")]
        /\ step' = [step EXCEPT ![u] = AfterWalk(u, v)]
    BY <1>2, <1>8, <2>2 DEF Arrive, GotoStep
  <2>4. result'[u] = ((v = call[u].key) # (call[u].op = "add")) /\ step'[u] = AfterWalk(u, v)
    BY <1>0, <2>3 DEF CallTypes
  <2>5. CASE call[u].op = "contains"
    <3>1. result'[u] = (v = call[u].key) /\ step'[u] = "unlock"
      <4>1. (call[u].op = "add") = FALSE
        BY <2>5
      <4>2. ((v = call[u].key) # FALSE) = (v = call[u].key)
        OBVIOUS
      <4> QED
        BY <2>4, <2>5, <4>1, <4>2 DEF AfterWalk
    <3> QED
      BY <1>1, <1>3, <1>4, <1>8, <2>1, <2>5, <3>1 DEF Changing, Has
  <2>6. CASE call[u].op = "add"
    <3>1. (result'[u] <=> v # call[u].key) /\ step'[u] = (IF v # call[u].key THEN "lock_prev" ELSE "unlock")
      BY <2>4, <2>6 DEF AfterWalk
    <3> QED
      BY <1>1, <1>3, <1>4, <1>8, <2>1, <2>6, <3>1 DEF Changing
  <2>7. CASE call[u].op = "remove"
    <3>1. (result'[u] <=> v = call[u].key) /\ step'[u] = (IF v = call[u].key THEN "succ" ELSE "unlock")
      BY <2>4, <2>7 DEF AfterWalk
    <3> QED
      BY <1>1, <1>3, <1>4, <1>8, <2>1, <2>7, <3>1 DEF Changing
  <2> QED
    BY <1>5, <2>5, <2>6, <2>7
<1> QED
  BY <1>1, <1>6, <1>7, <1>8 DEF WalkSteps

\* A call that changes nothing can answer so.
Witnessed(t) ==
    \/ call[t].op = "contains" /\ result[t] \in seen[t]
    \/ call[t].op = "add" /\ TRUE \in seen[t]
    \/ call[t].op = "remove" /\ FALSE \in seen[t]

Answered(w, t) ==
    /\ step[t] \in {"succ", "assign"} \cup LockSteps => Changing(t)
    /\ pc[t] = "section" /\ step[t] = "unlock" => (is_write_detected[t] <=> Changing(t))
    /\ Closing(t) /\ Changing(t) => t = w
    /\ Closing(t) /\ ~Changing(t) => Witnessed(t)

\* What a section walks has been seen since the call.
SeenBy(w, t) ==
    /\ call[t] = NULL => seen[t] = {}
    /\ call[t] # NULL => (call[t].key \in view[t]) \in seen[t]
    /\ InSection(t) => Has(t, Walked(w, t)) \in seen[t]

LEMMA SeenGrows ==
    ASSUME Notice, NEW t \in Threads, call'[t] = call[t], call[t] # NULL
    PROVE  seen[t] \subseteq seen'[t]
BY DEF Notice

LEMMA AnsweredStep ==
    ASSUME NEW w \in Threads, Writers \subseteq {w}, RluInv(w), RluInv(w)', LInv(w), CallTypes,
           \A t \in Threads : Calling(t) /\ SeenBy(w, t),
           NEW u \in Threads, StartOp(u) \/ Inside(u) \/ Finish(u), Notice,
           NEW t \in Threads, Answered(w, t)
    PROVE  Answered(w, t)'
<1>0. /\ TypeInv /\ Stepping(w, t) /\ CallTypes /\ Calling(t) /\ SeenBy(w, t)
      /\ LockSteps = {"lock_prev", "lock_next"}
  BY DEF RluInv, ValueInv, LogInv, LInv, LockSteps
<1>1. CASE t # u
  <2>1. CallSame(t)
    BY <1>1, OthersCall
  <2>2. pc'[t] = pc[t] /\ is_write_detected'[t] = is_write_detected[t]
    BY <1>0, <1>1, RluOfList, Others DEF Same
  <2>3. Closing(t) => seen[t] \subseteq seen'[t]
    BY <1>0, <2>1, SeenGrows DEF CallSame, Closing, Calling
  <2> QED
    BY <2>1, <2>2, <2>3 DEF CallSame, Answered, Changing, Closing, Witnessed
<1>2. CASE t = u /\ StartOp(t)
  <2>1. step'[t] = "head"
    BY <1>0, <1>2, StartedCall
  <2> QED
    BY <1>0, <2>1 DEF Answered, Closing
<1>3. CASE t = u /\ Return(t)
  <2>1. step'[t] = "out"
    BY <1>0, <1>3 DEF Return, GotoStep, CallTypes
  <2> QED
    BY <1>0, <2>1 DEF Answered, Closing
<1>4. CASE t = u /\ (AddNode(t) \/ RemoveNode(t))
  <2>1. /\ t = w /\ step[t] = "assign" /\ step'[t] = "unlock" /\ pc[t] = "section"
        /\ UNCHANGED <<call, result, is_write_detected>>
    BY <1>0, <1>4, AddEffect, RemoveEffect DEF CallTypes
  <2>2. is_write_detected[t]
    BY <2>1 DEF LInv, Own, InSection
  <2> QED
    BY <1>0, <2>1, <2>2 DEF Answered, Closing, Changing
<1>5. CASE t = u /\ (WalkDeref(t) \/ WalkSteal(t))
  <2>1. /\ InSection(t) /\ step[t] \in WalkSteps /\ pc'[t] = "section"
        /\ UNCHANGED <<call, diff, is_write_detected>> /\ ~is_write_detected[t]
        /\ \/ step'[t] = "walk"
           \/ step'[t] = "lock_prev" /\ step[t] = "succ" /\ UNCHANGED result
           \/ step'[t] \in {"succ", "lock_prev"} /\ Changing(t)'
           \/ /\ step'[t] = "unlock" /\ step[t] = "walk" /\ ~Changing(t)'
              /\ call[t].op \in {"contains", "add", "remove"}
              /\ call[t].op = "contains" => result'[t] = Has(t, Walked(w, t))
              /\ call[t].op = "add" => Has(t, Walked(w, t))
              /\ call[t].op = "remove" => ~Has(t, Walked(w, t))
    BY <1>5, WalkEnds
  <2>2. CASE step'[t] # "unlock"
    BY <1>0, <2>1, <2>2 DEF Answered, Closing, Changing
  <2>3. CASE step'[t] = "unlock"
    <3>1. Has(t, Walked(w, t)) \in seen'[t]
      BY <1>0, <2>1, SeenGrows DEF SeenBy, Calling, WalkSteps
    <3>2. ~is_write_detected'[t] /\ ~Changing(t)'
      BY <2>1, <2>3
    <3>3. call[t].op = "contains" => Witnessed(t)'
      BY <2>1, <2>3, <3>1 DEF Witnessed
    <3>4. call[t].op = "add" => Witnessed(t)'
      <4>1. ASSUME Has(t, Walked(w, t)) PROVE TRUE \in seen'[t]
        <5>1. Has(t, Walked(w, t)) = TRUE
          BY <4>1 DEF Has
        <5> QED
          BY <3>1, <5>1
      <4> QED
        BY <2>1, <2>3, <4>1 DEF Witnessed
    <3>5. call[t].op = "remove" => Witnessed(t)'
      <4>1. ASSUME ~Has(t, Walked(w, t)) PROVE FALSE \in seen'[t]
        <5>1. Has(t, Walked(w, t)) = FALSE
          BY <4>1 DEF Has
        <5> QED
          BY <3>1, <5>1
      <4> QED
        BY <2>1, <2>3, <4>1 DEF Witnessed
    <3>6. Witnessed(t)'
      BY <2>1, <2>3, <3>3, <3>4, <3>5
    <3> QED
      BY <1>0, <2>3, <3>2, <3>6 DEF Answered
  <2> QED
    BY <2>2, <2>3
<1>6. CASE t = u /\ Goes(t)
  <2>1. Closing(t) => seen[t] \subseteq seen'[t]
    BY <1>0, <1>6, SeenGrows DEF Goes, Closing, Calling
  <2>2. UNCHANGED <<call, result, diff>>
    BY <1>6 DEF Goes
  <2>3. /\ Changing(t)' <=> Changing(t)
        /\ Closing(t) /\ Witnessed(t) => Witnessed(t)'
    BY <2>1, <2>2 DEF Changing, Witnessed
  <2>4. CASE step' = step /\ ~(pc'[t] = "section" /\ step[t] = "unlock")
    BY <1>0, <2>3, <2>4 DEF Answered, Closing
  <2>5. CASE step' = [step EXCEPT ![t] = "return"] /\ step[t] = "unlock"
    <3>1. step'[t] = "return"
      BY <1>0, <2>5 DEF CallTypes
    <3> QED
      BY <1>0, <2>3, <2>5, <3>1 DEF Answered, Closing
  <2>6. CASE step' = [step EXCEPT ![t] = "head"]
    <3>1. step'[t] = "head"
      BY <1>0, <2>6 DEF CallTypes
    <3> QED
      BY <1>0, <3>1 DEF Answered, Closing
  <2>7. ASSUME step[t] \in LockSteps, NEW l \in {"restart", "lock_next", "assign"},
               step' = [step EXCEPT ![t] = l]
        PROVE  Answered(w, t)'
    <3>1. step'[t] = l
      BY <1>0, <2>7 DEF CallTypes
    <3> QED
      BY <1>0, <2>3, <2>7, <3>1 DEF Answered, Closing
  <2> QED
    BY <1>6, <2>4, <2>5, <2>6, <2>7 DEF Goes
<1> QED
  BY <1>1, <1>2, <1>3, <1>4, <1>5, <1>6, GoesSteps DEF CallSteps

\* What the history variables are, in the terms of the proofs.
Observed(w) ==
    /\ set = MembersOn(mem, Store)
    /\ view = [t \in Threads |-> MembersOn(mem, Seeing(w, t))]

LEMMA ViewFactsNext ==
    ASSUME NEW w \in Threads, Writers \subseteq {w}
    PROVE  RluInv(w)' /\ LInv(w)' =>
               (/\ Members(PublishedContents) = MembersOn(mem, Store)
                /\ \A t \in Threads : Members(OwnContents(t)) = MembersOn(mem, Seeing(w, t)))'
<1>1. RluInv(w) /\ LInv(w) =>
          /\ Members(PublishedContents) = MembersOn(mem, Store)
          /\ \A t \in Threads : Members(OwnContents(t)) = MembersOn(mem, Seeing(w, t))
  BY ViewFactsNow
<1> QED
  BY <1>1, PTL

LEMMA ObservedStep ==
    ASSUME NEW w \in Threads, Writers \subseteq {w}, RluInv(w)', LInv(w)', Notice
    PROVE  Observed(w)'
BY ViewFactsNext DEF Notice, Observed

LEMMA SeenByStep ==
    ASSUME NEW w \in Threads, Writers \subseteq {w}, RluInv(w), RluInv(w)', LInv(w), CallTypes,
           \A t \in Threads : Calling(t) /\ SeenBy(w, t), Observed(w),
           NEW u \in Threads, StartOp(u) \/ Inside(u) \/ Finish(u), Notice,
           NEW t \in Threads
    PROVE  SeenBy(w, t)'
<1>0. TypeInv /\ Stepping(w, t) /\ CallTypes /\ Calling(t) /\ SeenBy(w, t)
  BY DEF RluInv, ValueInv, LogInv, LInv
<1>1. call'[t] = NULL => seen'[t] = {}
  BY DEF Notice
<1>2. call'[t] # NULL => (call'[t].key \in view'[t]) \in seen'[t]
  BY DEF Notice
<1>3. ASSUME InSection(t)' PROVE Has(t, Walked(w, t))' \in seen'[t]
  <2>1. CASE UNCHANGED vars /\ (AddNode(u) \/ RemoveNode(u) \/ Return(u))
    <3>1. InSection(t) /\ Walked(w, t)' = Walked(w, t)
      BY <1>3, <2>1 DEF InSection, Walked
    <3>2. call'[t] = call[t] /\ call[t] # NULL
      <4>1. step[t] # "out"
        BY <1>0, <3>1, ListAssumption DEF Stepping, InSection, WalkSteps, LockSteps, Steps
      <4>2. ~(t = u /\ Return(u))
        BY <3>1 DEF Return, InSection
      <4>3. call'[t] = call[t]
        BY <2>1, <4>2, OthersCall DEF CallSame, AddNode, RemoveNode
      <4> QED
        BY <1>0, <4>1, <4>3 DEF Calling
    <3>3. MembersOn(mem', Walked(w, t)) = MembersOn(mem, Walked(w, t))
      BY <3>1, MembersKept
    <3> QED
      BY <1>0, <3>1, <3>2, <3>3, SeenGrows DEF SeenBy, Has
  <2>2. CASE Thread(u)
    <3>1. CASE t = u /\ ReadVersion(t)
      <4>1. /\ Walked(w, t)' = Seeing(w, t) /\ pc[t] = "version"
        BY <1>3, <2>2, <3>1, WalkedStep DEF Seeing, ReadVersion, InSection
      <4>2. step[t] = "head" /\ UNCHANGED <<call, mem>>
        <5>1. step[t] = "head"
          BY <1>0, <4>1 DEF Stepping
        <5>2. UNCHANGED mem
          BY <3>1, <4>1, BlockSteps DEF InSection
        <5>3. ~CallSteps(t)
          BY <4>1, <5>1 DEF CallSteps, StartOp, WalkDeref, Walking, WalkSteal, Steal, AddNode,
             RemoveNode, Return
        <5> QED
          BY <3>1, <5>1, <5>2, <5>3, GoesSteps DEF Goes
      <4>3. call[t] # NULL /\ (call[t].key \in view[t]) \in seen[t]
        BY <1>0, <4>2 DEF Calling, SeenBy
      <4>4. view[t] = MembersOn(mem, Seeing(w, t))
        BY DEF Observed
      <4> QED
        BY <4>1, <4>2, <4>3, <4>4, SeenGrows DEF Has
    <3>2. CASE InSection(t) /\ Walked(w, t)' = Walked(w, t)
      <4>1. MembersOn(mem', Walked(w, t)) = MembersOn(mem, Walked(w, t))
        BY <3>2, MembersKept
      <4>2. step[t] # "out"
        BY <1>0, <3>2 DEF Stepping, InSection, WalkSteps, LockSteps
      <4>3. call'[t] = call[t]
        <5>1. ~(t = u /\ (StartOp(u) \/ Return(u)))
          BY <3>2 DEF Return, InSection, StartOp, ReaderLock
        <5>2. CASE t = u
          <6>1. CASE WalkDeref(t) \/ WalkSteal(t)
            BY <6>1, WalkEnds
          <6>2. CASE AddNode(t) \/ RemoveNode(t)
            BY <6>2 DEF AddNode, RemoveNode
          <6> QED
            BY <5>1, <5>2, <6>1, <6>2, GoesSteps DEF CallSteps, Goes
        <5> QED
          BY <5>2, OthersCall DEF CallSame
      <4> QED
        BY <1>0, <3>2, <4>1, <4>2, <4>3, SeenGrows DEF SeenBy, Has, Calling
    <3> QED
      BY <1>3, <2>2, <3>1, <3>2, WalkedStep
  <2> QED
    BY <2>1, <2>2, RluOfList
<1> QED
  BY <1>1, <1>2, <1>3 DEF SeenBy

LEMMA UpdateStep ==
    ASSUME NEW w \in Threads, Writers \subseteq {w}, RluInv(w), RluInv(w)', LInv(w), CallTypes,
           Assigned(w) => Update(w),
           NEW u \in Threads, StartOp(u) \/ Inside(u) \/ Finish(u)
    PROVE  Assigned(w)' => Update(w)'
<1> SUFFICES ASSUME Assigned(w)' PROVE Update(w)'
  OBVIOUS
<1>0. /\ TypeInv /\ InSection(w)' /\ pc'[w] = "section" /\ step'[w] = "unlock"
      /\ is_write_detected'[w] /\ CallTypes
  BY DEF RluInv, ValueInv, LogInv, Assigned, InSection
<1>1. MembersOn(mem', committed) = MembersOn(mem, committed)
  BY MembersKept
<1>2. CASE AddNode(u) \/ RemoveNode(u)
  <2>1. u = w /\ UNCHANGED <<vars, call>>
    BY <1>2, AddEffect, RemoveEffect
  <2>2. Future(w)' = Future(w) /\ UNCHANGED committed
    BY <2>1 DEF Future, Updated, WriteSet, At
  <2>3. CASE AddNode(w)
    <3>1. call[w].op = "add"
      BY <2>3, AddEffect
    <3> QED
      BY <1>1, <2>1, <2>2, <2>3, <3>1, MembersAdded DEF Update
  <2>4. CASE RemoveNode(w)
    <3>1. call[w].op = "remove"
      BY <2>4, RemoveEffect
    <3> QED
      BY <1>1, <2>1, <2>2, <2>4, <3>1, MembersRemoved DEF Update
  <2> QED
    BY <1>2, <2>1, <2>3, <2>4
<1>3. CASE u # w
  <2>1. CallSame(w) /\ pc'[w] = pc[w] /\ is_write_detected'[w] = is_write_detected[w]
    BY <1>0, <1>3, OthersCall, RluOfList, Others DEF Same
  <2>2. Assigned(w) /\ pc[w] = "section"
    BY <1>0, <2>1 DEF Assigned, CallSame
  <2>3. UNCHANGED mem
    BY <1>3, BlockSteps
  <2>4. Future(w)' = Future(w) /\ UNCHANGED committed
    <3>1. CASE UNCHANGED vars
      BY <3>1 DEF Future, Updated, WriteSet, At
    <3>2. CASE Thread(u)
      BY <1>0, <2>2, <3>2, UpdatedStep, CommittedStep DEF TryLockCopy, ReadVersion
    <3> QED
      BY <3>1, <3>2, RluOfList
  <2> QED
    BY <2>1, <2>2, <2>3, <2>4 DEF Update, CallSame
<1>4. CASE u = w /\ ~AddNode(w) /\ ~RemoveNode(w)
  <2>1. ~StartOp(w) /\ ~Return(w)
    BY <1>0 DEF StartOp, Return, GotoStep, CallTypes
  <2>2. ~WalkDeref(w) /\ ~WalkSteal(w)
    BY <1>0, WalkEnds
  <2>3. ~Goes(w)
    BY <1>0 DEF Goes, CallTypes
  <2> QED
    BY <1>4, <2>1, <2>2, <2>3, GoesSteps DEF CallSteps
<1> QED
  BY <1>2, <1>3, <1>4

\* What w has done to the list and has not counted.
Uncounted(w) ==
    IF Closing(w) /\ Changing(w) THEN IF call[w].op = "add" THEN 1 ELSE -1 ELSE 0

\* bench.c counts right, and only w has something to count.
Sized(w) ==
    /\ IsFiniteSet(Alive(w))
    /\ Cardinality(Alive(w)) = Cardinality(DOMAIN Initial) + 2 + diff[w] + Uncounted(w)
    /\ \A t \in Threads \ {w} : diff[t] = 0

LEMMA SizedStep ==
    ASSUME NEW w \in Threads, Writers \subseteq {w}, RluInv(w), RluInv(w)', LInv(w), CallTypes,
           \A t \in Threads : Answered(w, t), Sized(w),
           NEW u \in Threads, StartOp(u) \/ Inside(u) \/ Finish(u)
    PROVE  Sized(w)'
<1>0. /\ CallTypes /\ \A t \in Threads : diff[t] \in Int /\ Stepping(w, t)
      /\ IsFiniteSet(DOMAIN Initial) /\ Cardinality(DOMAIN Initial) \in Nat
      /\ IsFiniteSet(Alive(w)) /\ Cardinality(Alive(w)) \in Nat /\ Uncounted(w) \in Int
  BY FS_CardinalityType, ListAssumption DEF CallTypes, LInv, Sized, Uncounted
<1>1. CASE AddNode(u)
  <2>1. /\ u = w /\ step[w] = "assign" /\ step'[w] = "unlock" /\ call[w].op = "add"
        /\ UNCHANGED <<call, result, diff>>
    <3>1. UNCHANGED diff
      BY <1>1 DEF AddNode, benchVars
    <3> QED
      BY <1>0, <1>1, <3>1, AddEffect DEF CallTypes
  <2>2. PICK o \in Objs \ Alive(w) : Alive(w)' = Alive(w) \cup {o}
    BY <1>1, AddEffect
  <2>3. IsFiniteSet(Alive(w)') /\ Cardinality(Alive(w)') = Cardinality(Alive(w)) + 1
    BY <1>0, <2>2, FS_AddElement
  <2>4. Uncounted(w) = 0 /\ Uncounted(w)' = 1
    BY <2>1 DEF Uncounted, Closing, Changing, Answered
  <2> QED
    BY <1>0, <2>1, <2>3, <2>4 DEF Sized
<1>2. CASE RemoveNode(u)
  <2>1. /\ u = w /\ step[w] = "assign" /\ step'[w] = "unlock" /\ call[w].op = "remove"
        /\ UNCHANGED <<call, result, diff>>
    BY <1>0, <1>2, RemoveEffect DEF CallTypes, RemoveNode, benchVars
  <2>2. PICK o \in Alive(w) : Alive(w)' = Alive(w) \ {o}
    BY <1>2, RemoveEffect
  <2>3. IsFiniteSet(Alive(w)') /\ Cardinality(Alive(w)') = Cardinality(Alive(w)) - 1
    BY <1>0, <2>2, FS_RemoveElement
  <2>4. Uncounted(w) = 0 /\ Uncounted(w)' = -1
    BY <2>1 DEF Uncounted, Closing, Changing, Answered
  <2> QED
    BY <1>0, <2>1, <2>3, <2>4 DEF Sized
<1>3. CASE ~AddNode(u) /\ ~RemoveNode(u)
  <2>1. Alive(w)' = Alive(w)
    BY <1>3, BlockSteps
  <2>2. ASSUME NEW t \in Threads \ {u} PROVE diff'[t] = diff[t]
    BY OthersCall DEF CallSame
  <2>3. ~Return(u) => UNCHANGED diff
    <3>1. WalkDeref(u) \/ WalkSteal(u) => UNCHANGED diff
      BY WalkEnds
    <3> QED
      BY <1>0, <1>3, <3>1, GoesSteps, StartedCall DEF CallSteps, Goes
  <2>4. CASE u # w
    <3>1. CallSame(w)
      BY <2>4, OthersCall
    <3>2. diff'[w] = diff[w] /\ Uncounted(w)' = Uncounted(w)
      BY <3>1 DEF CallSame, Uncounted, Closing, Changing
    <3>3. diff'[u] = diff[u]
      <4>1. ASSUME Return(u) PROVE diff'[u] = diff[u]
        <5>1. ~Changing(u)
          BY <2>4, <4>1 DEF Return, Answered, Closing
        <5>2. diff' = [diff EXCEPT ![u] = @ + 0]
          BY <4>1, <5>1 DEF Return, Changing
        <5> QED
          BY <1>0, <5>2 DEF CallTypes
      <4> QED
        BY <2>3, <4>1
    <3> QED
      BY <2>1, <2>2, <3>2, <3>3 DEF Sized
  <2>5. CASE u = w
    <3>1. diff'[w] + Uncounted(w)' = diff[w] + Uncounted(w)
      <4>1. CASE Return(w)
        <5>1. step[w] = "return" /\ step'[w] = "out" /\ Closing(w)
          BY <1>0, <4>1 DEF Return, GotoStep, CallTypes, Closing
        <5>2. call[w].op \in {"contains", "add", "remove"}
          BY <1>0, <5>1, SteppingFacts, ListAssumption
        <5>3. diff' = [diff EXCEPT ![w] = @ + Uncounted(w)]
          BY <4>1, <5>1, <5>2 DEF Return, Uncounted, Changing
        <5>4. Uncounted(w)' = 0
          BY <5>1 DEF Uncounted, Closing
        <5> QED
          BY <1>0, <5>3, <5>4 DEF CallTypes
      <4>2. ASSUME ~Return(w) PROVE Uncounted(w)' = Uncounted(w)
        <5>1. CASE StartOp(w)
          BY <1>0, <5>1, StartedCall DEF Uncounted, Closing
        <5>2. CASE WalkDeref(w) \/ WalkSteal(w)
          <6>1. ~Closing(w) /\ (~Closing(w)' \/ ~Changing(w)')
            BY <5>2, WalkEnds DEF Closing, WalkSteps
          <6> QED
            BY <6>1 DEF Uncounted
        <5>3. CASE Goes(w)
          <6>1. (Closing(w)' <=> Closing(w)) /\ UNCHANGED <<call, result>>
            BY <1>0, <5>3 DEF Goes, Closing, CallTypes, LockSteps
          <6> QED
            BY <6>1 DEF Uncounted, Changing
        <5> QED
          BY <1>3, <2>5, <4>2, <5>1, <5>2, <5>3, GoesSteps DEF CallSteps
      <4> QED
        BY <2>3, <2>5, <4>1, <4>2
    <3>2. diff'[w] \in Int /\ Uncounted(w)' \in Int
      <4>1. Uncounted(w)' \in Int
        BY DEF Uncounted
      <4>2. CASE Return(w)
        <5>1. PICK k \in {0, 1, -1} : diff' = [diff EXCEPT ![w] = @ + k]
          BY <4>2 DEF Return
        <5> QED
          BY <1>0, <4>1, <5>1 DEF CallTypes
      <4> QED
        BY <1>0, <2>3, <2>5, <4>1, <4>2
    <3> QED
      BY <1>0, <2>1, <2>2, <2>5, <3>1, <3>2 DEF Sized
  <2> QED
    BY <2>4, <2>5
<1> QED
  BY <1>1, <1>2, <1>3

LEMMA CallTypesStep ==
    ASSUME NEW w \in Threads, Writers \subseteq {w}, RluInv(w), RluInv(w)', LInv(w), LInv(w)',
           CallTypes, NEW u \in Threads, StartOp(u) \/ Inside(u) \/ Finish(u), Notice
    PROVE  CallTypes'
<1>1. DOMAIN call' = Threads /\ result' \in [Threads -> BOOLEAN] /\ step' \in [Threads -> Steps]
  BY DEF LInv, ListTypeOK
<1>2. diff' \in [Threads -> Int]
  <2>1. CASE Return(u)
    <3>1. PICK k \in {0, 1, -1} : diff' = [diff EXCEPT ![u] = @ + k]
      BY <2>1 DEF Return
    <3> QED
      BY <3>1 DEF CallTypes
  <2>2. CASE ~Return(u)
    <3>1. UNCHANGED diff
      <4>1. WalkDeref(u) \/ WalkSteal(u) => UNCHANGED diff
        BY WalkEnds
      <4>2. AddNode(u) \/ RemoveNode(u) => UNCHANGED diff
        BY DEF AddNode, RemoveNode, benchVars
      <4> QED
        BY <2>2, <4>1, <4>2, GoesSteps, StartedCall DEF CallSteps, Goes
    <3> QED
      BY <3>1 DEF CallTypes
  <2> QED
    BY <2>1, <2>2
<1>3. seen' = [t \in Threads |-> seen'[t]]
  BY DEF Notice
<1> QED
  BY <1>1, <1>2, <1>3 DEF CallTypes

\* The invariant of the calls.
Promise(w) ==
    /\ CallTypes
    /\ \A t \in Threads : Calling(t) /\ Ended(t) /\ Answered(w, t) /\ SeenBy(w, t)
    /\ Observed(w) /\ (Assigned(w) => Update(w)) /\ Sized(w)

LEMMA PromiseThreadStep ==
    ASSUME NEW w \in Threads, Writers \subseteq {w}, RluInv(w), RluInv(w)', LInv(w), LInv(w)',
           Promise(w), NEW u \in Threads, StartOp(u) \/ Inside(u) \/ Finish(u), Notice
    PROVE  Promise(w)'
<1>0. /\ CallTypes /\ Observed(w) /\ (Assigned(w) => Update(w)) /\ Sized(w)
      /\ \A t \in Threads : Calling(t) /\ SeenBy(w, t)
      /\ \A t \in Threads : Answered(w, t)
      /\ \A t \in Threads : Ended(t)
  BY DEF Promise
<1>1. CallTypes' /\ Observed(w)'
  BY <1>0, CallTypesStep, ObservedStep
<1>2. (Assigned(w) => Update(w))'
  BY <1>0, UpdateStep
<1>3. Sized(w)'
  BY <1>0, SizedStep
<1>4. ASSUME NEW t \in Threads PROVE Calling(t)' /\ Ended(t)' /\ Answered(w, t)' /\ SeenBy(w, t)'
  <2>1. Calling(t)' /\ Ended(t)'
    BY <1>0, CallingStep, EndedStep
  <2>2. Answered(w, t)'
    BY <1>0, AnsweredStep
  <2>3. SeenBy(w, t)'
    BY <1>0, SeenByStep
  <2> QED
    BY <2>1, <2>2, <2>3
<1> QED
  BY <1>1, <1>2, <1>3, <1>4 DEF Promise

LEMMA PromiseStutters ==
    ASSUME NEW w \in Threads, Promise(w), UNCHANGED allVars
    PROVE  Promise(w)'
<1>0. /\ UNCHANGED <<mem, free, free_nodes, call, step, result, diff, set, view, seen>>
      /\ UNCHANGED vars
  BY DEF allVars, listVars, blockVars, walkVars, benchVars, viewVars
<1>1. CallTypes'
  BY <1>0 DEF Promise, CallTypes
<1>2. /\ Future(w)' = Future(w) /\ UNCHANGED committed
      /\ (Assigned(w)' <=> Assigned(w)) /\ Alive(w)' = Alive(w)
  BY <1>0 DEF Future, Updated, WriteSet, At, Assigned, Alive, Freed
<1>3. Store' = Store
  <2>1. \A o \in Objs : Published(o)' = Published(o)
    BY <1>0 DEF Published, Publishing, Complete, At
  <2> QED
    BY <2>1 DEF Store
<1>4. Observed(w)'
  BY <1>0, <1>2, <1>3 DEF Promise, Observed, Seeing
<1>5. (Assigned(w) => Update(w))'
  BY <1>0, <1>2 DEF Promise, Update
<1>6. Sized(w)'
  BY <1>0, <1>2 DEF Promise, Sized, Uncounted, Closing, Changing
<1>7. ASSUME NEW t \in Threads PROVE Calling(t)' /\ Ended(t)' /\ Answered(w, t)' /\ SeenBy(w, t)'
  <2>1. Calling(t)' /\ Ended(t)'
    BY <1>0 DEF Promise, Calling, Ended, Stopping, Syncing
  <2>2. Answered(w, t)'
    BY <1>0 DEF Promise, Answered, Witnessed, Closing, Changing
  <2>3. SeenBy(w, t)'
    <3>1. Walked(w, t)' = Walked(w, t) /\ (InSection(t)' <=> InSection(t))
      BY <1>0 DEF Walked, InSection
    <3> QED
      BY <1>0, <3>1 DEF Promise, SeenBy, Has
  <2> QED
    BY <2>1, <2>2, <2>3
<1> QED
  BY <1>1, <1>4, <1>5, <1>6, <1>7 DEF Promise

LEMMA PromiseInit ==
    ASSUME NEW w \in Threads, Writers \subseteq {w}
    PROVE  ListInit => Promise(w)
<1> SUFFICES ASSUME ListInit PROVE Promise(w)
  OBVIOUS
<1>0. Init /\ RluInv(w) /\ LInv(w)
  BY LInvInit DEF ListInit
<1>1. /\ call = [t \in Threads |-> NULL] /\ step = [t \in Threads |-> "out"]
      /\ free_nodes = [t \in Threads |-> <<>>] /\ free = Objs \ Used
      /\ result = [t \in Threads |-> FALSE] /\ diff = [t \in Threads |-> 0]
      /\ seen = [t \in Threads |-> {}]
      /\ set = Members(PublishedContents) /\ view = [t \in Threads |-> Members(OwnContents(t))]
  BY DEF ListInit, Used
<1>2. \A t \in Threads : pc[t] \in {"idle", "new"} /\ ret[t] = "idle"
  BY <1>0 DEF Init
<1>3. CallTypes
  BY <1>1 DEF CallTypes, Steps
<1>4. ~Assigned(w) /\ Uncounted(w) = 0
  BY <1>1 DEF Assigned, Uncounted, Closing
<1>5. Observed(w)
  BY <1>0, <1>1, ViewFactsNow DEF Observed
<1>6. Sized(w)
  <2>1. Freed(w) = {}
    BY <1>1 DEF Freed
  <2>2. Alive(w) = (DOMAIN Initial \cup {p_min_node}) \cup {p_max_node}
    BY <1>1, <2>1, ListAssumption DEF Alive, Used
  <2>3. /\ IsFiniteSet(DOMAIN Initial) /\ Cardinality(DOMAIN Initial) \in Nat
        /\ p_min_node \notin DOMAIN Initial /\ p_max_node \notin DOMAIN Initial \cup {p_min_node}
    BY ListAssumption, FS_CardinalityType
  <2>4. /\ IsFiniteSet(DOMAIN Initial \cup {p_min_node})
        /\ Cardinality(DOMAIN Initial \cup {p_min_node}) = Cardinality(DOMAIN Initial) + 1
    BY <2>3, FS_AddElement
  <2>5. IsFiniteSet(Alive(w)) /\ Cardinality(Alive(w)) = Cardinality(DOMAIN Initial) + 1 + 1
    BY <2>2, <2>3, <2>4, FS_AddElement
  <2> QED
    BY <1>1, <1>4, <2>3, <2>5 DEF Sized
<1>7. ASSUME NEW t \in Threads PROVE Calling(t) /\ Ended(t) /\ Answered(w, t) /\ SeenBy(w, t)
  BY <1>1, <1>2 DEF Calling, Ended, Answered, SeenBy, Stopping, Closing, LockSteps, InSection
<1> QED
  BY <1>3, <1>4, <1>5, <1>6, <1>7 DEF Promise

LEMMA PromiseStep ==
    ASSUME NEW w \in Threads, Writers \subseteq {w}
    PROVE  /\ RluInv(w) /\ LInv(w) /\ Promise(w)
           /\ VersionsBelowMax /\ [ListNext]_allVars
           => (RluInv(w) /\ LInv(w) /\ Promise(w))'
<1> SUFFICES ASSUME RluInv(w), LInv(w), Promise(w), VersionsBelowMax, [ListNext]_allVars
             PROVE  (RluInv(w) /\ LInv(w) /\ Promise(w))'
  OBVIOUS
<1>1. RluInv(w)' /\ LInv(w)'
  BY LInvStep
<1>2. CASE UNCHANGED allVars
  BY <1>1, <1>2, PromiseStutters
<1>3. CASE ~UNCHANGED allVars
  <2>1. PICK u \in Threads : (StartOp(u) \/ Inside(u) \/ Finish(u)) /\ Notice
    BY <1>3 DEF ListNext
  <2> QED
    BY <1>1, <2>1, PromiseThreadStep
<1> QED
  BY <1>2, <1>3

LEMMA PromiseInvariant ==
    ASSUME NEW CONSTANT w, w \in Threads, Writers \subseteq {w}
    PROVE  ListSpec /\ []VersionsBelowMax => [](RluInv(w) /\ LInv(w) /\ Promise(w))
<1>1. /\ RluInv(w) /\ LInv(w) /\ Promise(w)
      /\ VersionsBelowMax /\ [ListNext]_allVars
      => (RluInv(w) /\ LInv(w) /\ Promise(w))'
  BY PromiseStep
<1>2. ListInit => RluInv(w) /\ LInv(w) /\ Promise(w)
  BY LInvInit, PromiseInit
<1> QED
  BY <1>1, <1>2, PTL DEF ListSpec

-----------------------------------------------------------------------------
(* What is left when all have finished. *)

LEMMA SumOfOne ==
    ASSUME IsFiniteSet(Threads), NEW w \in Threads, diff[w] \in Int,
           \A t \in Threads \ {w} : diff[t] = 0
    PROVE  MapThenSumSet(LAMBDA t : diff[t], Threads) = diff[w]
<1> DEFINE one(s) == CHOOSE x \in s : TRUE
           sum(g) == [s \in SUBSET Threads |-> IF s = {} THEN 0 ELSE diff[one(s)] + g[s \ {one(s)}]]
           f == CHOOSE g : g = sum(g)
           h == [s \in SUBSET Threads |-> IF w \in s THEN diff[w] ELSE 0]
<1>1. MapThenSumSet(LAMBDA t : diff[t], Threads) = f[Threads]
  BY DEF MapThenSumSet, MapThenFoldSet
<1>2. \A s \in SUBSET Threads : s # {} => one(s) \in s
  OBVIOUS
<1> HIDE DEF one
<1>3. h = sum(h)
  <2>1. ASSUME NEW s \in SUBSET Threads, s # {} PROVE h[s] = diff[one(s)] + h[s \ {one(s)}]
    BY <1>2, <2>1
  <2>2. ASSUME NEW s \in SUBSET Threads PROVE h[s] = sum(h)[s]
    BY <2>1, <2>2
  <2> QED
    BY <2>2
<1>4. f = sum(f)
  BY <1>3
<1> HIDE DEF f
<1>5. \A s \in SUBSET Threads : f[s] = IF s = {} THEN 0 ELSE diff[one(s)] + f[s \ {one(s)}]
  BY <1>4
<1> DEFINE Bad == {s \in SUBSET Threads : f[s] # h[s]}
           T == {Cardinality(s) : s \in Bad}
<1>6. SUFFICES ASSUME Bad # {} PROVE FALSE
  BY <1>1
<1>7. \A s \in SUBSET Threads : IsFiniteSet(s) /\ Cardinality(s) \in Nat
  BY FS_Subset, FS_CardinalityType
<1>8. PICK m \in T : \A k \in T : m <= k
  <2>1. T \subseteq Nat /\ T # {}
    BY <1>6, <1>7
  <2> HIDE DEF T
  <2> QED
    BY <2>1, LeastNumber
<1>9. PICK s \in Bad : m = Cardinality(s)
  BY <1>8
<1>10. s # {}
  BY <1>5, <1>9
<1> DEFINE r == s \ {one(s)}
<1>11. r \in SUBSET Threads /\ Cardinality(r) = Cardinality(s) - 1 /\ Cardinality(s) \in Nat
  BY <1>2, <1>7, <1>9, <1>10, FS_RemoveElement
<1>12. f[r] = h[r]
  <2> SUFFICES ASSUME r \in Bad PROVE FALSE
    BY <1>11
  <2> HIDE DEF r, Bad
  <2>1. Cardinality(r) \in T
    OBVIOUS
  <2> QED
    BY <1>8, <1>9, <1>11, <2>1
<1>13. h[s] = diff[one(s)] + h[r]
  BY <1>2, <1>9, <1>10
<1> QED
  BY <1>5, <1>9, <1>10, <1>12, <1>13

LEMMA FinalSize ==
    ASSUME NEW w \in Threads, Writers \subseteq {w}, RluInv(w), LInv(w), Promise(w)
    PROVE  ExpectedSize
<1> SUFFICES ASSUME Done
             PROVE  Cardinality(Chain(data) \ {p_min_node, p_max_node})
                        = Cardinality(DOMAIN Initial) + MapThenSumSet(LAMBDA t : diff[t], Threads)
  BY DEF ExpectedSize
<1>0. /\ Facts(w) /\ Lists(w) /\ pc[w] = "done" /\ CallTypes /\ Sized(w) /\ Ended(w)
      /\ IsFiniteSet(DOMAIN Initial) /\ Cardinality(DOMAIN Initial) \in Nat
      /\ p_min_node # p_max_node
  BY FactsNow, FS_CardinalityType, ListAssumption DEF LInv, Done, Promise
<1>1. IsList(mem, data, Alive(w))
  BY <1>0 DEF Lists, Latest, Assigned, Facts, QuietFacts
<1>2. Chain(data) = Alive(w) /\ p_min_node \in Alive(w) /\ p_max_node \in Alive(w)
  BY <1>1, ChainOfList DEF IsList
<1>3. Cardinality(Alive(w)) = Cardinality(DOMAIN Initial) + 2 + diff[w] /\ IsFiniteSet(Alive(w))
  <2>1. step[w] = "out"
    BY <1>0 DEF Ended, Stopping
  <2>2. Uncounted(w) = 0 /\ diff[w] \in Int
    BY <1>0, <2>1 DEF Uncounted, Closing, CallTypes
  <2> QED
    BY <1>0, <2>2 DEF Sized
<1>4. Cardinality(Chain(data) \ {p_min_node, p_max_node}) = Cardinality(Alive(w)) - 1 - 1
  <2>1. /\ IsFiniteSet(Alive(w) \ {p_min_node})
        /\ Cardinality(Alive(w) \ {p_min_node}) = Cardinality(Alive(w)) - 1
    BY <1>2, <1>3, FS_RemoveElement
  <2>2. Cardinality((Alive(w) \ {p_min_node}) \ {p_max_node}) = Cardinality(Alive(w)) - 1 - 1
    BY <1>0, <1>2, <2>1, FS_RemoveElement
  <2>3. Chain(data) \ {p_min_node, p_max_node} = (Alive(w) \ {p_min_node}) \ {p_max_node}
    BY <1>2
  <2> QED
    BY <2>2, <2>3
<1>5. MapThenSumSet(LAMBDA t : diff[t], Threads) = diff[w]
  <2>1. IsFiniteSet(Threads)
    BY ThreadsAssumption, FS_Interval DEF Threads
  <2> QED
    BY <1>0, <2>1, SumOfOne DEF Sized, CallTypes
<1> QED
  BY <1>0, <1>3, <1>4, <1>5 DEF CallTypes

\* The final check of bench.c:570 never fails: the number of nodes in the list is the
\* initial one and what the calls say that they inserted less what they say that they
\* removed, after any number of calls, restarts and deferred write-backs.
THEOREM SizeExpected ==
    ASSUME NEW CONSTANT w, w \in Threads, Writers \subseteq {w}
    PROVE  ListSpec /\ []VersionsBelowMax => []ExpectedSize
<1>1. RluInv(w) /\ LInv(w) /\ Promise(w) => ExpectedSize
  BY FinalSize
<1> QED
  BY <1>1, PromiseInvariant, PTL

-----------------------------------------------------------------------------
(* F. The list implements the set with deferred updates. *)

LEMMA ListsKept ==
    ASSUME NEW w \in Threads, Writers \subseteq {w}, RluInv(w), RluInv(w)', LInv(w),
           Promise(w), Promise(w)', NEW u \in Threads, StartOp(u) \/ Inside(u) \/ Finish(u),
           UNCHANGED committed, Store' = Store
    PROVE  UNCHANGED <<set, view>>
<1>1. /\ MembersOn(mem', committed') = MembersOn(mem, committed)
      /\ MembersOn(mem', Store') = MembersOn(mem, Store)
  BY MembersKept
<1>2. /\ set = MembersOn(mem, Store) /\ set' = MembersOn(mem', Store')
      /\ view = [t \in Threads |-> MembersOn(mem, Seeing(w, t))]
      /\ view' = [t \in Threads |-> MembersOn(mem', Seeing(w, t)')]
  BY DEF Promise, Observed
<1>3. \A t \in Threads : MembersOn(mem', Seeing(w, t)') = MembersOn(mem, Seeing(w, t))
  BY <1>1 DEF Seeing
<1> QED
  BY <1>1, <1>2, <1>3

LEMMA SeenKept ==
    ASSUME NEW w, Promise(w), Notice, UNCHANGED <<call, view>>
    PROVE  UNCHANGED seen
<1>1. \A t \in Threads : seen'[t] = seen[t]
  BY DEF Promise, Notice, SeenBy
<1> QED
  BY <1>1 DEF Promise, CallTypes, Notice

\* What the promise sees of a call, when only u moves.
LEMMA OneCall ==
    ASSUME NEW u \in Threads, \A t \in Threads \ {u} : CallSame(t)
    PROVE  /\ \A x : Changed'[u] = x => Changed' = [Changed EXCEPT ![u] = x]
           /\ \A x : Answers'[u] = x => Answers' = [Answers EXCEPT ![u] = x]
           /\ Changed'[u] = Changed[u] => UNCHANGED Changed
           /\ Answers'[u] = Answers[u] => UNCHANGED Answers
<1>1. \A t \in Threads \ {u} : Changed'[t] = Changed[t] /\ Answers'[t] = Answers[t]
  BY DEF CallSame, Changed, Answers
<1>2. /\ Changed = [t \in Threads |-> Changed[t]] /\ Answers = [t \in Threads |-> Answers[t]]
      /\ Changed' = [t \in Threads |-> Changed'[t]] /\ Answers' = [t \in Threads |-> Answers'[t]]
  BY DEF Changed, Answers
<1> HIDE DEF Changed, Answers
<1> QED
  BY <1>1, <1>2

LEMMA CommitIsUnlock ==
    ASSUME NEW w \in Threads, Writers \subseteq {w}, RluInv(w), RluInv(w)', LInv(w), CallTypes,
           NEW u \in Threads, StartOp(u) \/ Inside(u) \/ Finish(u), CommitUnlock(u)
    PROVE  ListUnlock(u)
<1>0. TypeInv /\ pc \in [Threads -> Labels]
  BY CounterTypes DEF RluInv, ValueInv, LogInv
<1>1. pc[u] = "section" /\ pc'[u] \in {"load", "release_prev"}
  BY <1>0 DEF CommitUnlock, SyncCall, Goto
<1>2. ~StartOp(u) /\ ~Restart(u) /\ ~Finish(u) /\ ~Return(u)
  BY <1>1 DEF StartOp, Restart, ReaderLock, Finish, ThreadFinish, Return
<1>3. ~WalkDeref(u) /\ ~WalkSteal(u)
  BY <1>1, WalkEnds
<1>4. ~WalkDerefLocked(u)
  BY <1>0, <1>1 DEF WalkDerefLocked, DerefLocked, Goto
<1>5. ~ListTryLock(u)
  BY <1>0, <1>1 DEF ListTryLock, TryLock, TryLockFail, Goto
<1>6. ~ListTryLockCopy(u) /\ ~ListAbort(u) /\ ~ListSyncEnd(u)
  BY <1>1 DEF ListTryLockCopy, TryLockCopy, ListAbort, Abort, ListSyncEnd, SyncEnd
<1>7. ~AddNode(u) /\ ~RemoveNode(u)
  BY <1>1 DEF AddNode, RemoveNode, UnchangedRlu
<1>8. ~Library(u)
  BY <1>0, <1>1, LibraryOut DEF InSection, ReadVersion, ReadCommitVersion, TryLockCas,
     SendSyncRequest
<1> QED
  BY <1>2, <1>3, <1>4, <1>5, <1>6, <1>7, <1>8 DEF Inside

\* ReaderUnlock and CommitUnlock end the sections: only the latter changes the set.
LEMMA MapUpdate ==
    ASSUME NEW w \in Threads, Writers \subseteq {w}, RluInv(w), RluInv(w)', LInv(w),
           Promise(w), Promise(w)', Notice, Thread(w),
           StartOp(w) \/ Inside(w) \/ Finish(w), CommitUnlock(w),
           committed' = Future(w), Store' = Store, Backlog' = [Backlog EXCEPT ![w] = @ + 1]
    PROVE  Deferred!Next
<1>0. CallTypes /\ Answered(w, w) /\ Calling(w)
  BY DEF Promise
<1>1. ListUnlock(w)
  BY <1>0, CommitIsUnlock
<1>2. /\ step[w] = "unlock" /\ step'[w] = "return" /\ UNCHANGED <<mem, call, result>>
      /\ pc[w] = "section" /\ is_write_detected[w]
  BY <1>0, <1>1 DEF ListUnlock, GotoStep, CallTypes, blockVars, CommitUnlock
<1>3. Changing(w) /\ call[w] # NULL /\ Update(w)
  BY <1>0, <1>2 DEF Answered, Calling, Promise, Assigned
<1>4. \A t \in Threads \ {w} : CallSame(t)
  BY <1>0, OthersCall
<1>5. ~Changed[w] /\ Changed' = [Changed EXCEPT ![w] = TRUE]
  <2>1. Changed'[w] = TRUE
    BY <1>2, <1>3 DEF Changed, Changing
  <2>2. ~Changed[w]
    BY <1>2 DEF Changed
  <2> QED
    BY <1>4, <2>1, <2>2, OneCall
<1>6. UNCHANGED Answers
  BY <1>2 DEF Answers
<1>7. /\ set = MembersOn(mem, Store) /\ set' = MembersOn(mem', Store')
      /\ view = [t \in Threads |-> MembersOn(mem, Seeing(w, t))]
      /\ view' = [t \in Threads |-> MembersOn(mem', Seeing(w, t)')]
  BY DEF Promise, Observed
<1>8. /\ UNCHANGED set /\ view[w] = MembersOn(mem, committed)
      /\ view' = [view EXCEPT ![w] = MembersOn(mem, Future(w))]
  BY <1>2, <1>7 DEF Seeing
<1>9. Deferred!Update(w)
  BY <1>2, <1>3, <1>5, <1>6, <1>8 DEF Deferred!Update, Update
<1> QED
  BY <1>9 DEF Deferred!Next, Deferred!Notice, Notice

LEMMA MapPublication ==
    ASSUME NEW w \in Threads, Writers \subseteq {w}, RluInv(w), RluInv(w)', LInv(w),
           Promise(w), Promise(w)', Notice, Thread(w),
           StartOp(w) \/ Inside(w) \/ Finish(w), SyncBump(w), UNCHANGED committed,
           Store' = committed, Backlog[w] > 0, Backlog' = [Backlog EXCEPT ![w] = 0]
    PROVE  Deferred!Next
<1>0. CallTypes /\ pc[w] = "bump"
  BY DEF Promise, SyncBump
<1>1. ~CallSteps(w)
  BY <1>0 DEF CallSteps, StartOp, ReaderLock, WalkDeref, Walking, WalkSteal, Steal, AddNode,
     RemoveNode, Return
<1>2. UNCHANGED <<call, result, step>>
  BY <1>0, <1>1, GoesSteps DEF Goes, ListUnlock, ReaderUnlock, CommitUnlock, InSection
<1>3. UNCHANGED <<Changed, Answers>>
  BY <1>2 DEF Changed, Answers
<1>4. /\ MembersOn(mem', committed) = MembersOn(mem, committed)
      /\ set = MembersOn(mem, Store) /\ set' = MembersOn(mem', Store')
      /\ view = [t \in Threads |-> MembersOn(mem, Seeing(w, t))]
      /\ view' = [t \in Threads |-> MembersOn(mem', Seeing(w, t)')]
  BY MembersKept DEF Promise, Observed
<1>5. set' = view[w] /\ view' = [t \in Threads |-> view[w]]
  BY <1>4 DEF Seeing
<1>6. view' = [t \in Threads |-> (view[t] \cup (view[w] \ set)) \ (set \ view[w])]
  <2>1. \A t \in Threads : (view[t] \cup (view[w] \ set)) \ (set \ view[w]) = view[w]
    <3>1. \A t \in Threads : view[t] = view[w] \/ view[t] = set
      BY <1>4 DEF Seeing
    <3> QED
      BY <3>1
  <2> QED
    BY <1>5, <2>1
<1>7. Deferred!Publish(w)
  BY <1>2, <1>3, <1>5, <1>6 DEF Deferred!Publish
<1> QED
  BY <1>7 DEF Deferred!Next, Deferred!Notice, Notice

LEMMA MapAnswer ==
    ASSUME NEW w \in Threads, Writers \subseteq {w}, RluInv(w), RluInv(w)', LInv(w),
           Promise(w), Promise(w)', Notice, UNCHANGED <<set, view, Backlog>>,
           NEW u \in Threads, Return(u)
    PROVE  Deferred!Next
<1>0. CallTypes /\ Answered(w, u) /\ Calling(u) /\ TypeInv /\ RingOf(u)
  BY DEF Promise, RluInv, ValueInv, LogInv, Ring
<1>1. /\ pc[u] = "idle" /\ step[u] = "return" /\ step' = [step EXCEPT ![u] = "out"]
      /\ call' = [call EXCEPT ![u] = NULL] /\ UNCHANGED result
  BY DEF Return, GotoStep
<1>2. call[u] # NULL /\ call'[u] = NULL /\ step'[u] = "out" /\ Closing(u) /\ result[u] \in BOOLEAN
  BY <1>0, <1>1 DEF CallTypes, Calling, Closing
<1>3. Backlog[u] < max_write_sets
  <2>1. /\ ws_wb_counter[u] \in Nat /\ ws_tail_counter[u] \in Nat
        /\ ws_tail_counter[u] < ws_wb_counter[u] + max_write_sets
    BY <1>0, <1>1, CounterTypes DEF RingOf, Syncing, SyncLabels
  <2> QED
    BY <2>1, WriteSetsAssumption DEF Backlog
<1>4. \A t \in Threads \ {u} : CallSame(t)
  BY <1>0, OthersCall DEF Inside
<1>5. /\ Changed' = [Changed EXCEPT ![u] = FALSE]
      /\ Answers' = [Answers EXCEPT ![u] = result[u]]
  <2>1. Changed'[u] = FALSE
    BY <1>2 DEF Changed
  <2>2. Answers'[u] = result[u]
    BY <1>1, <1>2 DEF Answers
  <2> QED
    BY <1>4, <2>1, <2>2, OneCall
<1>6. \/ Changed[u] /\ result[u]
      \/ ~Changed[u] /\ call[u].op = "contains" /\ result[u] \in seen[u]
      \/ ~Changed[u] /\ call[u].op = "add" /\ TRUE \in seen[u] /\ ~result[u]
      \/ ~Changed[u] /\ call[u].op = "remove" /\ FALSE \in seen[u] /\ ~result[u]
  <2>1. Changed[u] <=> Changing(u)
    BY <1>1 DEF Changed, Changing
  <2>2. CASE Changing(u)
    BY <2>1, <2>2 DEF Changing
  <2>3. CASE ~Changing(u)
    <3>1. Witnessed(u)
      BY <1>0, <1>2, <2>3 DEF Answered
    <3> QED
      BY <2>1, <2>3, <3>1 DEF Witnessed, Changing
  <2> QED
    BY <2>2, <2>3
<1>7. Deferred!Answer(u)
  BY <1>1, <1>2, <1>3, <1>5, <1>6 DEF Deferred!Answer
<1> QED
  BY <1>7 DEF Deferred!Next, Deferred!Notice, Notice

LEMMA MapCall ==
    ASSUME NEW w \in Threads, Writers \subseteq {w}, RluInv(w), RluInv(w)', LInv(w),
           Promise(w), Promise(w)', Notice, UNCHANGED <<set, view, Backlog>>,
           NEW u \in Threads, StartOp(u)
    PROVE  Deferred!Next
<1>0. CallTypes /\ Calling(u)
  BY DEF Promise
<1>1. /\ \E op \in {"contains", "add", "remove"}, key \in Keys :
            call' = [call EXCEPT ![u] = [op |-> op, key |-> key]]
      /\ call'[u] # NULL /\ step'[u] = "head" /\ step[u] = "out" /\ call[u] = NULL
  BY <1>0, StartedCall DEF Calling
<1>2. \A t \in Threads \ {u} : CallSame(t)
  BY <1>0, OthersCall
<1>3. UNCHANGED Changed /\ Answers' = [Answers EXCEPT ![u] = NULL]
  <2>1. Changed'[u] = FALSE /\ Changed[u] = FALSE
    BY <1>1 DEF Changed
  <2>2. Answers'[u] = NULL
    BY <1>1 DEF Answers
  <2> QED
    BY <1>2, <2>1, <2>2, OneCall
<1>4. Deferred!Call(u)
  BY <1>1, <1>3 DEF Deferred!Call
<1> QED
  BY <1>4 DEF Deferred!Next, Deferred!Notice, Notice

\* The other steps change nothing that the promise is about.
LEMMA MapNothing ==
    ASSUME NEW w \in Threads, Writers \subseteq {w}, RluInv(w), RluInv(w)', LInv(w),
           Promise(w), Promise(w)', Notice, UNCHANGED <<set, view, Backlog>>,
           NEW u \in Threads, StartOp(u) \/ Inside(u) \/ Finish(u),
           ~StartOp(u), ~Return(u), ~CommitUnlock(u)
    PROVE  UNCHANGED Deferred!vars
<1>0. CallTypes /\ Answered(w, u) /\ Calling(u)
  BY DEF Promise
<1>1. \A t \in Threads \ {u} : CallSame(t)
  BY <1>0, OthersCall
<1>2. CASE WalkDeref(u) \/ WalkSteal(u)
  <2>1. /\ UNCHANGED call /\ step[u] \in WalkSteps
        /\ step'[u] \in {"walk", "lock_prev", "succ", "unlock"}
    BY <1>0, <1>2, WalkEnds
  <2>2. Changed'[u] = FALSE /\ Changed[u] = FALSE
    BY <2>1 DEF Changed, WalkSteps
  <2>3. Answers'[u] = Answers[u]
    BY <1>0, <2>1 DEF Answers, Calling, WalkSteps
  <2> QED
    BY <1>1, <2>1, <2>2, <2>3, OneCall, SeenKept DEF Deferred!vars
<1>3. CASE AddNode(u) \/ RemoveNode(u)
  <2>1. UNCHANGED <<call, result>> /\ step[u] = "assign" /\ step'[u] = "unlock"
    BY <1>0, <1>3 DEF AddNode, RemoveNode, GotoStep, CallTypes
  <2>2. Changed'[u] = FALSE /\ Changed[u] = FALSE
    BY <2>1 DEF Changed
  <2>3. UNCHANGED Answers
    BY <2>1 DEF Answers
  <2> QED
    BY <1>1, <2>1, <2>2, <2>3, OneCall, SeenKept DEF Deferred!vars
<1>4. CASE Goes(u)
  <2>1. UNCHANGED <<call, result>>
    BY <1>4 DEF Goes
  <2>2. UNCHANGED Answers
    BY <2>1 DEF Answers
  <2>3. Changed'[u] = Changed[u]
    <3>1. CASE ListUnlock(u)
      <4>1. /\ step[u] = "unlock" /\ step'[u] = "return" /\ pc[u] = "section"
            /\ ~is_write_detected[u]
        BY <1>0, <3>1 DEF ListUnlock, ReaderUnlock, GotoStep, CallTypes
      <4>2. ~Changing(u)
        BY <1>0, <4>1 DEF Answered
      <4> QED
        BY <2>1, <4>1, <4>2 DEF Changed, Changing
    <3>2. CASE ~ListUnlock(u)
      <4>1. step'[u] = "return" <=> step[u] = "return"
        BY <1>0, <1>4, <3>2 DEF Goes, CallTypes, LockSteps
      <4> QED
        BY <2>1, <4>1 DEF Changed
    <3> QED
      BY <3>1, <3>2
  <2> QED
    BY <1>1, <2>1, <2>2, <2>3, OneCall, SeenKept DEF Deferred!vars
<1> QED
  BY <1>2, <1>3, <1>4, GoesSteps DEF CallSteps

LEMMA MapDeferred ==
    ASSUME NEW w \in Threads, Writers \subseteq {w}, RluInv(w), RluInv(w)', LInv(w),
           Promise(w), Promise(w)', Notice,
           NEW u \in Threads, StartOp(u) \/ Inside(u) \/ Finish(u)
    PROVE  Deferred!Next \/ UNCHANGED Deferred!vars
<1>1. CASE UNCHANGED <<committed, Backlog>> /\ Store' = Store /\ ~CommitUnlock(u)
  <2>1. UNCHANGED <<set, view, Backlog>>
    BY <1>1, ListsKept
  <2> QED
    BY <1>1, <2>1, MapCall, MapAnswer, MapNothing
<1>2. CASE UNCHANGED vars
  <2>1. \A o \in Objs : Published(o)' = Published(o)
    BY <1>2 DEF Published, Publishing, Complete, At
  <2>2. Store' = Store /\ UNCHANGED <<committed, Backlog>>
    BY <1>2, <2>1 DEF Store, Backlog, Publishing
  <2>3. ~CommitUnlock(u)
    <3>1. pc \in [Threads -> Labels] /\ UNCHANGED pc
      BY <1>2, CounterTypes DEF RluInv, ValueInv, LogInv
    <3> QED
      BY <3>1 DEF CommitUnlock, SyncCall, Goto
  <2> QED
    BY <1>1, <2>2, <2>3
<1>3. CASE Thread(u)
  BY <1>1, <1>3, ContentsStep, MapUpdate, MapPublication
<1> QED
  BY <1>2, <1>3, RluOfList

LEMMA MapDeferredStep ==
    ASSUME NEW w \in Threads, Writers \subseteq {w}
    PROVE  /\ RluInv(w) /\ LInv(w) /\ Promise(w)
           /\ RluInv(w)' /\ Promise(w)' /\ [ListNext]_allVars
           => [Deferred!Next]_(Deferred!vars)
<1> SUFFICES ASSUME RluInv(w), LInv(w), Promise(w), RluInv(w)', Promise(w)', [ListNext]_allVars
             PROVE  Deferred!Next \/ UNCHANGED Deferred!vars
  OBVIOUS
<1>1. CASE UNCHANGED allVars
  <2>1. UNCHANGED <<vars, step, call, result, set, view, seen>>
    BY <1>1 DEF allVars, listVars, viewVars
  <2>2. UNCHANGED <<Backlog, Changed, Answers>>
    BY <2>1 DEF Backlog, Publishing, Changed, Answers
  <2> QED
    BY <2>1, <2>2 DEF Deferred!vars
<1>2. CASE ~UNCHANGED allVars
  <2>1. PICK u \in Threads : (StartOp(u) \/ Inside(u) \/ Finish(u)) /\ Notice
    BY <1>2 DEF ListNext
  <2> QED
    BY <2>1, MapDeferred
<1> QED
  BY <1>1, <1>2

LEMMA MapDeferredInit ==
    ASSUME NEW w \in Threads, Writers \subseteq {w}
    PROVE  ListInit => Deferred!Init
<1> SUFFICES ASSUME ListInit PROVE Deferred!Init
  OBVIOUS
<1>0. Init /\ RluInv(w) /\ LInv(w) /\ Promise(w)
  BY LInvInit, PromiseInit DEF ListInit
<1>1. /\ call = [t \in Threads |-> NULL] /\ step = [t \in Threads |-> "out"]
      /\ result = [t \in Threads |-> FALSE] /\ seen = [t \in Threads |-> {}]
  BY DEF ListInit
<1>2. /\ p_obj_copy = [o \in Objs |-> NULL]
      /\ data = [o \in Objs |-> {}] /\ committed = [o \in Objs |-> {}]
      /\ ws_tail_counter = [t \in Threads |-> 0] /\ ws_wb_counter = [t \in Threads |-> 0]
  BY <1>0 DEF Init
<1>3. Store = committed
  BY <1>2 DEF Store, Published
<1>4. set \in SUBSET Keys /\ view = [t \in Threads |-> set]
  <2>1. set = MembersOn(mem, Store) /\ view = [t \in Threads |-> MembersOn(mem, Seeing(w, t))]
    BY <1>0 DEF Promise, Observed
  <2>2. view = [t \in Threads |-> set]
    BY <1>3, <2>1 DEF Seeing
  <2>3. PICK S : IsList(mem, Store, S)
    BY <1>0 DEF LInv, Lists, Listed
  <2>4. set = KeysIn(mem, Store, S)
    BY <2>1, <2>3, MembersOnList
  <2>5. ASSUME NEW o \in Inner(S) PROVE Key(mem, Store, o) \in Keys
    BY <2>3, <2>5, InnerKeys
  <2> QED
    BY <2>2, <2>4, <2>5 DEF KeysIn
<1>5. /\ Backlog = [t \in Threads |-> 0] /\ Changed = [t \in Threads |-> FALSE]
      /\ Answers = [t \in Threads |-> FALSE]
  <2>1. Backlog = [t \in Threads |-> 0]
    <3>1. \A t \in Threads : ws_tail_counter[t] - ws_wb_counter[t] = 0
      BY <1>2
    <3> QED
      BY <3>1 DEF Backlog
  <2>2. Changed = [t \in Threads |-> FALSE]
    BY <1>1 DEF Changed
  <2>3. Answers = [t \in Threads |-> FALSE]
    BY <1>1 DEF Answers
  <2> QED
    BY <2>1, <2>2, <2>3
<1> QED
  BY <1>1, <1>4, <1>5 DEF Deferred!Init

\* rlu_list_contains, rlu_list_add and rlu_list_remove keep the promise of a set with
\* deferred updates, when one thread updates the list and any number search it: what a
\* call answers was true, for its thread, at an instant of the call, through walks of
\* half-written-back lists and stolen copies, failed locks and restarts; and the
\* updates reach the other threads all at once, before the call that would defer
\* max_write_sets of them returns.
THEOREM ListImplementsDeferredSet ==
    ASSUME NEW CONSTANT w, w \in Threads, Writers \subseteq {w}
    PROVE  ListSpec /\ []VersionsBelowMax => ImplementsDeferredSet
<1>1. /\ RluInv(w) /\ LInv(w) /\ Promise(w)
      /\ RluInv(w)' /\ Promise(w)' /\ [ListNext]_allVars
      => [Deferred!Next]_(Deferred!vars)
  BY MapDeferredStep
<1>2. ListInit => Deferred!Init
  BY MapDeferredInit
<1> QED
  BY <1>1, <1>2, PromiseInvariant, PTL DEF ListSpec, ImplementsDeferredSet, Deferred!Spec
=============================================================================
