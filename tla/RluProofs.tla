----------------------------- MODULE RluProofs -----------------------------
(***************************************************************************)
(* Theorems about Rlu, for any number of threads, objects, write-sets and  *)
(* sections, and both types of RLU.                                        *)
(***************************************************************************)
EXTENDS Rlu, TLAPS

-----------------------------------------------------------------------------
(* Type correctness.  A step leaves most groups of variables alone, and    *)
(* with them their part of TypeOK.                                         *)

\* The arguments of the call in progress are there when the call needs them.
CallTyped ==
    \A t \in Threads : pc[t] \in {"steal", "request", "cas", "copy"} =>
        cur_obj[t] \in Objs /\ cur_copy[t] \in Addr

TypeInv == TypeOK /\ CallTyped

LEMMA SlotIndex ==
    ASSUME NEW c \in Nat
    PROVE  WS_INDEX(c) \in Slots
BY WriteSetsAssumption DEF WS_INDEX, Slots

USE DEF vars, objVars, versionVars, joinVars, globalVars, peerVars, flagVars,
        counterVars, logVars, ownVars, syncVars, loopVars, ctlVars, callVars,
        ghostVars, clientVars

LEMMA SameGlobal == GlobalTypes /\ UNCHANGED globalVars => GlobalTypes'
BY DEF GlobalTypes

LEMMA SamePeer == PeerTypes /\ UNCHANGED peerVars => PeerTypes'
BY DEF PeerTypes

LEMMA SameOwn == OwnTypes /\ UNCHANGED ownVars => OwnTypes'
BY DEF OwnTypes

LEMMA SameControl == ControlTypes /\ UNCHANGED <<pc, ctlVars>> => ControlTypes'
BY DEF ControlTypes

LEMMA SameClient == ClientTypes /\ UNCHANGED clientVars => ClientTypes'
BY DEF ClientTypes

\* Threads that do not make a call keep the arguments of theirs.
LEMMA SameCall ==
    ASSUME CallTyped, ControlTypes, NEW t \in Threads, NEW label,
           Goto(t, label), label \notin {"steal", "request", "cas", "copy"},
           UNCHANGED callVars
    PROVE  CallTyped'
BY DEF CallTyped, ControlTypes, Goto

LEMMA AppendTyped ==
    ASSUME NEW S, NEW log \in [Threads -> [Slots -> Seq(S)]],
           NEW t \in Threads, NEW s \in Slots, NEW e \in S
    PROVE  [log EXCEPT ![t][s] = Append(@, e)] \in [Threads -> [Slots -> Seq(S)]]
<1>1. Append(log[t][s], e) \in Seq(S)
  OBVIOUS
<1> QED
  BY <1>1

LEMMA EmptyTyped ==
    ASSUME NEW S, NEW log \in [Threads -> [Slots -> Seq(S)]],
           NEW t \in Threads, NEW s
    PROVE  [log EXCEPT ![t][s] = <<>>] \in [Threads -> [Slots -> Seq(S)]]
<1>1. <<>> \in Seq(S)
  OBVIOUS
<1>2. [log[t] EXCEPT ![s] = <<>>] \in [Slots -> Seq(S)]
  BY <1>1
<1> QED
  BY <1>2

\* rlu_init and the initialisation of the first threads give every variable its type.
THEOREM TypeInit == Init => TypeInv
<1> SUFFICES ASSUME Init PROVE TypeInv
  OBVIOUS
<1> USE ThreadsAssumption, WriteSetsAssumption, ObjectsAssumption
<1>1. GlobalTypes
  BY DEF Init, GlobalTypes, Threads, Value
<1>2. PeerTypes
  BY DEF Init, PeerTypes, Threads
<1>3. OwnTypes
  BY DEF Init, OwnTypes, Threads, Slots
<1>4. ControlTypes
  BY DEF Init, ControlTypes, Threads, Labels, Returns
<1>5. ClientTypes
  BY DEF Init, ClientTypes, Threads, Value
<1>6. CallTyped
  BY DEF Init, CallTyped
<1>7. QED
  BY <1>1, <1>2, <1>3, <1>4, <1>5, <1>6 DEF TypeInv, TypeOK

-----------------------------------------------------------------------------
(* One lemma for each action that changes more than the control state. *)

LEMMA TypeThreadInit ==
    ASSUME TypeInv, NEW t \in Threads, ThreadInit(t)
    PROVE  TypeInv'
<1>1. PeerTypes' /\ OwnTypes' /\ ClientTypes'
  BY SamePeer, SameOwn, SameClient DEF TypeInv, TypeOK, ThreadInit
<1>2. GlobalTypes'
  BY ThreadsAssumption DEF TypeInv, TypeOK, GlobalTypes, Threads, ThreadInit
<1>3. ControlTypes'
  BY DEF TypeInv, TypeOK, ControlTypes, ThreadInit, Goto, Labels
<1>4. CallTyped'
  BY SameCall DEF TypeInv, TypeOK, ThreadInit
<1> QED
  BY <1>1, <1>2, <1>3, <1>4 DEF TypeInv, TypeOK

LEMMA TypeThreadPublish ==
    ASSUME TypeInv, NEW t \in Threads, ThreadPublish(t)
    PROVE  TypeInv'
<1>1. PeerTypes' /\ OwnTypes' /\ ClientTypes'
  BY SamePeer, SameOwn, SameClient DEF TypeInv, TypeOK, ThreadPublish
<1>2. GlobalTypes'
  BY DEF TypeInv, TypeOK, GlobalTypes, ThreadPublish
<1>3. ControlTypes'
  BY DEF TypeInv, TypeOK, ControlTypes, ThreadPublish, Goto, Labels
<1>4. CallTyped'
  BY SameCall DEF TypeInv, TypeOK, ThreadPublish
<1> QED
  BY <1>1, <1>2, <1>3, <1>4 DEF TypeInv, TypeOK

LEMMA TypeReaderLock ==
    ASSUME TypeInv, NEW t \in Threads, ReaderLock(t)
    PROVE  TypeInv'
<1>1. GlobalTypes' /\ PeerTypes' /\ OwnTypes'
  BY SameGlobal, SamePeer, SameOwn DEF TypeInv, TypeOK, ReaderLock
<1>2. ControlTypes'
  BY DEF TypeInv, TypeOK, ControlTypes, ReaderLock, Checkpoint, SyncCall,
     Goto, Labels, Returns
<1>3. ClientTypes'
  BY DEF TypeInv, TypeOK, ClientTypes, ReaderLock, Checkpoint, SyncCall
<1>4. CallTyped'
  BY SameCall DEF TypeInv, TypeOK, ReaderLock, Checkpoint, SyncCall
<1> QED
  BY <1>1, <1>2, <1>3, <1>4 DEF TypeInv, TypeOK

LEMMA TypeRegister ==
    ASSUME TypeInv, NEW t \in Threads, Register(t)
    PROVE  TypeInv'
<1>1. GlobalTypes' /\ ClientTypes'
  BY SameGlobal, SameClient DEF TypeInv, TypeOK, Register
<1>2. PeerTypes'
  BY DEF TypeInv, TypeOK, PeerTypes, Register
<1>3. OwnTypes'
  BY DEF TypeInv, TypeOK, OwnTypes, Register
<1>4. ControlTypes'
  BY DEF TypeInv, TypeOK, ControlTypes, Register, Goto, Labels
<1>5. CallTyped'
  BY SameCall DEF TypeInv, TypeOK, Register
<1> QED
  BY <1>1, <1>2, <1>3, <1>4, <1>5 DEF TypeInv, TypeOK

LEMMA PublishedTyped ==
    ASSUME TypeOK, NEW o \in Objs
    PROVE  Published(o) \in Value
<1> DEFINE c == p_obj_copy[o]
<1>1. data[o] \in Value /\ c \in Addr \cup {NULL}
  BY DEF TypeOK, GlobalTypes
<1>2. ASSUME c # NULL, Complete(c) PROVE At(c).val \in Value
  <2>1. obj_write_set[c.th][c.ws] \in Seq(Entry)
    BY <1>1, <1>2 DEF TypeOK, OwnTypes, Addr
  <2>2. At(c) \in Entry
    BY <2>1, <1>2 DEF Complete, At
  <2> QED
    BY <2>2 DEF Entry
<1> QED
  BY <1>1, <1>2 DEF Published

LEMMA TypeReadVersion ==
    ASSUME TypeInv, NEW t \in Threads, ReadVersion(t)
    PROVE  TypeInv'
<1>1. GlobalTypes' /\ OwnTypes'
  BY SameGlobal, SameOwn DEF TypeInv, TypeOK, ReadVersion
<1>2. PeerTypes'
  BY DEF TypeInv, TypeOK, PeerTypes, GlobalTypes, ReadVersion
<1>3. ControlTypes'
  BY DEF TypeInv, TypeOK, ControlTypes, ReadVersion, Goto, Labels
<1>4. ClientTypes'
  BY PublishedTyped DEF TypeInv, TypeOK, ClientTypes, ReadVersion
<1>5. CallTyped'
  BY SameCall DEF TypeInv, TypeOK, ReadVersion
<1> QED
  BY <1>1, <1>2, <1>3, <1>4, <1>5 DEF TypeInv, TypeOK

LEMMA TypeReadCommitVersion ==
    ASSUME TypeInv, NEW t \in Threads, ReadCommitVersion(t)
    PROVE  TypeInv'
<1>1. GlobalTypes' /\ PeerTypes' /\ ClientTypes'
  BY SameGlobal, SamePeer, SameClient DEF TypeInv, TypeOK, ReadCommitVersion
<1>2. OwnTypes'
  BY DEF TypeInv, TypeOK, OwnTypes, ReadCommitVersion
<1>3. ControlTypes'
  BY DEF TypeInv, TypeOK, ControlTypes, ReadCommitVersion, Goto, Labels
<1>4. CallTyped'
  BY SameCall DEF TypeInv, TypeOK, ReadCommitVersion
<1> QED
  BY <1>1, <1>2, <1>3, <1>4 DEF TypeInv, TypeOK

LEMMA TypeDeref ==
    ASSUME TypeInv, NEW t \in Threads, NEW o \in Objs, Deref(t, o)
    PROVE  TypeInv'
<1>1. GlobalTypes' /\ PeerTypes' /\ OwnTypes' /\ ControlTypes'
  BY SameGlobal, SamePeer, SameOwn, SameControl DEF TypeInv, TypeOK, Deref
<1>2. ClientTypes'
  BY DEF TypeInv, TypeOK, ClientTypes, GlobalTypes, Ptr, Got, Deref
<1>3. CallTyped'
  BY DEF TypeInv, TypeOK, CallTyped, ControlTypes, Deref
<1> QED
  BY <1>1, <1>2, <1>3 DEF TypeInv, TypeOK

LEMMA TypeDerefLocked ==
    ASSUME TypeInv, NEW t \in Threads, NEW o \in Objs, DerefLocked(t, o)
    PROVE  TypeInv'
<1>1. GlobalTypes' /\ PeerTypes' /\ OwnTypes'
  BY SameGlobal, SamePeer, SameOwn DEF TypeInv, TypeOK, DerefLocked
<1>2. ControlTypes'
  BY DEF TypeInv, TypeOK, ControlTypes, DerefLocked, Goto, Labels
<1>3. ClientTypes'
  BY DEF TypeInv, TypeOK, ClientTypes, GlobalTypes, DerefLocked
<1>4. CallTyped'
  BY DEF TypeInv, TypeOK, CallTyped, ControlTypes, GlobalTypes, ClientTypes,
     DerefLocked, Goto
<1> QED
  BY <1>1, <1>2, <1>3, <1>4 DEF TypeInv, TypeOK

LEMMA TypeSteal ==
    ASSUME TypeInv, NEW t \in Threads, Steal(t)
    PROVE  TypeInv'
<1>1. GlobalTypes' /\ PeerTypes' /\ OwnTypes'
  BY SameGlobal, SamePeer, SameOwn DEF TypeInv, TypeOK, Steal
<1>2. ControlTypes'
  BY DEF TypeInv, TypeOK, ControlTypes, Steal, Goto, Labels
<1>3. ClientTypes'
  BY DEF TypeInv, TypeOK, ClientTypes, CallTyped, Got, EndCall, Ptr, Steal
<1>4. CallTyped'
  BY DEF TypeInv, TypeOK, CallTyped, ControlTypes, Steal, Goto, EndCall
<1> QED
  BY <1>1, <1>2, <1>3, <1>4 DEF TypeInv, TypeOK

LEMMA TypeTryWriterLock ==
    ASSUME TypeInv, NEW t \in Threads, NEW l \in WriterLocks, TryWriterLock(t, l)
    PROVE  TypeInv'
<1>1. PeerTypes' /\ ClientTypes'
  BY SamePeer, SameClient DEF TypeInv, TypeOK, TryWriterLock
<1>2. GlobalTypes'
  BY DEF TypeInv, TypeOK, GlobalTypes, TryWriterLock
<1>3. OwnTypes'
  <2>1. WsCurId(t) \in Slots
    BY SlotIndex DEF TypeInv, TypeOK, OwnTypes, WsCurId
  <2>2. ws_writer_locks' \in [Threads -> [Slots -> Seq(WriterLocks)]]
    <3>1. CASE g_rlu_writer_locks[l] = NULL
      <4>1. ws_writer_locks' = [ws_writer_locks EXCEPT ![t][WsCurId(t)] = Append(@, l)]
        BY <3>1 DEF TryWriterLock
      <4> QED
        BY <2>1, <4>1, AppendTyped DEF TypeInv, TypeOK, OwnTypes
    <3>2. CASE g_rlu_writer_locks[l] # NULL
      BY <3>2 DEF TypeInv, TypeOK, OwnTypes, TryWriterLock
    <3> QED
      BY <3>1, <3>2
  <2> QED
    BY <2>2 DEF TypeInv, TypeOK, OwnTypes, TryWriterLock
<1>4. ControlTypes'
  BY DEF TypeInv, TypeOK, ControlTypes, TryWriterLock, Goto, Labels
<1>5. CallTyped'
  BY DEF TypeInv, TypeOK, CallTyped, ControlTypes, TryWriterLock, Goto
<1> QED
  BY <1>1, <1>2, <1>3, <1>4, <1>5 DEF TypeInv, TypeOK

LEMMA TypeTryLockOwn ==
    ASSUME TypeInv, NEW t \in Threads, NEW o \in Objs, TryLockOwn(t, o)
    PROVE  TypeInv'
<1>1. GlobalTypes' /\ PeerTypes' /\ OwnTypes' /\ ControlTypes'
  BY SameGlobal, SamePeer, SameOwn, SameControl DEF TypeInv, TypeOK, TryLockOwn
<1>2. ClientTypes'
  BY DEF TypeInv, TypeOK, ClientTypes, GlobalTypes, Ptr, Got, TryLockOwn
<1>3. CallTyped'
  BY DEF TypeInv, TypeOK, CallTyped, ControlTypes, TryLockOwn
<1> QED
  BY <1>1, <1>2, <1>3 DEF TypeInv, TypeOK

LEMMA TypeTryLockFail ==
    ASSUME TypeInv, NEW t \in Threads, NEW o \in Objs, TryLockFail(t, o)
    PROVE  TypeInv'
<1>1. GlobalTypes' /\ OwnTypes'
  BY SameGlobal, SameOwn DEF TypeInv, TypeOK, TryLockFail
<1>2. PeerTypes'
  BY DEF TypeInv, TypeOK, PeerTypes, TryLockFail
<1>3. ControlTypes'
  BY DEF TypeInv, TypeOK, ControlTypes, TryLockFail, Goto, Labels
<1>4. ClientTypes'
  BY DEF TypeInv, TypeOK, ClientTypes, GlobalTypes, TryLockFail
<1>5. CallTyped'
  BY DEF TypeInv, TypeOK, CallTyped, ControlTypes, GlobalTypes, ClientTypes,
     TryLockFail, Goto
<1> QED
  BY <1>1, <1>2, <1>3, <1>4, <1>5 DEF TypeInv, TypeOK

LEMMA TypeSendSyncRequest ==
    ASSUME TypeInv, NEW t \in Threads, SendSyncRequest(t)
    PROVE  TypeInv'
<1>1. GlobalTypes' /\ OwnTypes'
  BY SameGlobal, SameOwn DEF TypeInv, TypeOK, SendSyncRequest
<1>2. PeerTypes'
  BY DEF TypeInv, TypeOK, PeerTypes, SendSyncRequest
<1>3. ControlTypes'
  BY DEF TypeInv, TypeOK, ControlTypes, SendSyncRequest, Goto, Labels
<1>4. ClientTypes'
  BY DEF TypeInv, TypeOK, ClientTypes, SendSyncRequest, EndCall
<1>5. CallTyped'
  BY DEF TypeInv, TypeOK, CallTyped, ControlTypes, SendSyncRequest, Goto, EndCall
<1> QED
  BY <1>1, <1>2, <1>3, <1>4, <1>5 DEF TypeInv, TypeOK

LEMMA NextCopyTyped ==
    ASSUME TypeOK, NEW t \in Threads
    PROVE  NextCopy(t) \in Addr
<1>1. WsCurId(t) \in Slots
  BY SlotIndex DEF TypeOK, OwnTypes, WsCurId
<1>2. Len(WriteSet(t, ws_tail_counter[t])) \in Nat
  BY <1>1 DEF TypeOK, OwnTypes, WriteSet, WsCurId
<1> QED
  BY <1>1, <1>2 DEF NextCopy, Addr

LEMMA TypeTryLock ==
    ASSUME TypeInv, NEW t \in Threads, NEW o \in Objs, TryLock(t, o)
    PROVE  TypeInv'
<1>1. GlobalTypes' /\ PeerTypes'
  BY SameGlobal, SamePeer DEF TypeInv, TypeOK, TryLock
<1>2. OwnTypes'
  BY DEF TypeInv, TypeOK, OwnTypes, TryLock
<1>3. ControlTypes'
  BY DEF TypeInv, TypeOK, ControlTypes, TryLock, Goto, Labels
<1>4. ClientTypes'
  BY NextCopyTyped DEF TypeInv, TypeOK, ClientTypes, TryLock
<1>5. CallTyped'
  BY NextCopyTyped DEF TypeInv, TypeOK, CallTyped, ControlTypes, ClientTypes,
     TryLock, Goto
<1> QED
  BY <1>1, <1>2, <1>3, <1>4, <1>5 DEF TypeInv, TypeOK

LEMMA TypeTryLockCas ==
    ASSUME TypeInv, NEW t \in Threads, TryLockCas(t)
    PROVE  TypeInv'
<1>1. PeerTypes' /\ OwnTypes'
  BY SamePeer, SameOwn DEF TypeInv, TypeOK, TryLockCas
<1>2. GlobalTypes'
  BY DEF TypeInv, TypeOK, GlobalTypes, ClientTypes, CallTyped, TryLockCas
<1>3. ControlTypes'
  BY DEF TypeInv, TypeOK, ControlTypes, TryLockCas, Goto, Labels
<1>4. ClientTypes'
  BY DEF TypeInv, TypeOK, ClientTypes, EndCall, TryLockCas
<1>5. CallTyped'
  <2>0. /\ pc \in [Threads -> Labels] /\ cur_obj \in [Threads -> Objs \cup {NULL}]
        /\ cur_copy \in [Threads -> Addr \cup {NULL}] /\ CallTyped
    BY DEF TypeInv, TypeOK, ControlTypes, ClientTypes
  <2>1. CASE pc' = [pc EXCEPT ![t] = "copy"] /\ pc[t] = "cas" /\ UNCHANGED callVars
    BY <2>0, <2>1 DEF CallTyped
  <2>2. CASE pc' = [pc EXCEPT ![t] = "failed"] /\ EndCall(t)
    BY <2>0, <2>2 DEF CallTyped, EndCall
  <2> QED
    BY <2>1, <2>2 DEF TryLockCas, Goto
<1> QED
  BY <1>1, <1>2, <1>3, <1>4, <1>5 DEF TypeInv, TypeOK

LEMMA TypeTryLockCopy ==
    ASSUME TypeInv, NEW t \in Threads, TryLockCopy(t)
    PROVE  TypeInv'
<1>1. GlobalTypes' /\ PeerTypes'
  BY SameGlobal, SamePeer DEF TypeInv, TypeOK, TryLockCopy
<1>2. OwnTypes'
  <2> DEFINE e == [obj |-> cur_obj[t], val |-> data[cur_obj[t]] \cup {<<t, n_starts[t]>>},
                   run |-> run_counter[t]]
  <2>1. cur_obj[t] \in Objs
    BY DEF TypeInv, CallTyped, TryLockCopy
  <2>2. n_starts[t] \in Nat /\ run_counter[t] \in Nat
    BY DEF TypeInv, TypeOK, PeerTypes, ClientTypes
  <2>3. data[cur_obj[t]] \cup {<<t, n_starts[t]>>} \in Value
    BY <2>1, <2>2 DEF TypeInv, TypeOK, GlobalTypes, Value
  <2>4. e \in Entry
    BY <2>1, <2>2, <2>3 DEF Entry
  <2>5. WsCurId(t) \in Slots
    BY SlotIndex DEF TypeInv, TypeOK, OwnTypes, WsCurId
  <2>6. obj_write_set' = [obj_write_set EXCEPT ![t][WsCurId(t)] = Append(@, e)]
    BY DEF TryLockCopy
  <2> HIDE DEF e
  <2>7. obj_write_set' \in [Threads -> [Slots -> Seq(Entry)]]
    BY <2>4, <2>5, <2>6, AppendTyped DEF TypeInv, TypeOK, OwnTypes
  <2> QED
    BY <2>7 DEF TypeInv, TypeOK, OwnTypes, TryLockCopy
<1>3. ControlTypes'
  BY DEF TypeInv, TypeOK, ControlTypes, TryLockCopy, Goto, Labels
<1>4. ClientTypes'
  BY DEF TypeInv, TypeOK, ClientTypes, CallTyped, Got, EndCall, Ptr, TryLockCopy
<1>5. CallTyped'
  BY DEF TypeInv, TypeOK, CallTyped, ControlTypes, TryLockCopy, Goto, EndCall
<1> QED
  BY <1>1, <1>2, <1>3, <1>4, <1>5 DEF TypeInv, TypeOK

LEMMA TypeReaderUnlock ==
    ASSUME TypeInv, NEW t \in Threads, ReaderUnlock(t)
    PROVE  TypeInv'
<1>1. GlobalTypes' /\ OwnTypes'
  BY SameGlobal, SameOwn DEF TypeInv, TypeOK, ReaderUnlock
<1>2. PeerTypes'
  BY DEF TypeInv, TypeOK, PeerTypes, LeaveSection, ReaderUnlock
<1>3. ControlTypes'
  BY DEF TypeInv, TypeOK, ControlTypes, ReaderUnlock, Goto, Labels
<1>4. ClientTypes'
  BY DEF TypeInv, TypeOK, ClientTypes, LeaveSection, Value, ReaderUnlock
<1>5. CallTyped'
  BY SameCall DEF TypeInv, TypeOK, ReaderUnlock
<1> QED
  BY <1>1, <1>2, <1>3, <1>4, <1>5 DEF TypeInv, TypeOK

LEMMA TypeCommitUnlock ==
    ASSUME TypeInv, NEW t \in Threads, CommitUnlock(t)
    PROVE  TypeInv'
<1>1. GlobalTypes'
  BY SameGlobal DEF TypeInv, TypeOK, CommitUnlock
<1>2. PeerTypes'
  BY DEF TypeInv, TypeOK, PeerTypes, LeaveSection, CommitUnlock, SyncCall
<1>3. OwnTypes'
  BY DEF TypeInv, TypeOK, OwnTypes, CommitUnlock, SyncCall
<1>4. ControlTypes'
  BY DEF TypeInv, TypeOK, ControlTypes, CommitUnlock, SyncCall, Goto, Labels,
     Returns
<1>5. ClientTypes'
  <2>1. \A o \in Objs : (committed[o] \cup
               IF o \in Updated(t) THEN {<<t, n_starts[t]>>} ELSE {}) \in Value
    BY DEF TypeInv, TypeOK, ClientTypes, Value
  <2> QED
    BY <2>1 DEF TypeInv, TypeOK, ClientTypes, CommitUnlock, LeaveSection, Value
<1>6. CallTyped'
  BY SameCall DEF TypeInv, TypeOK, CommitUnlock, SyncCall
<1> QED
  BY <1>1, <1>2, <1>3, <1>4, <1>5, <1>6 DEF TypeInv, TypeOK

LEMMA TypeReleaseWriterLock ==
    ASSUME TypeInv, NEW t \in Threads, ReleaseWriterLock(t)
    PROVE  TypeInv'
<1>1. PeerTypes' /\ OwnTypes' /\ ClientTypes'
  BY SamePeer, SameOwn, SameClient DEF TypeInv, TypeOK, ReleaseWriterLock
<1>2. GlobalTypes'
  BY DEF TypeInv, TypeOK, GlobalTypes, ReleaseWriterLock
<1>3. ControlTypes'
  BY DEF TypeInv, TypeOK, ControlTypes, ReleaseWriterLock, Goto, Labels
<1>4. CallTyped'
  BY DEF TypeInv, TypeOK, CallTyped, ReleaseWriterLock
<1> QED
  BY <1>1, <1>2, <1>3, <1>4 DEF TypeInv, TypeOK

LEMMA TypeReleaseEnd ==
    ASSUME TypeInv, NEW t \in Threads, ReleaseEnd(t)
    PROVE  TypeInv'
<1>1. GlobalTypes' /\ PeerTypes' /\ ClientTypes'
  BY SameGlobal, SamePeer, SameClient DEF TypeInv, TypeOK, ReleaseEnd
<1>2. OwnTypes'
  <2>1. CASE pc[t] = "release_cur"
    <3> DEFINE s == ReleaseSlot(t)
    <3>1. /\ obj_write_set' = [obj_write_set EXCEPT ![t][s] = <<>>]
          /\ ws_writer_locks' = [ws_writer_locks EXCEPT ![t][s] = <<>>]
      BY <2>1 DEF ReleaseEnd
    <3>2. /\ obj_write_set' \in [Threads -> [Slots -> Seq(Entry)]]
          /\ ws_writer_locks' \in [Threads -> [Slots -> Seq(WriterLocks)]]
      BY <3>1, EmptyTyped DEF TypeInv, TypeOK, OwnTypes
    <3> QED
      BY <3>2 DEF TypeInv, TypeOK, OwnTypes, ReleaseEnd
  <2>2. CASE pc[t] # "release_cur"
    BY <2>2, SameOwn DEF TypeInv, TypeOK, ReleaseEnd
  <2> QED
    BY <2>1, <2>2
<1>3. ControlTypes'
  BY DEF TypeInv, TypeOK, ControlTypes, ReleaseEnd, Checkpoint, SyncCall,
     Goto, Labels, Returns
<1>4. CallTyped'
  BY SameCall DEF TypeInv, TypeOK, ReleaseEnd, Checkpoint, SyncCall
<1> QED
  BY <1>1, <1>2, <1>3, <1>4 DEF TypeInv, TypeOK

LEMMA TypeAbort ==
    ASSUME TypeInv, NEW t \in Threads, Abort(t)
    PROVE  TypeInv'
<1>1. GlobalTypes'
  BY SameGlobal DEF TypeInv, TypeOK, Abort
<1>2. PeerTypes'
  BY DEF TypeInv, TypeOK, PeerTypes, LeaveSection, Abort
<1>3. OwnTypes'
  BY DEF TypeInv, TypeOK, OwnTypes, Abort
<1>4. ControlTypes'
  BY DEF TypeInv, TypeOK, ControlTypes, Abort, Goto, Labels
<1>5. ClientTypes'
  BY DEF TypeInv, TypeOK, ClientTypes, LeaveSection, Value, Abort
<1>6. CallTyped'
  BY SameCall DEF TypeInv, TypeOK, Abort
<1> QED
  BY <1>1, <1>2, <1>3, <1>4, <1>5, <1>6 DEF TypeInv, TypeOK

LEMMA TypeUnlockObjs ==
    ASSUME TypeInv, NEW t \in Threads, UnlockObjs(t)
    PROVE  TypeInv'
<1>1. PeerTypes' /\ OwnTypes' /\ ClientTypes'
  BY SamePeer, SameOwn, SameClient DEF TypeInv, TypeOK, UnlockObjs
<1>2. GlobalTypes'
  BY DEF TypeInv, TypeOK, GlobalTypes, UnlockObjs
<1>3. ControlTypes'
  <2> DEFINE more == i[t] < Len(WriteSet(t, ws_tail_counter[t]))
  <2>1. CASE more
    BY <2>1 DEF TypeInv, TypeOK, ControlTypes, UnlockObjs
  <2>2. CASE ~more
    <3>1. i' = [i EXCEPT ![t] = 0] /\ pc' = [pc EXCEPT ![t] = "release_cur"]
      BY <2>2 DEF UnlockObjs, Goto
    <3> QED
      BY <3>1 DEF TypeInv, TypeOK, ControlTypes, UnlockObjs, Labels
  <2> QED
    BY <2>1, <2>2
<1>4. CallTyped'
  BY DEF TypeInv, TypeOK, CallTyped, ControlTypes, UnlockObjs, Goto
<1> QED
  BY <1>1, <1>2, <1>3, <1>4 DEF TypeInv, TypeOK

LEMMA TypeSyncLoad ==
    ASSUME TypeInv, NEW t \in Threads, SyncLoad(t)
    PROVE  TypeInv'
<1>1. GlobalTypes' /\ PeerTypes' /\ OwnTypes' /\ ClientTypes'
  BY SameGlobal, SamePeer, SameOwn, SameClient DEF TypeInv, TypeOK, SyncLoad
<1>2. ControlTypes'
  BY DEF TypeInv, TypeOK, ControlTypes, GlobalTypes, SyncLoad, Goto, Labels
<1>3. CallTyped'
  BY SameCall DEF TypeInv, TypeOK, SyncLoad
<1> QED
  BY <1>1, <1>2, <1>3 DEF TypeInv, TypeOK

LEMMA TypeSyncStore ==
    ASSUME TypeInv, NEW t \in Threads, SyncStore(t)
    PROVE  TypeInv'
<1>1. GlobalTypes' /\ OwnTypes' /\ ClientTypes'
  BY SameGlobal, SameOwn, SameClient DEF TypeInv, TypeOK, SyncStore
<1>2. PeerTypes'
  BY DEF TypeInv, TypeOK, PeerTypes, ControlTypes, SyncStore
<1>3. ControlTypes'
  BY DEF TypeInv, TypeOK, ControlTypes, SyncStore, Goto, Labels
<1>4. CallTyped'
  BY SameCall DEF TypeInv, TypeOK, SyncStore
<1> QED
  BY <1>1, <1>2, <1>3, <1>4 DEF TypeInv, TypeOK

LEMMA TypeSyncBump ==
    ASSUME TypeInv, NEW t \in Threads, SyncBump(t)
    PROVE  TypeInv'
<1>1. PeerTypes' /\ OwnTypes' /\ ClientTypes'
  BY SamePeer, SameOwn, SameClient DEF TypeInv, TypeOK, SyncBump
<1>2. GlobalTypes'
  BY DEF TypeInv, TypeOK, GlobalTypes, SyncBump
<1>3. ControlTypes'
  BY DEF TypeInv, TypeOK, ControlTypes, SyncBump, Goto, Labels
<1>4. CallTyped'
  BY SameCall DEF TypeInv, TypeOK, SyncBump
<1> QED
  BY <1>1, <1>2, <1>3, <1>4 DEF TypeInv, TypeOK

LEMMA TypeScan ==
    ASSUME TypeInv, NEW t \in Threads, Scan(t)
    PROVE  TypeInv'
<1>1. GlobalTypes' /\ PeerTypes' /\ OwnTypes' /\ ClientTypes'
  BY SameGlobal, SamePeer, SameOwn, SameClient DEF TypeInv, TypeOK, Scan
<1>2. ControlTypes'
  <2> DEFINE u == i[t]
             q == IF u # t /\ u \in g_rlu_threads /\ run_counter[u] % 2 = 1
                  THEN run_counter[u] ELSE 0
  <2>1. q \in Nat
    BY DEF TypeInv, TypeOK, GlobalTypes, PeerTypes
  <2>2. q_threads' = [q_threads EXCEPT ![t][u] = q]
    BY DEF Scan
  <2> HIDE DEF q
  <2>3. q_threads' \in [Threads -> [Threads -> Nat]]
    BY <2>1, <2>2 DEF TypeInv, TypeOK, ControlTypes
  <2> QED
    BY <2>3 DEF TypeInv, TypeOK, ControlTypes, Scan
<1>3. CallTyped'
  BY DEF TypeInv, TypeOK, CallTyped, Scan
<1> QED
  BY <1>1, <1>2, <1>3 DEF TypeInv, TypeOK

LEMMA TypeScanEnd ==
    ASSUME TypeInv, NEW t \in Threads, ScanEnd(t)
    PROVE  TypeInv'
<1>1. GlobalTypes' /\ PeerTypes' /\ OwnTypes' /\ ClientTypes'
  BY SameGlobal, SamePeer, SameOwn, SameClient DEF TypeInv, TypeOK, ScanEnd
<1>2. ControlTypes'
  BY DEF TypeInv, TypeOK, ControlTypes, ScanEnd, Goto, Labels
<1>3. CallTyped'
  BY SameCall DEF TypeInv, TypeOK, ScanEnd
<1> QED
  BY <1>1, <1>2, <1>3 DEF TypeInv, TypeOK

LEMMA TypeWait ==
    ASSUME TypeInv, NEW t \in Threads, Wait(t)
    PROVE  TypeInv'
<1>1. GlobalTypes' /\ PeerTypes' /\ OwnTypes' /\ ClientTypes'
  BY SameGlobal, SamePeer, SameOwn, SameClient DEF TypeInv, TypeOK, Wait
<1>2. ControlTypes'
  BY DEF TypeInv, TypeOK, ControlTypes, Wait, Goto, Labels
<1>3. CallTyped'
  BY SameCall DEF TypeInv, TypeOK, Wait
<1> QED
  BY <1>1, <1>2, <1>3 DEF TypeInv, TypeOK

LEMMA TypeResetWriteSets ==
    ASSUME TypeInv, NEW t \in Threads, ResetWriteSets(t)
    PROVE  TypeInv'
<1>1. GlobalTypes' /\ PeerTypes' /\ ClientTypes'
  BY SameGlobal, SamePeer, SameClient DEF TypeInv, TypeOK, ResetWriteSets
<1>2. OwnTypes'
  BY DEF TypeInv, TypeOK, OwnTypes, ResetWriteSets
<1>3. ControlTypes'
  BY DEF TypeInv, TypeOK, ControlTypes, OwnTypes, ResetWriteSets, Goto, Labels
<1>4. CallTyped'
  BY SameCall DEF TypeInv, TypeOK, ResetWriteSets
<1> QED
  BY <1>1, <1>2, <1>3, <1>4 DEF TypeInv, TypeOK

LEMMA TypeWriteback ==
    ASSUME TypeInv, NEW t \in Threads, Writeback(t)
    PROVE  TypeInv'
<1>1. PeerTypes' /\ OwnTypes' /\ ClientTypes'
  BY SamePeer, SameOwn, SameClient DEF TypeInv, TypeOK, Writeback
<1>2. GlobalTypes'
  <2> DEFINE ws == WriteSet(t, ws_counter[t])
             e  == ws[i[t] + 1]
  <2>1. ws_counter[t] \in Nat /\ i[t] \in Nat
    BY DEF TypeInv, TypeOK, ControlTypes
  <2>2. ws \in Seq(Entry)
    BY <2>1, SlotIndex DEF TypeInv, TypeOK, OwnTypes, WriteSet
  <2>3. e \in Entry
    BY <2>1, <2>2 DEF Writeback
  <2>4. data' = [data EXCEPT ![e.obj] = e.val]
    BY DEF Writeback
  <2>5. e.val \in Value
    BY <2>3 DEF Entry
  <2> HIDE DEF e
  <2> QED
    BY <2>4, <2>5 DEF TypeInv, TypeOK, GlobalTypes, Writeback
<1>3. ControlTypes'
  BY DEF TypeInv, TypeOK, ControlTypes, Writeback, Goto, Labels
<1>4. CallTyped'
  BY SameCall DEF TypeInv, TypeOK, Writeback
<1> QED
  BY <1>1, <1>2, <1>3, <1>4 DEF TypeInv, TypeOK

LEMMA TypeUnlock ==
    ASSUME TypeInv, NEW t \in Threads, Unlock(t)
    PROVE  TypeInv'
<1>1. PeerTypes' /\ OwnTypes' /\ ClientTypes'
  BY SamePeer, SameOwn, SameClient DEF TypeInv, TypeOK, Unlock
<1>2. GlobalTypes'
  BY DEF TypeInv, TypeOK, GlobalTypes, Unlock
<1>3. ControlTypes'
  BY DEF TypeInv, TypeOK, ControlTypes, Unlock, Goto, Labels
<1>4. CallTyped'
  BY SameCall DEF TypeInv, TypeOK, Unlock
<1> QED
  BY <1>1, <1>2, <1>3, <1>4 DEF TypeInv, TypeOK

LEMMA TypeSyncUnstamp ==
    ASSUME TypeInv, NEW t \in Threads, SyncUnstamp(t)
    PROVE  TypeInv'
<1>1. GlobalTypes' /\ ClientTypes'
  BY SameGlobal, SameClient DEF TypeInv, TypeOK, SyncUnstamp
<1>2. PeerTypes'
  BY ObjectsAssumption DEF TypeInv, TypeOK, PeerTypes, SyncUnstamp
<1>3. OwnTypes'
  BY DEF TypeInv, TypeOK, OwnTypes, SyncUnstamp
<1>4. ControlTypes'
  BY DEF TypeInv, TypeOK, ControlTypes, SyncUnstamp, Goto, Labels
<1>5. CallTyped'
  BY SameCall DEF TypeInv, TypeOK, SyncUnstamp
<1> QED
  BY <1>1, <1>2, <1>3, <1>4, <1>5 DEF TypeInv, TypeOK

LEMMA TypeSyncCommit ==
    ASSUME TypeInv, NEW t \in Threads, SyncCommit(t)
    PROVE  TypeInv'
<1>1. PeerTypes' /\ OwnTypes' /\ ClientTypes'
  BY SamePeer, SameOwn, SameClient DEF TypeInv, TypeOK, SyncCommit
<1>2. GlobalTypes'
  BY DEF TypeInv, TypeOK, GlobalTypes, SyncCommit
<1>3. ControlTypes'
  BY DEF TypeInv, TypeOK, ControlTypes, SyncCommit, Goto, Labels
<1>4. CallTyped'
  BY SameCall DEF TypeInv, TypeOK, SyncCommit
<1> QED
  BY <1>1, <1>2, <1>3, <1>4 DEF TypeInv, TypeOK

LEMMA TypeSyncEnd ==
    ASSUME TypeInv, NEW t \in Threads, SyncEnd(t)
    PROVE  TypeInv'
<1>1. GlobalTypes' /\ OwnTypes' /\ ClientTypes'
  BY SameGlobal, SameOwn, SameClient DEF TypeInv, TypeOK, SyncEnd
<1>2. PeerTypes'
  BY DEF TypeInv, TypeOK, PeerTypes, SyncEnd
<1>3. ControlTypes'
  BY DEF TypeInv, TypeOK, ControlTypes, Returns, SyncEnd, Goto, Labels
<1>4. CallTyped'
  BY DEF TypeInv, TypeOK, CallTyped, ControlTypes, SyncEnd, Goto, Returns
<1> QED
  BY <1>1, <1>2, <1>3, <1>4 DEF TypeInv, TypeOK

LEMMA TypeSyncCheckpoint ==
    ASSUME TypeInv, NEW t \in Threads, SyncCheckpoint(t)
    PROVE  TypeInv'
<1>1. GlobalTypes' /\ PeerTypes' /\ OwnTypes' /\ ClientTypes'
  BY SameGlobal, SamePeer, SameOwn, SameClient DEF TypeInv, TypeOK,
     SyncCheckpoint
<1>2. ControlTypes'
  <2>1. ControlTypes /\ UNCHANGED <<stamp, q_threads, loopVars>>
    BY DEF TypeInv, TypeOK, SyncCheckpoint
  <2>2. pc' = [pc EXCEPT ![t] = "idle"] \/ pc' = [pc EXCEPT ![t] = "load"]
    BY DEF SyncCheckpoint, Checkpoint, SyncCall, Goto
  <2>3. ret' = ret \/ ret' = [ret EXCEPT ![t] = "idle"]
    BY DEF SyncCheckpoint, Checkpoint, SyncCall
  <2> QED
    BY <2>1, <2>2, <2>3 DEF ControlTypes, Labels, Returns
<1>3. CallTyped'
  BY SameCall DEF TypeInv, TypeOK, SyncCheckpoint, Checkpoint, SyncCall
<1> QED
  BY <1>1, <1>2, <1>3 DEF TypeInv, TypeOK

LEMMA TypeThreadFinish ==
    ASSUME TypeInv, NEW t \in Threads, ThreadFinish(t)
    PROVE  TypeInv'
<1>1. GlobalTypes' /\ PeerTypes' /\ OwnTypes' /\ ClientTypes'
  BY SameGlobal, SamePeer, SameOwn, SameClient DEF TypeInv, TypeOK, ThreadFinish
<1>2. ControlTypes'
  BY DEF TypeInv, TypeOK, ControlTypes, ThreadFinish, SyncCall, Goto, Labels,
     Returns
<1>3. CallTyped'
  BY SameCall DEF TypeInv, TypeOK, ThreadFinish, SyncCall
<1> QED
  BY <1>1, <1>2, <1>3 DEF TypeInv, TypeOK

LEMMA TypeThreadFinish2 ==
    ASSUME TypeInv, NEW t \in Threads, ThreadFinish2(t)
    PROVE  TypeInv'
<1>1. GlobalTypes' /\ PeerTypes' /\ OwnTypes' /\ ClientTypes'
  BY SameGlobal, SamePeer, SameOwn, SameClient DEF TypeInv, TypeOK,
     ThreadFinish2
<1>2. ControlTypes'
  BY DEF TypeInv, TypeOK, ControlTypes, ThreadFinish2, SyncCall, Goto, Labels,
     Returns
<1>3. CallTyped'
  BY SameCall DEF TypeInv, TypeOK, ThreadFinish2, SyncCall
<1> QED
  BY <1>1, <1>2, <1>3 DEF TypeInv, TypeOK

\* Every step of the library keeps the types, and what a call in progress has in
\* hand: rlu_try_lock and the slow path of the deref write through it.
THEOREM TypeStep == TypeInv /\ [Next]_vars => TypeInv'
<1> SUFFICES ASSUME TypeInv, [Next]_vars PROVE TypeInv'
  OBVIOUS
<1>1. CASE UNCHANGED vars \/ Terminated
  BY <1>1, SameGlobal, SamePeer, SameOwn, SameControl, SameClient DEF TypeInv,
     TypeOK, CallTyped, Terminated
<1>2. ASSUME NEW t \in Threads, Begin(t) PROVE TypeInv'
  BY <1>2, TypeReaderLock, TypeRegister, TypeReadVersion,
     TypeReadCommitVersion DEF Begin
<1>3. ASSUME NEW t \in Threads, Access(t) PROVE TypeInv'
  BY <1>3, TypeSteal, TypeTryLockCas, TypeTryLockCopy, TypeDeref,
     TypeDerefLocked, TypeTryLock, TypeTryLockOwn, TypeTryLockFail,
     TypeSendSyncRequest, TypeTryWriterLock DEF Access
<1>4. ASSUME NEW t \in Threads, End(t) PROVE TypeInv'
  BY <1>4, TypeReaderUnlock, TypeCommitUnlock, TypeAbort, TypeUnlockObjs,
     TypeReleaseWriterLock, TypeReleaseEnd DEF End
<1>5. ASSUME NEW t \in Threads, Sync(t) PROVE TypeInv'
  BY <1>5, TypeSyncLoad, TypeSyncStore, TypeSyncBump, TypeScan, TypeScanEnd,
     TypeWait, TypeResetWriteSets, TypeWriteback, TypeUnlock, TypeSyncUnstamp,
     TypeSyncCommit, TypeSyncEnd DEF Sync
<1>6. ASSUME NEW t \in Threads, Thread(t) PROVE TypeInv'
  BY <1>2, <1>3, <1>4, <1>5, <1>6, TypeThreadInit, TypeThreadPublish,
     TypeSyncCheckpoint, TypeThreadFinish, TypeThreadFinish2 DEF Thread
<1> QED
  BY <1>1, <1>6 DEF Next

\* Every variable keeps its type, whatever the constants: the section's call in
\* progress has the arguments it dereferences, and the indices that the write-back
\* loops compute stay in the log.
THEOREM TypeCorrect == Spec => []TypeOK
<1>1. Spec => []TypeInv
  BY TypeInit, TypeStep, PTL DEF Spec
<1> QED
  BY <1>1, PTL DEF TypeInv

-----------------------------------------------------------------------------
(* The wait of rlu_synchronize is a grace period, whatever the number of   *)
(* threads, of concurrent synchronisations and of sections, and however    *)
(* stale the version is that a writer stamps itself with.                  *)
(*                                                                         *)
(* The invariant follows the wait: a section that runs when the scan comes *)
(* by is noted with its run_counter, one that starts behind the scan reads *)
(* a version that is not below the writer's.  That the writer's version is *)
(* at most the global one (it stamps itself before the FETCH_AND_ADD, from *)
(* a value that was read earlier) is all the second part needs.            *)

\* Between the FETCH_AND_ADD of run_counter and its increment at the end.
Registered(u) == pc[u] = "version" \/ InSection(u)

Parity == \A u \in Threads : run_counter[u] % 2 = IF Registered(u) THEN 1 ELSE 0

Joined ==
    \A u \in Threads :
        /\ pc[u] # "new" => u < g_rlu_cur_threads
        /\ pc[u] \notin {"new", "publish"} => u \in g_rlu_threads

Waited(w) == pc[w] \in {"reset", "writeback", "unlock"}

Stamped ==
    \A w \in Threads :
        /\ local_version[w] <= g_rlu_writer_version
        /\ pc[w] = "store" => stamp[w] <= g_rlu_writer_version + 1
        /\ pc[w] = "bump" => writer_version[w] <= g_rlu_writer_version + 1
        /\ (pc[w] \in {"scan", "wait"} \/ Waited(w)) =>
              writer_version[w] <= g_rlu_writer_version

\* The section of u started late enough for w, or is noted by it.
LateEnough(w, u) == local_version[u] >= writer_version[w]
Noted(w, u)      == q_threads[w][u] = run_counter[u]

Scanned ==
    \A w, u \in Threads : (u # w /\ InSection(u)) =>
        /\ (pc[w] = "scan" /\ u < i[w]) => LateEnough(w, u) \/ Noted(w, u)
        /\ pc[w] = "wait" => LateEnough(w, u) \/ Noted(w, u)
        /\ Waited(w) => LateEnough(w, u)

GraceInv == Parity /\ Joined /\ Stamped /\ Scanned

SectionLabels == {"commit_version", "section", "steal", "request", "cas", "copy", "failed"}
WaitedLabels  == {"reset", "writeback", "unlock"}

\* A step of t that starts no section, ends none and does not move the
\* synchronisation of t across the wait leaves the invariant alone.
LEMMA GraceQuiet ==
    ASSUME TypeOK, GraceInv, NEW t \in Threads, NEW label \in Labels,
           pc' = [pc EXCEPT ![t] = label],
           UNCHANGED <<g_rlu_writer_version, joinVars, run_counter, local_version,
                       writer_version, stamp, q_threads>>,
           \A w \in Threads \ {t} : i'[w] = i[w],
           pc[t] \notin {"new", "publish", "version"},
           label \notin {"new", "publish", "version", "store", "bump", "scan", "wait"},
           label \in SectionLabels <=> pc[t] \in SectionLabels,
           label \in WaitedLabels => pc[t] \in WaitedLabels
    PROVE  GraceInv'
<1>0. pc \in [Threads -> Labels]
  BY DEF TypeOK, ControlTypes
<1>1. \A u \in Threads : /\ InSection(u)' <=> InSection(u)
                         /\ Registered(u)' <=> Registered(u)
  BY <1>0 DEF InSection, Registered, SectionLabels
<1>2. \A w \in Threads : Waited(w)' => Waited(w)
  BY <1>0 DEF Waited, WaitedLabels
<1>3. \A w \in Threads : /\ pc'[w] \in {"scan", "wait", "store", "bump"} => w # t /\ pc'[w] = pc[w]
                         /\ pc'[w] \notin {"new", "publish"} <=> pc[w] \notin {"new", "publish"}
                         /\ pc'[w] # "new" <=> pc[w] # "new"
  BY <1>0
<1>4. Parity'
  BY <1>1 DEF GraceInv, Parity
<1>5. Joined'
  BY <1>3 DEF GraceInv, Joined
<1>6. Stamped'
  BY <1>2, <1>3 DEF GraceInv, Stamped
<1>7. Scanned'
  <2> SUFFICES ASSUME NEW w \in Threads, NEW u \in Threads, u # w, InSection(u)'
               PROVE  /\ (pc'[w] = "scan" /\ u < i'[w])
                            => LateEnough(w, u)' \/ Noted(w, u)'
                      /\ pc'[w] = "wait" => LateEnough(w, u)' \/ Noted(w, u)'
                      /\ Waited(w)' => LateEnough(w, u)'
    BY DEF Scanned
  <2>1. /\ (pc[w] = "scan" /\ u < i[w]) => LateEnough(w, u) \/ Noted(w, u)
        /\ pc[w] = "wait" => LateEnough(w, u) \/ Noted(w, u)
        /\ Waited(w) => LateEnough(w, u)
    BY <1>1 DEF GraceInv, Scanned
  <2>2. /\ LateEnough(w, u)' <=> LateEnough(w, u)
        /\ Noted(w, u)' <=> Noted(w, u)
    BY DEF LateEnough, Noted
  <2> QED
    BY <2>1, <2>2, <1>2, <1>3
<1> QED
  BY <1>4, <1>5, <1>6, <1>7 DEF GraceInv

-----------------------------------------------------------------------------
(* Steps that end a section, and those that the invariant is about. *)

LEMMA GraceLeave ==
    ASSUME TypeOK, GraceInv, NEW t \in Threads, NEW label \in Labels,
           pc[t] \in {"section", "failed"},
           pc' = [pc EXCEPT ![t] = label],
           label \in {"release_cur", "release_prev", "unlock_objs", "load"},
           run_counter' = [run_counter EXCEPT ![t] = @ + 1],
           UNCHANGED <<g_rlu_writer_version, joinVars, local_version,
                       writer_version, stamp, q_threads, i>>
    PROVE  GraceInv'
<1>1. pc \in [Threads -> Labels] /\ run_counter \in [Threads -> Nat]
  BY DEF TypeOK, ControlTypes, PeerTypes
<1>2. \A u \in Threads : u # t => pc'[u] = pc[u] /\ run_counter'[u] = run_counter[u]
  BY <1>1
<1>3. pc'[t] = label /\ run_counter'[t] = run_counter[t] + 1
  BY <1>1
<1>4. Parity'
  BY <1>1, <1>2, <1>3 DEF GraceInv, Parity, Registered, InSection
<1>5. Joined'
  BY <1>2, <1>3 DEF GraceInv, Joined
<1>6. Stamped'
  BY <1>2, <1>3 DEF GraceInv, Stamped, Waited
<1>7. Scanned'
  BY <1>2, <1>3 DEF GraceInv, Scanned, LateEnough, Noted, Waited, InSection
<1> QED
  BY <1>4, <1>5, <1>6, <1>7 DEF GraceInv

LEMMA GraceRegister ==
    ASSUME TypeOK, GraceInv, NEW t \in Threads, Register(t)
    PROVE  GraceInv'
<1>1. pc \in [Threads -> Labels] /\ run_counter \in [Threads -> Nat]
  BY DEF TypeOK, ControlTypes, PeerTypes
<1>2. \A u \in Threads : u # t => pc'[u] = pc[u] /\ run_counter'[u] = run_counter[u]
  BY <1>1 DEF Register, Goto
<1>3. pc[t] = "register" /\ pc'[t] = "version" /\ run_counter'[t] = run_counter[t] + 1
  BY <1>1 DEF Register, Goto
<1>4. Parity'
  BY <1>1, <1>2, <1>3 DEF GraceInv, Parity, Registered, InSection
<1>5. Joined'
  BY <1>2, <1>3 DEF GraceInv, Joined, Register
<1>6. Stamped'
  BY <1>2, <1>3 DEF GraceInv, Stamped, Waited, Register
<1>7. Scanned'
  BY <1>2, <1>3 DEF GraceInv, Scanned, LateEnough, Noted, Waited, InSection, Register
<1> QED
  BY <1>4, <1>5, <1>6, <1>7 DEF GraceInv

\* A section begins with the global version, which no writer that scans, waits
\* or writes back has surpassed.
LEMMA GraceReadVersion ==
    ASSUME TypeOK, GraceInv, NEW t \in Threads, ReadVersion(t)
    PROVE  GraceInv'
<1>1. /\ pc \in [Threads -> Labels] /\ local_version \in [Threads -> Nat]
      /\ writer_version \in [Threads -> Nat] /\ g_rlu_writer_version \in Nat
  BY DEF TypeOK, ControlTypes, PeerTypes, GlobalTypes
<1>2. \A u \in Threads : u # t => pc'[u] = pc[u] /\ local_version'[u] = local_version[u]
  BY <1>1 DEF ReadVersion, Goto
<1>3. /\ pc[t] = "version" /\ pc'[t] = "commit_version"
      /\ local_version'[t] = g_rlu_writer_version
  BY <1>1 DEF ReadVersion, Goto
<1>4. Parity'
  BY <1>2, <1>3 DEF GraceInv, Parity, Registered, InSection, ReadVersion
<1>5. Joined'
  BY <1>2, <1>3 DEF GraceInv, Joined, ReadVersion
<1>6. Stamped'
  BY <1>1, <1>2, <1>3 DEF GraceInv, Stamped, Waited, ReadVersion
<1>7. Scanned'
  <2> SUFFICES ASSUME NEW w \in Threads, NEW u \in Threads, u # w, InSection(u)'
               PROVE  /\ (pc'[w] = "scan" /\ u < i'[w])
                            => LateEnough(w, u)' \/ Noted(w, u)'
                      /\ pc'[w] = "wait" => LateEnough(w, u)' \/ Noted(w, u)'
                      /\ Waited(w)' => LateEnough(w, u)'
    BY DEF Scanned
  <2>1. CASE u = t
    <3>1. pc[w] \in {"scan", "wait"} \/ Waited(w) => writer_version[w] <= g_rlu_writer_version
      BY DEF GraceInv, Stamped
    <3> QED
      BY <2>1, <3>1, <1>2, <1>3 DEF LateEnough, Waited, ReadVersion
  <2>2. CASE u # t /\ w = t
    BY <2>2, <1>3 DEF Waited
  <2>3. CASE u # t /\ w # t
    BY <2>3, <1>2 DEF GraceInv, Scanned, LateEnough, Noted, Waited, InSection, ReadVersion
  <2> QED
    BY <2>1, <2>2, <2>3
<1> QED
  BY <1>4, <1>5, <1>6, <1>7 DEF GraceInv

LEMMA GraceThreadInit ==
    ASSUME TypeOK, GraceInv, NEW t \in Threads, ThreadInit(t)
    PROVE  GraceInv'
<1>1. pc \in [Threads -> Labels] /\ g_rlu_cur_threads \in 0 .. NThreads /\ t \in Nat
  BY ThreadsAssumption DEF TypeOK, ControlTypes, GlobalTypes, Threads
<1>2. \A u \in Threads : u # t => pc'[u] = pc[u]
  BY <1>1 DEF ThreadInit, Goto
<1>3. /\ pc[t] = "new" /\ pc'[t] = "publish"
      /\ g_rlu_cur_threads = t /\ g_rlu_cur_threads' = t + 1
  BY <1>1 DEF ThreadInit, Goto
<1>4. Parity'
  BY <1>2, <1>3 DEF GraceInv, Parity, Registered, InSection, ThreadInit
<1>5. Joined'
  BY <1>1, ThreadsAssumption, <1>2, <1>3 DEF GraceInv, Joined, ThreadInit, Threads
<1>6. Stamped'
  BY <1>1, <1>2, <1>3 DEF GraceInv, Stamped, Waited, ThreadInit
<1>7. Scanned'
  BY <1>2, <1>3 DEF GraceInv, Scanned, LateEnough, Noted, Waited, InSection, ThreadInit
<1> QED
  BY <1>4, <1>5, <1>6, <1>7 DEF GraceInv

LEMMA GraceThreadPublish ==
    ASSUME TypeOK, GraceInv, NEW t \in Threads, ThreadPublish(t)
    PROVE  GraceInv'
<1>1. pc \in [Threads -> Labels]
  BY DEF TypeOK, ControlTypes, PeerTypes, GlobalTypes
<1>2. \A u \in Threads : u # t => pc'[u] = pc[u]
  BY <1>1 DEF ThreadPublish, Goto
<1>3. pc[t] = "publish" /\ pc'[t] = "idle"
  BY <1>1 DEF ThreadPublish, Goto
<1>4. Parity'
  BY <1>2, <1>3 DEF GraceInv, Parity, Registered, InSection, ThreadPublish
<1>5. Joined'
  BY <1>1, <1>2, <1>3 DEF GraceInv, Joined, ThreadPublish
<1>6. Stamped'
  BY <1>1, <1>2, <1>3 DEF GraceInv, Stamped, Waited, ThreadPublish
<1>7. Scanned'
  BY <1>2, <1>3 DEF GraceInv, Scanned, LateEnough, Noted, Waited, InSection, ThreadPublish
<1> QED
  BY <1>4, <1>5, <1>6, <1>7 DEF GraceInv

LEMMA GraceSyncLoad ==
    ASSUME TypeOK, GraceInv, NEW t \in Threads, SyncLoad(t)
    PROVE  GraceInv'
<1>1. pc \in [Threads -> Labels] /\ stamp \in [Threads -> Nat]
      /\ g_rlu_writer_version \in Nat
  BY DEF TypeOK, ControlTypes, PeerTypes, GlobalTypes
<1>2. \A u \in Threads : u # t => pc'[u] = pc[u] /\ stamp'[u] = stamp[u]
  BY <1>1 DEF SyncLoad, Goto
<1>3. /\ pc[t] = "load" /\ pc'[t] = "store"
      /\ stamp'[t] = g_rlu_writer_version + 1
  BY <1>1 DEF SyncLoad, Goto
<1>4. Parity'
  BY <1>2, <1>3 DEF GraceInv, Parity, Registered, InSection, SyncLoad
<1>5. Joined'
  BY <1>1, <1>2, <1>3 DEF GraceInv, Joined, SyncLoad
<1>6. Stamped'
  BY <1>1, <1>2, <1>3 DEF GraceInv, Stamped, Waited, SyncLoad
<1>7. Scanned'
  BY <1>2, <1>3 DEF GraceInv, Scanned, LateEnough, Noted, Waited, InSection, SyncLoad
<1> QED
  BY <1>4, <1>5, <1>6, <1>7 DEF GraceInv

LEMMA GraceSyncStore ==
    ASSUME TypeOK, GraceInv, NEW t \in Threads, SyncStore(t)
    PROVE  GraceInv'
<1>1. pc \in [Threads -> Labels] /\ stamp \in [Threads -> Nat]
      /\ writer_version \in [Threads -> Nat]
  BY DEF TypeOK, ControlTypes, PeerTypes, GlobalTypes
<1>2. \A u \in Threads : u # t =>
          /\ pc'[u] = pc[u] /\ stamp'[u] = stamp[u]
          /\ writer_version'[u] = writer_version[u]
  BY <1>1 DEF SyncStore, Goto
<1>3. /\ pc[t] = "store" /\ pc'[t] = "bump"
      /\ writer_version'[t] = stamp[t]
  BY <1>1 DEF SyncStore, Goto
<1>4. Parity'
  BY <1>2, <1>3 DEF GraceInv, Parity, Registered, InSection, SyncStore
<1>5. Joined'
  BY <1>1, <1>2, <1>3 DEF GraceInv, Joined, SyncStore
<1>6. Stamped'
  BY <1>1, <1>2, <1>3 DEF GraceInv, Stamped, Waited, SyncStore
<1>7. Scanned'
  BY <1>2, <1>3 DEF GraceInv, Scanned, LateEnough, Noted, Waited, InSection, SyncStore
<1> QED
  BY <1>4, <1>5, <1>6, <1>7 DEF GraceInv

LEMMA GraceSyncBump ==
    ASSUME TypeOK, GraceInv, NEW t \in Threads, SyncBump(t)
    PROVE  GraceInv'
<1>1. pc \in [Threads -> Labels] /\ g_rlu_writer_version \in Nat
      /\ local_version \in [Threads -> Nat] /\ stamp \in [Threads -> Nat]
      /\ writer_version \in [Threads -> Nat] /\ i \in [Threads -> Nat]
  BY DEF TypeOK, ControlTypes, PeerTypes, GlobalTypes
<1>2. \A u \in Threads : u # t => pc'[u] = pc[u] /\ i'[u] = i[u]
  BY <1>1 DEF SyncBump, Goto
<1>3. /\ pc[t] = "bump" /\ pc'[t] = "scan" /\ i'[t] = 0
  BY <1>1 DEF SyncBump, Goto
<1>4. Parity'
  BY <1>2, <1>3 DEF GraceInv, Parity, Registered, InSection, SyncBump
<1>5. Joined'
  BY <1>1, <1>2, <1>3 DEF GraceInv, Joined, SyncBump
<1>6. Stamped'
  BY <1>1, <1>2, <1>3 DEF GraceInv, Stamped, Waited, SyncBump
<1>7. Scanned'
  <2>1. ~(\E u \in Threads : u < i'[t])
    BY <1>3 DEF Threads
  <2> QED
    BY <2>1, <1>2, <1>3
    DEF GraceInv, Scanned, LateEnough, Noted, Waited, InSection, SyncBump
<1> QED
  BY <1>4, <1>5, <1>6, <1>7 DEF GraceInv

\* The scan notes a section that runs; its thread is below g_rlu_cur_threads and
\* its entry in g_rlu_threads is set, so that the scan reaches it.
LEMMA GraceScan ==
    ASSUME TypeOK, GraceInv, NEW t \in Threads, Scan(t)
    PROVE  GraceInv'
<1>1. /\ pc \in [Threads -> Labels] /\ i \in [Threads -> Nat]
      /\ run_counter \in [Threads -> Nat] /\ q_threads \in [Threads -> [Threads -> Nat]]
  BY DEF TypeOK, ControlTypes, PeerTypes
<1>2. /\ \A w \in Threads : w # t => i'[w] = i[w] /\ q_threads'[w] = q_threads[w]
      /\ i'[t] = i[t] + 1
  BY <1>1 DEF Scan
<1>3. \A u \in Threads \ {i[t]} : q_threads'[t][u] = q_threads[t][u]
  BY <1>1 DEF Scan
<1>4. Parity' /\ Joined' /\ Stamped'
  BY DEF GraceInv, Parity, Registered, InSection, Joined, Stamped, Waited, Scan
<1>5. Scanned'
  <2> SUFFICES ASSUME NEW w \in Threads, NEW u \in Threads, u # w, InSection(u)'
               PROVE  /\ (pc'[w] = "scan" /\ u < i'[w])
                            => LateEnough(w, u)' \/ Noted(w, u)'
                      /\ pc'[w] = "wait" => LateEnough(w, u)' \/ Noted(w, u)'
                      /\ Waited(w)' => LateEnough(w, u)'
    BY DEF Scanned
  <2>0. InSection(u) /\ u \in Nat
    BY ThreadsAssumption DEF InSection, Scan, Threads
  <2>1. CASE w # t
    BY <2>0, <2>1, <1>2 DEF GraceInv, Scanned, LateEnough, Noted, Waited, Scan
  <2>2. CASE w = t /\ u # i[t]
    BY <2>0, <2>2, <1>1, <1>2, <1>3 DEF GraceInv, Scanned, LateEnough, Noted, Waited, Scan
  <2>3. CASE w = t /\ u = i[t]
    <3>1. u \in g_rlu_threads
      BY <2>0 DEF GraceInv, Joined, InSection
    <3>2. run_counter[u] % 2 = 1
      BY <2>0 DEF GraceInv, Parity, Registered
    <3>3. q_threads'[t][u] = run_counter[u]
      BY <2>3, <3>1, <3>2, <1>1 DEF Scan
    <3> QED
      BY <2>3, <3>3 DEF Noted, Waited, Scan
  <2> QED
    BY <2>1, <2>2, <2>3
<1> QED
  BY <1>4, <1>5 DEF GraceInv

LEMMA GraceScanEnd ==
    ASSUME TypeOK, GraceInv, NEW t \in Threads, ScanEnd(t)
    PROVE  GraceInv'
<1>1. /\ pc \in [Threads -> Labels] /\ i \in [Threads -> Nat]
      /\ g_rlu_cur_threads \in Nat
  BY ThreadsAssumption DEF TypeOK, ControlTypes, GlobalTypes
<1>2. \A u \in Threads : u # t => pc'[u] = pc[u] /\ i'[u] = i[u]
  BY <1>1 DEF ScanEnd, Goto
<1>3. pc[t] = "scan" /\ pc'[t] = "wait" /\ i[t] >= g_rlu_cur_threads
  BY <1>1 DEF ScanEnd, Goto
<1>4. \A u \in Threads : InSection(u) => u < i[t] /\ u \in Nat
  <2>1. \A u \in Threads : InSection(u) => u < g_rlu_cur_threads
    BY DEF GraceInv, Joined, InSection
  <2>2. Threads \subseteq Nat
    BY ThreadsAssumption DEF Threads
  <2> QED
    BY <2>1, <2>2, <1>1, <1>3
<1>5. Parity' /\ Joined' /\ Stamped'
  BY <1>2, <1>3 DEF GraceInv, Parity, Registered, InSection, Joined, Stamped, Waited, ScanEnd
<1>6. Scanned'
  BY <1>2, <1>3, <1>4 DEF GraceInv, Scanned, LateEnough, Noted, Waited, InSection, ScanEnd
<1> QED
  BY <1>5, <1>6 DEF GraceInv

\* When the wait is over, a section that was noted is the one that still runs
\* only if it started late enough.
LEMMA GraceWait ==
    ASSUME TypeOK, GraceInv, NEW t \in Threads, Wait(t)
    PROVE  GraceInv'
<1>1. /\ pc \in [Threads -> Labels] /\ run_counter \in [Threads -> Nat]
      /\ q_threads \in [Threads -> [Threads -> Nat]]
  BY DEF TypeOK, ControlTypes, PeerTypes
<1>2. \A u \in Threads : u # t => pc'[u] = pc[u] /\ q_threads'[u] = q_threads[u]
  BY <1>1 DEF Wait, Goto
<1>3. pc[t] = "wait" /\ pc'[t] = "reset"
  BY <1>1 DEF Wait, Goto
<1>4. ASSUME NEW u \in Threads, u # t, InSection(u)
      PROVE  LateEnough(t, u)
  <2>1. LateEnough(t, u) \/ Noted(t, u)
    BY <1>3, <1>4 DEF GraceInv, Scanned
  <2>2. run_counter[u] # 0
    BY <1>4 DEF GraceInv, Parity, Registered
  <2> QED
    BY <2>1, <2>2, <1>4 DEF Wait, Passed, LateEnough, Noted
<1>5. Parity' /\ Joined' /\ Stamped'
  BY <1>2, <1>3 DEF GraceInv, Parity, Registered, InSection, Joined, Stamped, Waited, Wait
<1>6. Scanned'
  BY <1>2, <1>3, <1>4 DEF GraceInv, Scanned, LateEnough, Noted, Waited, InSection, Wait
<1> QED
  BY <1>5, <1>6 DEF GraceInv

LEMMA GraceSyncUnstamp ==
    ASSUME TypeOK, GraceInv, NEW t \in Threads, SyncUnstamp(t)
    PROVE  GraceInv'
<1>1. pc \in [Threads -> Labels] /\ writer_version \in [Threads -> Nat]
  BY DEF TypeOK, ControlTypes, PeerTypes, GlobalTypes
<1>2. \A u \in Threads : u # t => pc'[u] = pc[u] /\ writer_version'[u] = writer_version[u]
  BY <1>1 DEF SyncUnstamp, Goto
<1>3. pc[t] = "writeback" /\ pc'[t] = "commit"
  BY <1>1 DEF SyncUnstamp, Goto
<1>4. Parity'
  BY <1>2, <1>3 DEF GraceInv, Parity, Registered, InSection, SyncUnstamp
<1>5. Joined'
  BY <1>1, <1>2, <1>3 DEF GraceInv, Joined, SyncUnstamp
<1>6. Stamped'
  BY <1>1, <1>2, <1>3 DEF GraceInv, Stamped, Waited, SyncUnstamp
<1>7. Scanned'
  BY <1>2, <1>3 DEF GraceInv, Scanned, LateEnough, Noted, Waited, InSection, SyncUnstamp
<1> QED
  BY <1>4, <1>5, <1>6, <1>7 DEF GraceInv

LEMMA GraceInit == Init => GraceInv
BY ThreadsAssumption DEF Init, GraceInv, Parity, Registered, InSection, Joined,
    Stamped, Waited, Scanned, Threads

\* Steps of a section, and those that keep the invariant trivially.
LEMMA GraceAccess ==
    ASSUME TypeOK, GraceInv, NEW t \in Threads, Access(t)
    PROVE  GraceInv'
<1> USE DEF Labels, SectionLabels, WaitedLabels
<1>0. pc \in [Threads -> Labels]
  BY DEF TypeOK, ControlTypes
<1>1. CASE Steal(t) \/ TryLockCas(t) \/ TryLockCopy(t) \/ SendSyncRequest(t)
  BY <1>1, GraceQuiet DEF Steal, TryLockCas, TryLockCopy, Goto, SendSyncRequest
<1>2. ASSUME NEW o \in Objs, Deref(t, o) \/ TryLockOwn(t, o) PROVE GraceInv'
  <2>1. pc[t] = "section" /\ pc' = [pc EXCEPT ![t] = "section"]
    BY <1>0, <1>2 DEF Deref, TryLockOwn, MayLock
  <2> QED
    BY <1>2, <2>1, GraceQuiet DEF Deref, TryLockOwn
<1>3. ASSUME NEW o \in Objs, DerefLocked(t, o) \/ TryLock(t, o) \/ TryLockFail(t, o)
      PROVE  GraceInv'
  <2>1. CASE DerefLocked(t, o) \/ TryLock(t, o)
    BY <2>1, GraceQuiet DEF DerefLocked, TryLock, MayLock, Goto
  <2>2. CASE TryLockFail(t, o)
    <3>1. /\ pc[t] = "section"
          /\ \/ pc' = [pc EXCEPT ![t] = "failed"]
             \/ pc' = [pc EXCEPT ![t] = "request"]
      BY <2>2 DEF TryLockFail, MayLock, Goto
    <3> QED
      BY <2>2, <3>1, GraceQuiet DEF TryLockFail
  <2> QED
    BY <1>3, <2>1, <2>2
<1>4. ASSUME NEW l \in WriterLocks, TryWriterLock(t, l) PROVE GraceInv'
  <2>1. /\ pc[t] = "section"
        /\ \/ pc' = [pc EXCEPT ![t] = "section"]
           \/ pc' = [pc EXCEPT ![t] = "failed"]
    BY <1>0, <1>4 DEF TryWriterLock, Goto
  <2> QED
    BY <1>4, <2>1, GraceQuiet DEF TryWriterLock
<1> QED
  BY <1>1, <1>2, <1>3, <1>4 DEF Access

LEMMA GraceEnd ==
    ASSUME TypeOK, GraceInv, NEW t \in Threads, End(t)
    PROVE  GraceInv'
<1> USE DEF Labels, SectionLabels, WaitedLabels
<1>0. pc \in [Threads -> Labels] /\ i \in [Threads -> Nat]
  BY DEF TypeOK, ControlTypes
<1>1. CASE ReaderUnlock(t) \/ Abort(t)
  BY <1>1, GraceLeave DEF ReaderUnlock, Abort, LeaveSection, Goto
<1>2. CASE CommitUnlock(t)
  BY <1>2, GraceLeave DEF CommitUnlock, LeaveSection, SyncCall, Goto
<1>3. CASE UnlockObjs(t)
  <2>1. /\ pc[t] = "unlock_objs"
        /\ \/ pc' = [pc EXCEPT ![t] = "unlock_objs"]
           \/ pc' = [pc EXCEPT ![t] = "release_cur"]
        /\ \A w \in Threads \ {t} : i'[w] = i[w]
    BY <1>0, <1>3 DEF UnlockObjs, Goto
  <2> QED
    BY <1>3, <2>1, GraceQuiet DEF UnlockObjs
<1>4. CASE ReleaseWriterLock(t)
  <2>1. /\ pc[t] \in {"release_cur", "release_prev"}
        /\ pc' = [pc EXCEPT ![t] = pc[t]]
        /\ \A w \in Threads \ {t} : i'[w] = i[w]
    BY <1>0, <1>4 DEF ReleaseWriterLock, Releasing
  <2> QED
    BY <1>4, <2>1, GraceQuiet DEF ReleaseWriterLock
<1>5. CASE ReleaseEnd(t)
  <2>1. /\ pc[t] \in {"release_cur", "release_prev"}
        /\ \/ pc' = [pc EXCEPT ![t] = "idle"]
           \/ pc' = [pc EXCEPT ![t] = "load"]
        /\ \A w \in Threads \ {t} : i'[w] = i[w]
    BY <1>0, <1>5 DEF ReleaseEnd, Releasing, Checkpoint, SyncCall, Goto
  <2> QED
    BY <1>5, <2>1, GraceQuiet DEF ReleaseEnd
<1> QED
  BY <1>1, <1>2, <1>3, <1>4, <1>5 DEF End

LEMMA GraceSync ==
    ASSUME TypeOK, GraceInv, NEW t \in Threads, Sync(t)
    PROVE  GraceInv'
<1> USE DEF Labels, SectionLabels, WaitedLabels
<1>0. /\ pc \in [Threads -> Labels] /\ i \in [Threads -> Nat]
      /\ ret \in [Threads -> Returns]
  BY DEF TypeOK, ControlTypes
<1>1. CASE SyncLoad(t) \/ SyncStore(t) \/ SyncBump(t) \/ Scan(t) \/ ScanEnd(t)
           \/ Wait(t) \/ SyncUnstamp(t)
  BY <1>1, GraceSyncLoad, GraceSyncStore, GraceSyncBump, GraceScan, GraceScanEnd,
     GraceWait, GraceSyncUnstamp
<1>2. CASE ResetWriteSets(t) \/ Writeback(t) \/ SyncCommit(t)
  BY <1>2, GraceQuiet DEF ResetWriteSets, Writeback, SyncCommit, Goto
<1>3. CASE Unlock(t)
  <2>1. \A w \in Threads \ {t} : i'[w] = i[w]
    BY <1>0, <1>3 DEF Unlock
  <2> QED
    BY <1>3, <2>1, GraceQuiet DEF Unlock, Goto
<1>4. CASE SyncEnd(t)
  <2>1. ret[t] \in Returns
    BY <1>0
  <2> QED
    BY <1>4, <2>1, GraceQuiet DEF SyncEnd, Goto, Returns
<1> QED
  BY <1>1, <1>2, <1>3, <1>4 DEF Sync

\* Every step keeps the invariant of rlu_synchronize, the scan and the wait
\* (rlu.c:495-532) as well as sections that start, end and start again meanwhile.
THEOREM GraceStep == TypeOK /\ GraceInv /\ [Next]_vars => GraceInv'
<1> SUFFICES ASSUME TypeOK, GraceInv, [Next]_vars PROVE GraceInv'
  OBVIOUS
<1>1. CASE UNCHANGED vars \/ Terminated
  BY <1>1 DEF Terminated, GraceInv, Parity, Registered, InSection, Joined,
     Stamped, Waited, Scanned, LateEnough, Noted
<1>2. ASSUME NEW t \in Threads, Begin(t) PROVE GraceInv'
  <2> USE DEF Labels, SectionLabels, WaitedLabels
  <2>1. CASE ReaderLock(t)
    BY <2>1, GraceQuiet DEF ReaderLock, Checkpoint, SyncCall, Goto
  <2>2. CASE ReadCommitVersion(t)
    BY <2>2, GraceQuiet DEF ReadCommitVersion, Goto
  <2> QED
    BY <1>2, <2>1, <2>2, GraceRegister, GraceReadVersion DEF Begin
<1>3. ASSUME NEW t \in Threads,
             SyncCheckpoint(t) \/ ThreadFinish(t) \/ ThreadFinish2(t)
      PROVE  GraceInv'
  <2> USE DEF Labels, SectionLabels, WaitedLabels
  <2> QED
    BY <1>3, GraceQuiet DEF SyncCheckpoint, ThreadFinish, ThreadFinish2, Checkpoint,
       SyncCall, Goto
<1>4. ASSUME NEW t \in Threads, Thread(t) PROVE GraceInv'
  BY <1>2, <1>3, <1>4, GraceAccess, GraceEnd, GraceSync, GraceThreadInit,
     GraceThreadPublish DEF Thread
<1> QED
  BY <1>1, <1>4 DEF Next

\* Once a synchronisation has waited, and until its objects are written back and
\* unlocked, every section of another thread started after the writer's version
\* was due, so that it takes the copies.
THEOREM GracePeriodHolds == Spec => []GracePeriod
<1>1. TypeInv => TypeOK
  BY DEF TypeInv
<1>2. GraceInv => GracePeriod
  BY DEF GraceInv, Scanned, GracePeriod, Waited, LateEnough
<1> QED
  BY <1>1, <1>2, TypeInit, TypeStep, GraceInit, GraceStep, PTL DEF Spec
=============================================================================
