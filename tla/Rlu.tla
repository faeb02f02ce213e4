-------------------------------- MODULE Rlu --------------------------------
(***************************************************************************)
(* The synchronisation protocol of rlu.c: Read-Log-Update, both the        *)
(* fine-grained type (writers lock objects with try_lock and may defer     *)
(* their write-back) and the coarse-grained type (writers hold writer      *)
(* locks and write back at every commit).                                  *)
(*                                                                         *)
(* A step is one access to memory that another thread can touch, together  *)
(* with the thread-local work around it.  Memory is sequentially           *)
(* consistent: on x86 the locked FETCH_AND_ADD / CAS and the MEMBARs stand *)
(* between the accesses whose order the protocol depends on.  The client   *)
(* is the most general one that follows README-RLU.md: inside a section it *)
(* dereferences and locks any objects, writes to the copies it locked, and *)
(* aborts after a failed lock.                                             *)
(*                                                                         *)
(* The value of an object is the set of updates it incorporates: an update *)
(* is named by the thread that made it and the number of its section.      *)
(***************************************************************************)
EXTENDS Integers, Sequences

CONSTANTS
    NThreads,            \* threads that ever exist, identified by uniq_id
    InitThreads,         \* how many of them are initialised at the start
    Writers,             \* the threads whose sections may lock objects
    Finishers,           \* the threads that end with rlu_thread_finish
    Objs,                \* RLU objects (p_obj_actual)
    NULL,
    RLU_MAX_WRITE_SETS,  \* slots of the write-set ring of a thread
    max_write_sets,      \* deferred write-sets that force a write-back
    Coarse,              \* TRUE: RLU_TYPE_COARSE_GRAINED
    WriterLocks,         \* ids of the writer locks (coarse type)
    LockOf,              \* the writer lock under which an object is updated
    MAX_VERSION,         \* the writer_version of a thread that is not syncing
    MaxStarts            \* bound: sections thread t starts

Threads == 0 .. NThreads - 1

\* rlu_init's assertions (rlu.c:634-636); the coarse type defers nothing.
ASSUME ThreadsAssumption ==
    /\ NThreads \in Nat \ {0}
    /\ InitThreads \in 0 .. NThreads
    /\ Writers \subseteq Threads
    /\ Finishers \subseteq Threads
    /\ MaxStarts \in [Threads -> Nat]

ASSUME WriteSetsAssumption ==
    /\ max_write_sets \in Nat \ {0}
    /\ RLU_MAX_WRITE_SETS \in Nat \ {0}
    /\ 2 * max_write_sets <= RLU_MAX_WRITE_SETS
    /\ Coarse \in BOOLEAN
    /\ Coarse => max_write_sets = 1

ASSUME ObjectsAssumption ==
    /\ NULL \notin Objs
    /\ LockOf \in [Objs -> WriterLocks \cup {NULL}]
    /\ Coarse => LockOf \in [Objs -> WriterLocks]
    /\ MAX_VERSION \in Nat

VARIABLES
    \* objects
    p_obj_copy,           \* header of each object: NULL or the address of its copy
    data,                 \* contents of each object
    \* globals
    g_rlu_writer_version,
    g_rlu_commit_version,
    g_rlu_cur_threads,
    g_rlu_threads,        \* the ids whose entry is not NULL
    g_rlu_writer_locks,
    \* rlu_thread_data_t, by uniq_id
    run_counter,
    local_version,
    writer_version,
    is_check_locks,
    is_steal,
    is_write_detected,
    is_sync,              \* is_sync # 0
    q_threads,            \* 0: is_wait = 0, otherwise the run_counter waited on
    ws_head_counter,
    ws_wb_counter,
    ws_tail_counter,
    obj_write_set,        \* per ring slot, the sequence of object copies
    ws_writer_locks,      \* per ring slot, the sequence of writer locks taken
    \* control state of each thread
    pc,
    ret,                  \* where rlu_sync_and_writeback returns to
    stamp,                \* the value computed for writer_version
    i,                    \* index of the loop the thread is in
    ws_counter,           \* counter of the write-set being written back
    cur_obj, cur_copy,    \* arguments of the call in progress
    refs,                 \* <<object, pointer>>: what the section got for it
    n_starts,
    \* history variables
    snap,                 \* the published contents when local_version was read
    committed             \* updates made by sections that ended with unlock

objVars     == <<p_obj_copy, data>>
versionVars == <<g_rlu_writer_version, g_rlu_commit_version>>
joinVars    == <<g_rlu_cur_threads, g_rlu_threads>>
globalVars  == <<objVars, versionVars, joinVars, g_rlu_writer_locks>>
peerVars    == <<run_counter, local_version, writer_version, is_sync>>
flagVars    == <<is_check_locks, is_steal, is_write_detected>>
counterVars == <<ws_head_counter, ws_wb_counter, ws_tail_counter>>
logVars     == <<obj_write_set, ws_writer_locks>>
ownVars     == <<flagVars, counterVars, logVars>>
syncVars    == <<ret, stamp, q_threads>>
loopVars    == <<i, ws_counter>>
ctlVars     == <<syncVars, loopVars>>
callVars    == <<cur_obj, cur_copy>>
ghostVars   == <<snap, committed>>
clientVars  == <<callVars, refs, n_starts, ghostVars>>

vars == <<objVars, versionVars, joinVars, g_rlu_writer_locks, peerVars, ownVars,
          pc, ctlVars, clientVars>>

-----------------------------------------------------------------------------
(* Values, addresses, ring slots. *)

Slots  == 0 .. RLU_MAX_WRITE_SETS - 1
Value  == SUBSET (Threads \X Nat)
Entry  == [obj : Objs, val : Value, run : Nat]
Addr   == [th : Threads, ws : Slots, ix : Nat \ {0}]
Ptr    == Objs \cup Addr

\* Objects, copies and NULL are at different addresses.
ASSUME AddressesAssumption ==
    /\ NULL \notin Threads
    /\ \A a \in Objs \cup {NULL} : a \notin Addr

WS_INDEX(counter) == counter % RLU_MAX_WRITE_SETS

\* The copies in the write-set of t with this counter.
WriteSet(t, counter) == obj_write_set[t][WS_INDEX(counter)]

\* ws_cur_id is always WS_INDEX(ws_tail_counter).
WsCurId(t) == WS_INDEX(ws_tail_counter[t])

\* Mutant of NextCopy: the last copy instead of the next one.
MutNextCopy(t) ==
    [th |-> t, ws |-> WsCurId(t), ix |-> Len(WriteSet(t, ws_tail_counter[t]))]

\* The address the next copy of t will have.
NextCopy(t) ==
    [th |-> t, ws |-> WsCurId(t), ix |-> Len(WriteSet(t, ws_tail_counter[t])) + 1]

At(c) == obj_write_set[c.th][c.ws][c.ix]

Complete(c) == c.ix \in DOMAIN obj_write_set[c.th][c.ws]

\* The steps of rlu_sync_and_writeback after the FETCH_AND_ADD of
\* g_rlu_writer_version and before the write-back is over.
Publishing(t) == pc[t] \in {"scan", "wait", "reset", "writeback", "unlock"}

\* What a section that starts now should see in o: the copy of a write-set
\* that has been published, the object itself otherwise.
Published(o) ==
    LET c == p_obj_copy[o]
    IN  IF c # NULL /\ Publishing(c.th) /\ Complete(c) THEN At(c).val ELSE data[o]

-----------------------------------------------------------------------------
Init ==
    /\ p_obj_copy = [o \in Objs |-> NULL]
    /\ data = [o \in Objs |-> {}]
    /\ g_rlu_writer_version = 0
    /\ g_rlu_commit_version = 0
    /\ g_rlu_cur_threads = InitThreads
    /\ g_rlu_threads = 0 .. InitThreads - 1
    /\ g_rlu_writer_locks = [l \in WriterLocks |-> NULL]
    /\ run_counter = [t \in Threads |-> 0]
    /\ local_version = [t \in Threads |-> 0]
    /\ writer_version = [t \in Threads |-> MAX_VERSION]
    /\ is_check_locks = [t \in Threads |-> FALSE]
    /\ is_steal = [t \in Threads |-> FALSE]
    /\ is_write_detected = [t \in Threads |-> FALSE]
    /\ is_sync = [t \in Threads |-> FALSE]
    /\ q_threads = [t \in Threads |-> [u \in Threads |-> 0]]
    /\ ws_head_counter = [t \in Threads |-> 0]
    /\ ws_wb_counter = [t \in Threads |-> 0]
    /\ ws_tail_counter = [t \in Threads |-> 0]
    /\ obj_write_set = [t \in Threads |-> [s \in Slots |-> <<>>]]
    /\ ws_writer_locks = [t \in Threads |-> [s \in Slots |-> <<>>]]
    /\ pc = [t \in Threads |-> IF t < InitThreads THEN "idle" ELSE "new"]
    /\ ret = [t \in Threads |-> "idle"]
    /\ stamp = [t \in Threads |-> 0]
    /\ i = [t \in Threads |-> 0]
    /\ ws_counter = [t \in Threads |-> 0]
    /\ cur_obj = [t \in Threads |-> NULL]
    /\ cur_copy = [t \in Threads |-> NULL]
    /\ refs = [t \in Threads |-> {}]
    /\ n_starts = [t \in Threads |-> 0]
    /\ snap = [t \in Threads |-> [o \in Objs |-> {}]]
    /\ committed = [o \in Objs |-> {}]

Goto(t, label) == pc' = [pc EXCEPT ![t] = label]

-----------------------------------------------------------------------------
(* rlu_thread_init: take an id, then publish the thread data under it. *)

ThreadInit(t) ==
    /\ pc[t] = "new"
    /\ g_rlu_cur_threads = t
    /\ g_rlu_cur_threads' = t + 1
    /\ Goto(t, "publish")
    /\ UNCHANGED <<objVars, versionVars, g_rlu_threads, g_rlu_writer_locks,
                   peerVars, ownVars, ctlVars, clientVars>>

ThreadPublish(t) ==
    /\ pc[t] = "publish"
    /\ g_rlu_threads' = g_rlu_threads \cup {t}
    /\ Goto(t, "idle")
    /\ UNCHANGED <<objVars, versionVars, g_rlu_cur_threads, g_rlu_writer_locks,
                   peerVars, ownVars, ctlVars, clientVars>>

-----------------------------------------------------------------------------
(* Calling rlu_sync_and_writeback: it returns at once when every write-set *)
(* is already reusable.                                                    *)

SyncCall(t, tail, return) ==
    IF tail = ws_head_counter[t]
    THEN Goto(t, return) /\ UNCHANGED ret
    ELSE Goto(t, "load") /\ ret' = [ret EXCEPT ![t] = return]

\* rlu_sync_checkpoint: synchronise only when a conflict asked for it.
Checkpoint(t, return) ==
    IF is_sync[t] THEN SyncCall(t, ws_tail_counter[t], return)
                  ELSE Goto(t, return) /\ UNCHANGED ret

SyncCheckpoint(t) ==
    /\ pc[t] = "idle"
    /\ is_sync[t]
    /\ Checkpoint(t, "idle")
    /\ UNCHANGED <<globalVars, peerVars, ownVars, stamp, q_threads, loopVars,
                   clientVars>>

-----------------------------------------------------------------------------
(* rlu_reader_lock *)

ReaderLock(t) ==
    /\ pc[t] = "idle"
    /\ n_starts[t] < MaxStarts[t]
    /\ n_starts' = [n_starts EXCEPT ![t] = @ + 1]
    /\ Checkpoint(t, "register")
    /\ UNCHANGED <<globalVars, peerVars, ownVars, stamp, q_threads, loopVars,
                   callVars, refs, ghostVars>>

\* Mutant of Register: rlu_reset clears is_sync too.
MutRegister(t) ==
    /\ pc[t] = "register"
    /\ is_write_detected' = [is_write_detected EXCEPT ![t] = FALSE]
    /\ is_steal' = [is_steal EXCEPT ![t] = TRUE]
    /\ is_check_locks' = [is_check_locks EXCEPT ![t] = TRUE]
    /\ is_sync' = [is_sync EXCEPT ![t] = FALSE]
    /\ run_counter' = [run_counter EXCEPT ![t] = @ + 1]
    /\ Goto(t, "version")
    /\ UNCHANGED <<globalVars, local_version, writer_version,
                   counterVars, logVars, ctlVars, clientVars>>

\* rlu_reset and the FETCH_AND_ADD of rlu_register_thread.
Register(t) ==
    /\ pc[t] = "register"
    /\ is_write_detected' = [is_write_detected EXCEPT ![t] = FALSE]
    /\ is_steal' = [is_steal EXCEPT ![t] = TRUE]
    /\ is_check_locks' = [is_check_locks EXCEPT ![t] = TRUE]
    /\ run_counter' = [run_counter EXCEPT ![t] = @ + 1]
    /\ Goto(t, "version")
    /\ UNCHANGED <<globalVars, local_version, writer_version, is_sync,
                   counterVars, logVars, ctlVars, clientVars>>

ReadVersion(t) ==
    /\ pc[t] = "version"
    /\ local_version' = [local_version EXCEPT ![t] = g_rlu_writer_version]
    /\ snap' = [snap EXCEPT ![t] = [o \in Objs |-> Published(o)]]
    /\ Goto(t, "commit_version")
    /\ UNCHANGED <<globalVars, run_counter, writer_version, is_sync, ownVars,
                   ctlVars, callVars, refs, n_starts, committed>>

\* The section looks at locks only when a write-back may be in progress or
\* the thread has write-sets of its own that are not written back.
ReadCommitVersion(t) ==
    LET quiet == local_version[t] = g_rlu_commit_version
    IN  /\ pc[t] = "commit_version"
        /\ is_steal' = [is_steal EXCEPT ![t] = ~quiet]
        /\ is_check_locks' = [is_check_locks EXCEPT
               ![t] = ~(quiet /\ ws_tail_counter[t] = ws_wb_counter[t])]
        /\ Goto(t, "section")
        /\ UNCHANGED <<globalVars, peerVars, is_write_detected, counterVars,
                       logVars, ctlVars, clientVars>>

-----------------------------------------------------------------------------
(* RLU_DEREF and rlu_deref_slow_path *)

Got(t, o, p) == refs' = [refs EXCEPT ![t] = @ \cup {<<o, p>>}]

\* The object is unlocked, or the section need not look, or it is locked by
\* this thread, or by another one that may not be stolen from.
Deref(t, o) ==
    LET c == p_obj_copy[o]
        p == IF is_check_locks[t] /\ c # NULL /\ c.th = t THEN c ELSE o
    IN  /\ pc[t] = "section"
        /\ ~(is_check_locks[t] /\ c # NULL /\ c.th # t /\ is_steal[t])
        /\ Got(t, o, p)
        /\ UNCHANGED <<globalVars, peerVars, ownVars, pc, ctlVars, callVars,
                       n_starts, ghostVars>>

\* Locked by another thread: its writer_version decides, and is read later.
DerefLocked(t, o) ==
    LET c == p_obj_copy[o]
    IN  /\ pc[t] = "section"
        /\ is_check_locks[t] /\ c # NULL /\ c.th # t /\ is_steal[t]
        /\ cur_obj' = [cur_obj EXCEPT ![t] = o]
        /\ cur_copy' = [cur_copy EXCEPT ![t] = c]
        /\ Goto(t, "steal")
        /\ UNCHANGED <<globalVars, peerVars, ownVars, ctlVars, refs, n_starts,
                       ghostVars>>

EndCall(t) ==
    /\ cur_obj' = [cur_obj EXCEPT ![t] = NULL]
    /\ cur_copy' = [cur_copy EXCEPT ![t] = NULL]

\* Mutant of MaySteal: strict comparison.
MutMaySteal(t, th) == writer_version[th] < local_version[t]

\* The copy may be taken from this writer by this section.
MaySteal(t, th) == writer_version[th] <= local_version[t]

Steal(t) ==
    /\ pc[t] = "steal"
    /\ Got(t, cur_obj[t], IF MaySteal(t, cur_copy[t].th)
                          THEN cur_copy[t] ELSE cur_obj[t])
    /\ EndCall(t)
    /\ Goto(t, "section")
    /\ UNCHANGED <<globalVars, peerVars, ownVars, ctlVars, n_starts,
                   ghostVars>>

-----------------------------------------------------------------------------
(* rlu_try_writer_lock (coarse type) *)

\* A failed attempt ends in rlu_abort: the client restarts the section.
TryWriterLock(t, l) ==
    LET free == g_rlu_writer_locks[l] = NULL
    IN  /\ Coarse
        /\ t \in Writers
        /\ pc[t] = "section"
        /\ g_rlu_writer_locks[l] # t
        /\ IF free
           THEN /\ g_rlu_writer_locks' = [g_rlu_writer_locks EXCEPT ![l] = t]
                /\ ws_writer_locks' =
                       [ws_writer_locks EXCEPT ![t][WsCurId(t)] = Append(@, l)]
                /\ UNCHANGED pc
           ELSE /\ Goto(t, "failed")
                /\ UNCHANGED <<g_rlu_writer_locks, ws_writer_locks>>
        /\ UNCHANGED <<objVars, versionVars, joinVars, peerVars, flagVars,
                       counterVars, obj_write_set, ctlVars, clientVars>>

-----------------------------------------------------------------------------
(* rlu_try_lock (and rlu_lock, which asserts that it succeeds) *)

MayLock(t, o) ==
    /\ t \in Writers
    /\ pc[t] = "section"
    /\ Coarse => g_rlu_writer_locks[LockOf[o]] = t

\* Locked by this execution already: the caller gets the copy.
TryLockOwn(t, o) ==
    LET c == p_obj_copy[o]
    IN  /\ MayLock(t, o)
        /\ c # NULL /\ c.th = t /\ At(c).run = run_counter[t]
        /\ Got(t, o, c)
        /\ UNCHANGED <<globalVars, peerVars, ownVars, pc, ctlVars, callVars,
                       n_starts, ghostVars>>

\* Mutant of TryLockFail: a thread that is blocked by its own write-sets does not
\* ask itself to synchronise.
MutTryLockFail(t, o) ==
    LET c == p_obj_copy[o]
    IN  /\ MayLock(t, o)
        /\ c # NULL /\ ~(c.th = t /\ At(c).run = run_counter[t])
        /\ IF c.th = t
           THEN /\ Goto(t, "failed")
                /\ UNCHANGED <<is_sync, callVars>>
           ELSE /\ cur_obj' = [cur_obj EXCEPT ![t] = o]
                /\ cur_copy' = [cur_copy EXCEPT ![t] = c]
                /\ Goto(t, "request")
                /\ UNCHANGED is_sync
        /\ UNCHANGED <<globalVars, run_counter, local_version, writer_version,
                       ownVars, ctlVars, refs, n_starts, ghostVars>>

\* Locked by an earlier execution of this thread: fail and synchronise.  Locked by
\* another thread: the owner is asked next, whatever it does meanwhile.
TryLockFail(t, o) ==
    LET c == p_obj_copy[o]
    IN  /\ MayLock(t, o)
        /\ c # NULL /\ ~(c.th = t /\ At(c).run = run_counter[t])
        /\ IF c.th = t
           THEN /\ is_sync' = [is_sync EXCEPT ![t] = TRUE]
                /\ Goto(t, "failed")
                /\ UNCHANGED callVars
           ELSE /\ cur_obj' = [cur_obj EXCEPT ![t] = o]
                /\ cur_copy' = [cur_copy EXCEPT ![t] = c]
                /\ Goto(t, "request")
                /\ UNCHANGED is_sync
        /\ UNCHANGED <<globalVars, run_counter, local_version, writer_version,
                       ownVars, ctlVars, refs, n_starts, ghostVars>>

\* rlu_send_sync_request, and the thread's own request.  Each is a load and a
\* store that leaves a count that is not zero, whatever was stored in between.
SendSyncRequest(t) ==
    /\ pc[t] = "request"
    /\ is_sync' = [is_sync EXCEPT ![cur_copy[t].th] = TRUE, ![t] = TRUE]
    /\ EndCall(t)
    /\ Goto(t, "failed")
    /\ UNCHANGED <<globalVars, run_counter, local_version, writer_version,
                   ownVars, ctlVars, refs, n_starts, ghostVars>>

\* Free: write the header of the copy; the CAS that installs it comes next.
TryLock(t, o) ==
    /\ MayLock(t, o)
    /\ p_obj_copy[o] = NULL
    /\ is_write_detected' = [is_write_detected EXCEPT ![t] = TRUE]
    /\ is_check_locks' = [is_check_locks EXCEPT ![t] = @ \/ ~is_write_detected[t]]
    /\ cur_obj' = [cur_obj EXCEPT ![t] = o]
    /\ cur_copy' = [cur_copy EXCEPT ![t] = NextCopy(t)]
    /\ Goto(t, "cas")
    /\ UNCHANGED <<globalVars, peerVars, is_steal, counterVars, logVars,
                   ctlVars, refs, n_starts, ghostVars>>

\* Mutant of TryLockCas: a plain store, which does not see that it lost the race.
MutTryLockCas(t) ==
    /\ pc[t] = "cas"
    /\ p_obj_copy' = [p_obj_copy EXCEPT ![cur_obj[t]] = cur_copy[t]]
    /\ Goto(t, "copy")
    /\ UNCHANGED <<data, versionVars, joinVars, g_rlu_writer_locks, peerVars,
                   ownVars, ctlVars, callVars, refs, n_starts, ghostVars>>

TryLockCas(t) ==
    /\ pc[t] = "cas"
    /\ IF p_obj_copy[cur_obj[t]] = NULL
       THEN /\ p_obj_copy' = [p_obj_copy EXCEPT ![cur_obj[t]] = cur_copy[t]]
            /\ Goto(t, "copy")
            /\ UNCHANGED callVars
       ELSE /\ Goto(t, "failed")
            /\ EndCall(t)
            /\ UNCHANGED p_obj_copy
    /\ UNCHANGED <<data, versionVars, joinVars, g_rlu_writer_locks, peerVars,
                   ownVars, ctlVars, refs, n_starts, ghostVars>>

\* The memcpy, and the update the client then makes in its copy, which nobody
\* else reads while the section lasts.
TryLockCopy(t) ==
    LET o == cur_obj[t]
        e == [obj |-> o, val |-> data[o] \cup {<<t, n_starts[t]>>},
              run |-> run_counter[t]]
    IN  /\ pc[t] = "copy"
        /\ obj_write_set' = [obj_write_set EXCEPT ![t][WsCurId(t)] = Append(@, e)]
        /\ Got(t, o, cur_copy[t])
        /\ EndCall(t)
        /\ Goto(t, "section")
        /\ UNCHANGED <<globalVars, peerVars, flagVars, counterVars, ws_writer_locks,
                       ctlVars, n_starts, ghostVars>>

-----------------------------------------------------------------------------
(* rlu_reader_unlock, rlu_commit_write_set *)

\* Mutant of MustSync: only when the ring is full.
MutMustSync(t, tail) == WS_INDEX(tail) = WS_INDEX(ws_head_counter[t])

\* (1) all the slots of the ring are in use, or (2) enough write-sets wait.
MustSync(t, tail) ==
    \/ WS_INDEX(tail) = WS_INDEX(ws_head_counter[t])
    \/ tail - ws_wb_counter[t] >= max_write_sets

\* The objects with a copy in the current write-set of t.
Updated(t) ==
    LET ws == WriteSet(t, ws_tail_counter[t]) IN {ws[k].obj : k \in DOMAIN ws}

LeaveSection(t) ==
    /\ run_counter' = [run_counter EXCEPT ![t] = @ + 1]
    /\ refs' = [refs EXCEPT ![t] = {}]
    /\ snap' = [snap EXCEPT ![t] = [o \in Objs |-> {}]]

\* A section that detected no write releases its writer locks and is over.
ReaderUnlock(t) ==
    /\ pc[t] = "section"
    /\ ~is_write_detected[t]
    /\ LeaveSection(t)
    /\ Goto(t, "release_cur")
    /\ UNCHANGED <<globalVars, local_version, writer_version, is_sync, ownVars,
                   ctlVars, callVars, n_starts, committed>>

\* One that did moves to the next write-set and perhaps synchronises.
CommitUnlock(t) ==
    LET tail == ws_tail_counter[t] + 1
    IN  /\ pc[t] = "section"
        /\ is_write_detected[t]
        /\ LeaveSection(t)
        /\ is_write_detected' = [is_write_detected EXCEPT ![t] = FALSE]
        /\ ws_tail_counter' = [ws_tail_counter EXCEPT ![t] = tail]
        /\ committed' = [o \in Objs |-> committed[o] \cup
               IF o \in Updated(t) THEN {<<t, n_starts[t]>>} ELSE {}]
        /\ IF MustSync(t, tail)
           THEN SyncCall(t, tail, "release_prev")
           ELSE Goto(t, "release_prev") /\ UNCHANGED ret
        /\ UNCHANGED <<globalVars, local_version, writer_version, is_sync,
                       is_check_locks, is_steal, ws_head_counter,
                       ws_wb_counter, logVars, stamp, q_threads, loopVars,
                       callVars, n_starts>>

(* rlu_release_writer_locks, one lock at a time, of the write-set just     *)
(* committed or of the current one.                                        *)

\* Mutant of ReleaseSlot: always the current write-set, after a commit as well.
MutReleaseSlot(t) == WsCurId(t)

ReleaseSlot(t) ==
    WS_INDEX(IF pc[t] = "release_prev" THEN ws_tail_counter[t] - 1
                                       ELSE ws_tail_counter[t])

Releasing(t) == pc[t] \in {"release_cur", "release_prev"}

ReleaseWriterLock(t) ==
    LET locks == ws_writer_locks[t][ReleaseSlot(t)]
    IN  /\ Releasing(t)
        /\ i[t] < Len(locks)
        /\ g_rlu_writer_locks' = [g_rlu_writer_locks EXCEPT ![locks[i[t] + 1]] = NULL]
        /\ i' = [i EXCEPT ![t] = @ + 1]
        /\ UNCHANGED <<objVars, versionVars, joinVars, peerVars, ownVars, pc,
                       syncVars, ws_counter, clientVars>>

\* The current write-set is reset (a committed one when its copies are no
\* longer used: ResetWriteSets), and the checkpoint ends the call.
ReleaseEnd(t) ==
    LET s == ReleaseSlot(t)
    IN  /\ Releasing(t)
        /\ i[t] = Len(ws_writer_locks[t][s])
        /\ i' = [i EXCEPT ![t] = 0]
        /\ IF pc[t] = "release_cur"
           THEN /\ obj_write_set' = [obj_write_set EXCEPT ![t][s] = <<>>]
                /\ ws_writer_locks' = [ws_writer_locks EXCEPT ![t][s] = <<>>]
           ELSE UNCHANGED logVars
        /\ Checkpoint(t, "idle")
        /\ UNCHANGED <<globalVars, peerVars, flagVars, counterVars, stamp,
                       q_threads, ws_counter, clientVars>>

-----------------------------------------------------------------------------
(* rlu_abort *)

Abort(t) ==
    /\ pc[t] = "failed"
    /\ LeaveSection(t)
    /\ is_write_detected' = [is_write_detected EXCEPT ![t] = FALSE]
    /\ Goto(t, IF is_write_detected[t] THEN "unlock_objs" ELSE "release_cur")
    /\ UNCHANGED <<globalVars, local_version, writer_version, is_sync,
                   is_check_locks, is_steal, counterVars, logVars, ctlVars,
                   callVars, n_starts, committed>>

\* Mutant of UnlockObjs: the loop ends one object early.
MutUnlockObjs(t) ==
    LET ws == WriteSet(t, ws_tail_counter[t])
    IN  /\ pc[t] = "unlock_objs"
        /\ IF i[t] + 1 < Len(ws)
           THEN /\ p_obj_copy' = [p_obj_copy EXCEPT ![ws[i[t] + 1].obj] = NULL]
                /\ i' = [i EXCEPT ![t] = @ + 1]
                /\ UNCHANGED pc
           ELSE /\ i' = [i EXCEPT ![t] = 0]
                /\ Goto(t, "release_cur")
                /\ UNCHANGED p_obj_copy
        /\ UNCHANGED <<data, versionVars, joinVars, g_rlu_writer_locks,
                       peerVars, ownVars, syncVars, ws_counter, clientVars>>

\* rlu_unlock_objs: UNLOCK the objects of the current write-set one by one.
UnlockObjs(t) ==
    LET ws == WriteSet(t, ws_tail_counter[t])
    IN  /\ pc[t] = "unlock_objs"
        /\ IF i[t] < Len(ws)
           THEN /\ p_obj_copy' = [p_obj_copy EXCEPT ![ws[i[t] + 1].obj] = NULL]
                /\ i' = [i EXCEPT ![t] = @ + 1]
                /\ UNCHANGED pc
           ELSE /\ i' = [i EXCEPT ![t] = 0]
                /\ Goto(t, "release_cur")
                /\ UNCHANGED p_obj_copy
        /\ UNCHANGED <<data, versionVars, joinVars, g_rlu_writer_locks,
                       peerVars, ownVars, syncVars, ws_counter, clientVars>>

-----------------------------------------------------------------------------
(* rlu_sync_and_writeback *)

\* self->writer_version = g_rlu_writer_version + 1 is a load ...
SyncLoad(t) ==
    /\ pc[t] = "load"
    /\ stamp' = [stamp EXCEPT ![t] = g_rlu_writer_version + 1]
    /\ Goto(t, "store")
    /\ UNCHANGED <<globalVars, peerVars, ownVars, ret, q_threads, loopVars,
                   clientVars>>

\* ... and a store ...
SyncStore(t) ==
    /\ pc[t] = "store"
    /\ writer_version' = [writer_version EXCEPT ![t] = stamp[t]]
    /\ stamp' = [stamp EXCEPT ![t] = 0]
    /\ Goto(t, "bump")
    /\ UNCHANGED <<globalVars, run_counter, local_version, is_sync, ownVars,
                   ret, q_threads, loopVars, clientVars>>

\* ... before the FETCH_AND_ADD that publishes the write-sets; the loop of
\* rlu_init_quiescence starts.
SyncBump(t) ==
    /\ pc[t] = "bump"
    /\ g_rlu_writer_version' = g_rlu_writer_version + 1
    /\ i' = [i EXCEPT ![t] = 0]
    /\ Goto(t, "scan")
    /\ UNCHANGED <<objVars, g_rlu_commit_version, joinVars, g_rlu_writer_locks,
                   peerVars, ownVars, syncVars, ws_counter, clientVars>>

\* rlu_init_quiescence: note the threads that are in a section, one by one;
\* g_rlu_cur_threads is read again at each turn of the loop.
Scan(t) ==
    LET u == i[t]
    IN  /\ pc[t] = "scan"
        /\ u < g_rlu_cur_threads
        /\ i' = [i EXCEPT ![t] = @ + 1]
        /\ q_threads' = [q_threads EXCEPT ![t][u] =
               IF u # t /\ u \in g_rlu_threads /\ run_counter[u] % 2 = 1
               THEN run_counter[u] ELSE 0]
        /\ UNCHANGED <<globalVars, peerVars, ownVars, pc, ret, stamp,
                       ws_counter, clientVars>>

\* Mutant of ScanEnd: the thread that joined last is not scanned.
MutScanEnd(t) ==
    /\ pc[t] = "scan"
    /\ i[t] + 1 >= g_rlu_cur_threads
    /\ i' = [i EXCEPT ![t] = 0]
    /\ Goto(t, "wait")
    /\ UNCHANGED <<globalVars, peerVars, ownVars, syncVars, ws_counter,
                   clientVars>>

ScanEnd(t) ==
    /\ pc[t] = "scan"
    /\ i[t] >= g_rlu_cur_threads
    /\ i' = [i EXCEPT ![t] = 0]
    /\ Goto(t, "wait")
    /\ UNCHANGED <<globalVars, peerVars, ownVars, syncVars, ws_counter,
                   clientVars>>

\* Mutants of Passed: a version below the writer's is late enough; a section is
\* waited for even when it is over.
MutPassedEarly(t, u) ==
    \/ q_threads[t][u] = 0
    \/ run_counter[u] # q_threads[t][u]
    \/ local_version[u] + 1 >= writer_version[t]

MutPassedLate(t, u) == q_threads[t][u] = 0 \/ local_version[u] >= writer_version[t]

\* rlu_wait_for_quiescence need not wait for u: it left the section that was
\* noted, or the section started late enough to read the published copies.
Passed(t, u) ==
    \/ q_threads[t][u] = 0
    \/ run_counter[u] # q_threads[t][u]
    \/ local_version[u] >= writer_version[t]

\* The loop waits for one thread after the other.  What it waits for stays
\* true, so it is over exactly when all of it holds.
Wait(t) ==
    /\ pc[t] = "wait"
    /\ \A u \in Threads : Passed(t, u)
    /\ q_threads' = [q_threads EXCEPT ![t] = [u \in Threads |-> 0]]
    /\ Goto(t, "reset")
    /\ UNCHANGED <<globalVars, peerVars, ownVars, ret, stamp, loopVars,
                   clientVars>>

\* Mutant of ResetWriteSets: the first of the write-sets is not reset.
MutResetWriteSets(t) ==
    LET free == {WS_INDEX(c) : c \in ws_head_counter[t] + 1 .. ws_wb_counter[t] - 1}
        Reset(log) == [log EXCEPT ![t] =
                          [s \in Slots |-> IF s \in free THEN <<>> ELSE log[t][s]]]
    IN  /\ pc[t] = "reset"
        /\ obj_write_set' = Reset(obj_write_set)
        /\ ws_writer_locks' = Reset(ws_writer_locks)
        /\ ws_head_counter' = [ws_head_counter EXCEPT ![t] = ws_wb_counter[t]]
        /\ ws_counter' = [ws_counter EXCEPT ![t] = ws_wb_counter[t]]
        /\ Goto(t, "writeback")
        /\ UNCHANGED <<globalVars, peerVars, flagVars, ws_wb_counter,
                       ws_tail_counter, syncVars, i, clientVars>>

\* rlu_writeback_write_sets_and_unlock: the write-sets written back by the
\* previous synchronisation are free now.
ResetWriteSets(t) ==
    LET free == {WS_INDEX(c) : c \in ws_head_counter[t] .. ws_wb_counter[t] - 1}
        Reset(log) == [log EXCEPT ![t] =
                          [s \in Slots |-> IF s \in free THEN <<>> ELSE log[t][s]]]
    IN  /\ pc[t] = "reset"
        /\ obj_write_set' = Reset(obj_write_set)
        /\ ws_writer_locks' = Reset(ws_writer_locks)
        /\ ws_head_counter' = [ws_head_counter EXCEPT ![t] = ws_wb_counter[t]]
        /\ ws_counter' = [ws_counter EXCEPT ![t] = ws_wb_counter[t]]
        /\ Goto(t, "writeback")
        /\ UNCHANGED <<globalVars, peerVars, flagVars, ws_wb_counter,
                       ws_tail_counter, syncVars, i, clientVars>>

\* memcpy of one copy to its object ...
Writeback(t) ==
    LET ws == WriteSet(t, ws_counter[t])
    IN  /\ pc[t] = "writeback"
        /\ ws_counter[t] < ws_tail_counter[t]
        /\ i[t] < Len(ws)
        /\ data' = [data EXCEPT ![ws[i[t] + 1].obj] = ws[i[t] + 1].val]
        /\ Goto(t, "unlock")
        /\ UNCHANGED <<p_obj_copy, versionVars, joinVars, g_rlu_writer_locks,
                       peerVars, ownVars, ctlVars, clientVars>>

\* ... then its UNLOCK, and on to the next copy (a committed write-set has one
\* at least) of this write-set or of the next one.
Unlock(t) ==
    LET ws   == WriteSet(t, ws_counter[t])
        last == i[t] + 1 = Len(ws)
    IN  /\ pc[t] = "unlock"
        /\ p_obj_copy' = [p_obj_copy EXCEPT ![ws[i[t] + 1].obj] = NULL]
        /\ i' = [i EXCEPT ![t] = IF last THEN 0 ELSE @ + 1]
        /\ ws_counter' = [ws_counter EXCEPT ![t] = IF last THEN @ + 1 ELSE @]
        /\ Goto(t, "writeback")
        /\ UNCHANGED <<data, versionVars, joinVars, g_rlu_writer_locks, peerVars,
                       ownVars, syncVars, clientVars>>

\* Every write-set is back; nobody steals from this thread any more.
SyncUnstamp(t) ==
    /\ pc[t] = "writeback"
    /\ ws_counter[t] = ws_tail_counter[t]
    /\ ws_wb_counter' = [ws_wb_counter EXCEPT ![t] = ws_tail_counter[t]]
    /\ ws_counter' = [ws_counter EXCEPT ![t] = 0]
    /\ writer_version' = [writer_version EXCEPT ![t] = MAX_VERSION]
    /\ Goto(t, "commit")
    /\ UNCHANGED <<globalVars, run_counter, local_version, is_sync, flagVars,
                   ws_head_counter, ws_tail_counter, logVars, syncVars, i,
                   clientVars>>

SyncCommit(t) ==
    /\ pc[t] = "commit"
    /\ g_rlu_commit_version' = g_rlu_commit_version + 1
    /\ Goto(t, "sync_end")
    /\ UNCHANGED <<objVars, g_rlu_writer_version, joinVars, g_rlu_writer_locks,
                   peerVars, ownVars, ctlVars, clientVars>>

SyncEnd(t) ==
    /\ pc[t] = "sync_end"
    /\ is_sync' = [is_sync EXCEPT ![t] = FALSE]
    /\ Goto(t, ret[t])
    /\ ret' = [ret EXCEPT ![t] = "idle"]
    /\ UNCHANGED <<globalVars, run_counter, local_version, writer_version,
                   ownVars, stamp, q_threads, loopVars, clientVars>>

-----------------------------------------------------------------------------
(* rlu_thread_finish: synchronise twice. *)

\* Mutants of ThreadFinish: one synchronisation; a checkpoint instead.
MutThreadFinish(t) ==
    /\ pc[t] = "idle"
    /\ t \in Finishers
    /\ SyncCall(t, ws_tail_counter[t], "done")
    /\ UNCHANGED <<globalVars, peerVars, ownVars, stamp, q_threads, loopVars,
                   clientVars>>

MutThreadFinishCheckpoint(t) ==
    /\ pc[t] = "idle"
    /\ t \in Finishers
    /\ Checkpoint(t, "done")
    /\ UNCHANGED <<globalVars, peerVars, ownVars, stamp, q_threads, loopVars,
                   clientVars>>

ThreadFinish(t) ==
    /\ pc[t] = "idle"
    /\ t \in Finishers
    /\ SyncCall(t, ws_tail_counter[t], "finish2")
    /\ UNCHANGED <<globalVars, peerVars, ownVars, stamp, q_threads, loopVars,
                   clientVars>>

ThreadFinish2(t) ==
    /\ pc[t] = "finish2"
    /\ SyncCall(t, ws_tail_counter[t], "done")
    /\ UNCHANGED <<globalVars, peerVars, ownVars, stamp, q_threads, loopVars,
                   clientVars>>

-----------------------------------------------------------------------------
Begin(t) == ReaderLock(t) \/ Register(t) \/ ReadVersion(t) \/ ReadCommitVersion(t)

Access(t) ==
    \/ Steal(t) \/ TryLockCas(t) \/ TryLockCopy(t) \/ SendSyncRequest(t)
    \/ \E o \in Objs : \/ Deref(t, o) \/ DerefLocked(t, o)
                       \/ TryLock(t, o) \/ TryLockOwn(t, o) \/ TryLockFail(t, o)
    \/ \E l \in WriterLocks : TryWriterLock(t, l)

End(t) ==
    \/ ReaderUnlock(t) \/ CommitUnlock(t) \/ Abort(t) \/ UnlockObjs(t)
    \/ ReleaseWriterLock(t) \/ ReleaseEnd(t)

Sync(t) ==
    \/ SyncLoad(t) \/ SyncStore(t) \/ SyncBump(t) \/ Scan(t) \/ ScanEnd(t)
    \/ Wait(t) \/ ResetWriteSets(t) \/ Writeback(t) \/ Unlock(t)
    \/ SyncUnstamp(t) \/ SyncCommit(t) \/ SyncEnd(t)

Thread(t) ==
    \/ ThreadInit(t) \/ ThreadPublish(t) \/ SyncCheckpoint(t)
    \/ Begin(t) \/ Access(t) \/ End(t) \/ Sync(t)
    \/ ThreadFinish(t) \/ ThreadFinish2(t)

\* Everyone has used its sections up, and finished if it is to finish.
Terminated ==
    /\ \A t \in Threads : \/ pc[t] = "done"
                          \/ /\ pc[t] = "idle" /\ t \notin Finishers
                             /\ n_starts[t] = MaxStarts[t]
    /\ UNCHANGED vars

Next == Terminated \/ \E t \in Threads : Thread(t)

Spec == Init /\ [][Next]_vars

(* Threads are scheduled, and a client does not stay in a section forever  *)
(* (it can, dereferencing on and on: hence SF for the calls that end it).  *)
(* Nothing makes a client start a section or call the checkpoint, but a    *)
(* finisher does not stay between two calls forever.                       *)

Running(t) ==
    \/ ThreadPublish(t) \/ Register(t) \/ ReadVersion(t) \/ ReadCommitVersion(t)
    \/ Steal(t) \/ TryLockCas(t) \/ TryLockCopy(t) \/ SendSyncRequest(t)
    \/ UnlockObjs(t) \/ ReleaseWriterLock(t) \/ ReleaseEnd(t)
    \/ Sync(t) \/ ThreadFinish2(t)

Leaving(t) == ReaderUnlock(t) \/ CommitUnlock(t) \/ Abort(t)

Fairness ==
    \A t \in Threads : /\ WF_vars(Running(t))
                       /\ SF_vars(Leaving(t))
                       /\ WF_vars(ThreadFinish(t))

FairSpec == Spec /\ Fairness

-----------------------------------------------------------------------------
(* Properties *)

Labels == {"new", "publish", "idle", "register", "version", "commit_version",
           "section", "steal", "request", "cas", "copy", "failed", "unlock_objs",
           "release_cur", "release_prev", "load", "store", "bump", "scan", "wait",
           "reset", "writeback", "unlock", "commit", "sync_end", "finish2", "done"}

Returns == {"idle", "register", "release_prev", "finish2", "done"}

GlobalTypes ==
    /\ p_obj_copy \in [Objs -> Addr \cup {NULL}]
    /\ data \in [Objs -> Value]
    /\ g_rlu_writer_version \in Nat
    /\ g_rlu_commit_version \in Nat
    /\ g_rlu_cur_threads \in 0 .. NThreads
    /\ g_rlu_threads \in SUBSET Threads
    /\ g_rlu_writer_locks \in [WriterLocks -> Threads \cup {NULL}]

PeerTypes ==
    /\ run_counter \in [Threads -> Nat]
    /\ local_version \in [Threads -> Nat]
    /\ writer_version \in [Threads -> Nat]
    /\ is_sync \in [Threads -> BOOLEAN]

OwnTypes ==
    /\ is_check_locks \in [Threads -> BOOLEAN]
    /\ is_steal \in [Threads -> BOOLEAN]
    /\ is_write_detected \in [Threads -> BOOLEAN]
    /\ ws_head_counter \in [Threads -> Nat]
    /\ ws_wb_counter \in [Threads -> Nat]
    /\ ws_tail_counter \in [Threads -> Nat]
    /\ obj_write_set \in [Threads -> [Slots -> Seq(Entry)]]
    /\ ws_writer_locks \in [Threads -> [Slots -> Seq(WriterLocks)]]

ControlTypes ==
    /\ pc \in [Threads -> Labels]
    /\ ret \in [Threads -> Returns]
    /\ stamp \in [Threads -> Nat]
    /\ q_threads \in [Threads -> [Threads -> Nat]]
    /\ i \in [Threads -> Nat]
    /\ ws_counter \in [Threads -> Nat]

ClientTypes ==
    /\ cur_obj \in [Threads -> Objs \cup {NULL}]
    /\ cur_copy \in [Threads -> Addr \cup {NULL}]
    /\ refs \in [Threads -> SUBSET (Objs \X Ptr)]
    /\ n_starts \in [Threads -> Nat]
    /\ snap \in [Threads -> [Objs -> Value]]
    /\ committed \in [Objs -> Value]

\* The types of the globals, of rlu_thread_data_t and of the control state.
TypeOK == GlobalTypes /\ PeerTypes /\ OwnTypes /\ ControlTypes /\ ClientTypes

\* The section of t has read local_version and not unregistered.
InSection(t) ==
    pc[t] \in {"commit_version", "section", "steal", "request", "cas", "copy", "failed"}

\* The wait of rlu_synchronize is a grace period (rlu.c:495-532): once it is
\* over, and as long as the writer reuses its log and writes back, every other
\* section has a local_version that reads the published copies.  This relates
\* the scan, done thread by thread, to sections that start, end and start again
\* meanwhile, and to threads that join.
GracePeriod ==
    \A w, u \in Threads :
        (pc[w] \in {"reset", "writeback", "unlock"} /\ u # w /\ InSection(u))
            => local_version[u] >= writer_version[w]

\* The contents behind a pointer.
Contents(p) == IF p \in Objs THEN data[p] ELSE At(p).val

\* A section sees one snapshot (rlu.c:835-840): whatever
\* pointers it got, now or earlier, they show the contents that were published
\* when it read its local_version, but for the copies it locked itself.
SnapshotConsistent ==
    \A t \in Threads : \A r \in refs[t] :
        LET o == r[1]
            p == r[2]
        IN  IF p \in Addr /\ p.th = t
            THEN /\ p_obj_copy[o] = p
                 /\ p.ws = WsCurId(t) => At(p).val \ {<<t, n_starts[t]>>} = snap[t][o]
            ELSE Contents(p) = snap[t][o]

\* The log is not reused under a reader (rlu.c:838-840, "going to wait for this
\* thread to finish before reusing the write-set log"): a copy that a section
\* took from another thread stays that object's copy, unchanged, while the
\* section lasts.
StolenCopyStable ==
    [][\A t \in Threads : \A r \in refs[t] \cap refs'[t] :
           (r[2] \in Addr /\ r[2].th # t)
               => /\ r[2].ix \in DOMAIN obj_write_set'[r[2].th][r[2].ws]
                  /\ At(r[2])' = At(r[2])]_vars

LiveCopies(t) ==
    LET back  == pc[t] \in {"writeback", "unlock"}
        abort == pc[t] = "unlock_objs"
        first == IF back THEN ws_counter[t] ELSE ws_wb_counter[t]
        last  == ws_tail_counter[t] - (IF InSection(t) \/ abort THEN 0 ELSE 1)
        gone(n) == IF (back /\ n = first) \/ (abort /\ n = last) THEN i[t] ELSE 0
    IN  UNION {{[th |-> t, ws |-> WS_INDEX(n), ix |-> k] :
                    k \in gone(n) + 1 .. Len(WriteSet(t, n))} : n \in first .. last}

\* The lock of an object and the log of its owner agree (the assertions at
\* rlu.c:345, 405, 927 and what rlu_try_lock relies on when it reads a header):
\* p_obj_copy points to the one live copy of the object, if there is one.
LockOwnership ==
    /\ \A o \in Objs :
          LET c == p_obj_copy[o]
          IN  c # NULL => \/ pc[c.th] = "copy" /\ cur_obj[c.th] = o /\ cur_copy[c.th] = c
                          \/ c \in LiveCopies(c.th)
    /\ \A t \in Threads : \A c \in LiveCopies(t) : p_obj_copy[At(c).obj] = c

\* No committed update is lost or applied twice: what is published, or waits to
\* be, for an object is exactly what the sections that ended with
\* rlu_reader_unlock wrote to it, however the write-backs were deferred.
NoLostUpdate ==
    \A o \in Objs :
        LET c == p_obj_copy[o]
        IN  committed[o] = IF c # NULL /\ c.ws # WsCurId(c.th)
                           THEN At(c).val ELSE data[o]

\* The ring always has a free slot for the section in progress, it never catches
\* up with a slot whose copies may still be read, and the write-set just committed
\* is not reused yet: both assertions of rlu_commit_write_set (rlu.c:608-609) when
\* its callers go on.
CurrentSlotFree ==
    \A t \in Threads :
        /\ ws_head_counter[t] <= ws_wb_counter[t]
        /\ ws_wb_counter[t] <= ws_tail_counter[t]
        /\ pc[t] \in {"release_prev", "idle", "register", "section"} =>
              ws_tail_counter[t] - ws_head_counter[t] < RLU_MAX_WRITE_SETS
        /\ pc[t] = "release_prev" => ws_head_counter[t] < ws_tail_counter[t]
        /\ pc[t] \in {"idle", "register"} =>
              WriteSet(t, ws_tail_counter[t]) = <<>>

\* After rlu_thread_finish no object is locked by the thread, no section holds a
\* pointer into its log, and one that read a header before the thread aborted and
\* finished takes the object and not the copy.
FinishedLogUnreferenced ==
    \A t, u \in Threads :
        pc[t] = "done" =>
            /\ \A o \in Objs : p_obj_copy[o] # NULL => p_obj_copy[o].th # t
            /\ (pc[u] = "steal" /\ cur_copy[u].th = t) => ~MaySteal(u, t)
            /\ \A r \in refs[u] : r[2] \in Addr => r[2].th # t

\* rlu_lock "never fails" (rlu.c:942, README-RLU.md:83): whoever holds the writer
\* lock of an object finds the object unlocked or locked by this execution.
CoarseLockNeverFails ==
    \A t \in Threads, o \in Objs :
        (pc[t] \in {"section", "cas"} /\ Coarse /\ g_rlu_writer_locks[LockOf[o]] = t)
            => \/ p_obj_copy[o] = NULL
               \/ p_obj_copy[o].th = t /\ At(p_obj_copy[o]).run = run_counter[t]

\* Writer locks cover the write-back and the roll-back (README-RLU.md:87): an
\* object stays locked only while its owner has the writer lock, and a thread
\* that left its section has given all of them back.
WriterLocksCover ==
    Coarse =>
        /\ \A o \in Objs : p_obj_copy[o] # NULL =>
              g_rlu_writer_locks[LockOf[o]] = p_obj_copy[o].th
        /\ \A l \in WriterLocks : g_rlu_writer_locks[l] # NULL =>
              pc[g_rlu_writer_locks[l]] \notin {"idle", "register", "version"}

\* No request to synchronise is lost (rlu.c:579-581 against 588): the owner of a
\* lock clears is_sync only when it holds no lock any more, so a request that
\* arrives while it writes back, or between its calls, is met or still stands.
RequestsHonoured ==
    [][\A t \in Threads :
           (is_sync[t] /\ ~is_sync'[t])
               => \A o \in Objs : p_obj_copy[o] # NULL => p_obj_copy[o].th # t]_vars

\* A synchronisation is over some time: the wait for the sections it noted ends.
SyncTerminates ==
    \A t \in Threads : pc[t] = "load" ~> pc[t] \in Returns

\* When every thread finishes, every object ends up unlocked for good.
EventuallyUnlocked == <>[](\A o \in Objs : p_obj_copy[o] = NULL)
=============================================================================
