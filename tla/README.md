# A TLA+ model of RLU and of the lists it is compared with

This directory specifies, model-checks and partly proves the concurrent core of
the repository: the Read-Log-Update library (`rlu.c`) and the list built on it,
the lock-free lists (`hash-list.c`, the `harris_*` and `hp_harris_*` functions),
the userspace RCU (`new-urcu.c`), and the kernel benchmark with its RCU list
(`kernel-bench/`). Line numbers below are those of the source files.

## 1. The system

| component | state | operations | interacts with |
|---|---|---|---|
| RLU protocol, `rlu.c`, `rlu.h` | per object: `p_obj_copy` and the contents; globals: writer and commit version, thread table, writer locks; per thread: `run_counter`, `local_version`, `writer_version`, flags, a ring of write-sets | thread init / finish, reader lock / unlock, deref, try_lock / lock, try_writer_lock, abort, sync checkpoint | threads read each other's counters, versions and write-sets without locks |
| RLU reclamation, `rlu.c:441-462, 703-739` | `free_nodes` of each thread | alloc, free, process_free | runs at the end of a synchronisation |
| RLU list, `hash-list.c` | sorted linked list of RLU objects | contains, add, remove, with restart on a failed lock | client of the RLU protocol |
| Lock-free lists, `hash-list.c` | sorted linked list with a mark bit in `p_next` | search, contains, add, remove; hazard pointers in one variant | threads race on `p_next` with CAS |
| Userspace RCU, `new-urcu.c` | a counter per thread, a buffer of pointers to free, a spin lock per bucket | reader lock / unlock, writer lock / unlock, synchronize, free | the RCU list |
| RCU list, `hash-list.c`, `kernel-bench/rcu-hash-list.c`, `kernel-bench/intset.c` | linked list, one writer per bucket | contains, add, remove | client of the userspace RCU, or of the kernel's |
| Hazard pointers, `hazard_ptrs.c` | an array of records per thread | reset, save, restore, alloc, init | written by the `hp_harris` list, read by nobody |
| Benchmark driver, `bench.c` | threads, barrier, statistics | populate, run, count | all lists |
| Kernel benchmark, `kernel-bench/sync_test.c`, `barrier.c` | barrier, completions, counters, thread data | fill, start, work, finish, sum up, empty, free | calls one of the kernel's lists; `rlu.c` compiled for the kernel |

What is hard:

* *RLU.* A reader decides from four unsynchronised reads (two global versions,
  the object's header, the owner's `writer_version`) whether it reads an object
  or somebody's copy of it. Writers may defer the write-back of several
  sections and recycle logs in a ring; a log must outlive the readers of its
  copies by one more grace period. Locks are taken by CAS and given back by
  commit, abort, write-back or the request of another thread.
* *Lock-free lists.* A search remembers a node that others may mark, unlink or
  insert after before its CAS; a remove has two CASes and the second may fail.
* *RLU list.* A walk may pass through copies in the logs of others; a node is
  linked, unlinked and freed in sections whose effect may be deferred; a failed
  lock undoes the section and starts the operation over; memory is reused.
* *RCU.* The counters of the threads are read one by one, and waited for one by
  one, while sections end and begin. Readers of the list take no lock and may
  stand on a node that is no longer in it.
* *Kernel benchmark.* Three phases are separated by a barrier and by completions;
  each of them ends only if every thread takes part.

What makes each part correct:

* RLU: a section sees one snapshot; copies that were taken stay as they are; no
  committed update is lost; a lock and the log of its owner agree; grace periods
  are real; synchronisations end; objects end up unlocked; a lock under a writer
  lock never fails; nobody refers to a finished thread.
* Lists: linearizable sets, sorted at each instant, lock-free, nothing deleted
  left in them.
* RLU list: a set whose updates reach the other threads all at once and within
  `max_write_sets` updates; no block is reused under a section, and each is free
  in the end; the size is what the threads counted; calls return.
* RCU: no use after free, no double free, `urcu_synchronize` returns, the buffer
  never overflows.
* Kernel benchmark: no work before the set is filled, complete statistics, an
  empty list at the end, an end; no thread data freed that is in use.

## 2. The modules

| module | models | state and actions |
|---|---|---|
| `Rlu` | `rlu.c`, without `rlu_alloc` and `rlu_free` | the variables have the names of the C fields; one action per access to shared memory, grouped under the function it belongs to |
| `RluSnapshot` | what RLU promises | a store of objects; sections read it as it was when they started, a thread publishes the updates of its finished sections at once |
| `RluImplements` | the refinement mapping from `Rlu` to `RluSnapshot` | the store changes at the increment of `g_rlu_writer_version` |
| `RluProofs`, `RluLogProofs`, `RluSnapshotProofs` (each extends the one before) | the proofs about `Rlu` | section 5 |
| `HarrisList` | `harris_list_*` and `hp_harris_list_*` | nodes are numbered as they are linked; `variant` says which list |
| `ConcurrentSet` | what a list promises | a linearizable set: each result is right at an instant between call and return |
| `Urcu` | `new-urcu.c` and the way `rcu_list_*` uses it | a bucket is the set of its nodes; `reach` is what a section may have its hands on |
| `RluList` (extends `Rlu`) | `rlu_list_*`, `rlu_alloc`, `rlu_free`, `rlu_process_free`, the loop and the size check of `bench.c` | each step of an operation is the step of `Rlu` it makes, with what the list does next |
| `DeferredSet` | what the RLU list promises | a set that each thread sees with its own unpublished updates |
| `RcuList` | the RCU list of `kernel-bench/` under the kernel's RCU | blocks of memory with `val` and `p_next`, one access per step |
| `SyncTest` (extends `RcuList`) | `sync_test.c` and `barrier.c` | `stage` of each thread; thread 0 is the one that loads the module |
| `RluListProofs` (extends `RluList`, `RluSnapshotProofs`) | the proofs about `RluList` | section 5 |
| `UrcuProofs`, `RcuListProofs`, `SyncTestProofs`, `HarrisProofs` | the proofs about `Urcu`, `RcuList`, `SyncTest` and `HarrisList` | section 5 |
| `MCRlu`, `MCRluList`, `MCHarrisList`, `MCUrcu`, `MCSyncTest` | constant values and symmetry sets for TLC | |

Operators called `Mut...` are deliberately wrong variants of the operator below
them (a dropped condition, an early exit, a wrong slot). They take no part in any
specification; each one put in the place of the original makes the property it
is meant for fail, which shows that the property depends on that code.

### Rlu

* *Steps.* One access to memory that another thread can touch, with the local
  work around it. Memory is sequentially consistent: the accesses whose order
  matters are separated by locked instructions or `MEMBARSTLD` on x86
  (the FETCH_AND_ADD of `run_counter` before the read of the version, that of
  `g_rlu_writer_version` and the barrier before the scan, the CAS of the header
  before the memcpy). Kept apart: the load, the store and the FETCH_AND_ADD of
  lines 563-564; the read of an object's header and that of its owner's
  `writer_version`; the read of a header that makes a lock fail and the request
  to its owner (line 588); the check of the header and the CAS; the scan and the
  write-back, object by object; the release of writer locks, one by one.
* *Merged.* The inline test of `RLU_DEREF` and the second read of the same header
  by the slow path; the load and the CAS of a writer lock; the memcpy into the
  copy with what the client then writes there, which nobody else reads while the
  section lasts. The wait loop visits threads in order, but what it waits for
  stays true, so it is over when all of it holds: one action with a conjunction.
* *Client.* The most general one that follows `README-RLU.md`: any objects in any
  order, read or locked; after a failed lock it aborts, as every caller in
  `hash-list.c` and `kernel-bench/rlu-hash-list.c` does. In the coarse type it
  takes the writer lock of an object before it locks it and does not ask for a
  writer lock it has.
* *Data.* The contents of an object are the set of updates they incorporate, an
  update being a thread and the number of its section. A copy is named by
  thread, ring slot and position. `is_sync` is zero or not: an increment, though
  a load and a store, leaves it not zero whatever is stored in between.
* *History variables.* `snap` is what was published when the section read its
  `local_version`; `committed` is what finished sections wrote. No guard reads
  either of them.
* *Not modelled here.* `rlu_alloc`, `rlu_free`, `rlu_process_free` and
  `rlu_assign_pointer` are in `RluList`. `rlu_cmp_ptrs` has no caller;
  `is_no_quiescence` is set only while the bench populates its list with no other
  section running; counters of events and tracing control nothing.

### RluList

* *Data.* `Rlu` knows the contents of an object as a set of updates. `mem` says
  which node (`val`, `p_next`) such contents are, for each block, so that a copy
  and the object it was made from have a node each. A block that was freed keeps
  its place in `mem` and may be given out again by the next `rlu_alloc`, in any
  order, as another node.
* *Steps.* Those of `Rlu`, each with the local work of the list before and after
  it. `Library` are the steps that do not return to the list. A deref is one step
  of the walk: the load of `p_next`, and the first shared access of the deref of
  what it points to.
* *Calls.* Each thread makes at most `MaxOps` calls of the operations it is given,
  finishes at any time (the benchmark's `stop` is set by a timer) and uses
  nothing after it.
* *Source.* `hash-list.c` and `kernel-bench/rlu-hash-list.c` have the same three
  functions line by line; the map names the lines of one or the other.
* *History variables.* `set` and `view` are the keys in the list that is published
  and in the list that each thread would walk; `seen` is what was true of the
  key during the call. No guard reads them.

`DeferredSet` is the promise. A thread sees its own updates when the section that
made them has ended; the others see all it has published, in one step; a call that
returns leaves fewer than `max_write_sets` unpublished ones. An operation that
changes nothing answers what was true, for its thread, at some instant of the
call. With `max_write_sets` = 1 nothing is left unpublished, and it is a
linearizable set. Its state is that of `RluList` so: `Backlog`, the write-sets of a thread
that are not published; `Changed`, a call that has committed a change and is
about to return; `Answers`, the result of a call that has returned.

### HarrisList

A step is one access to a `p_next`. Nodes are never freed (`harris_free_node`
leaks, the hazard-pointer variant does not free either), so there is no reuse of
addresses and no ABA, and hazard pointers do not change what happens: what is
left of the variant is the local variable `my_left_node`. The search of
`hp_harris_list_remove`'s clean-up is `harris_list_search` in both variants, as in
the source (line 834). A node whose insertion fails is never visible and gets no
number. `Reachable` is the least set that contains the head and is closed under
`p_next`, stated without recursion as `Chain` of `RcuList` is.

### Urcu

The spin lock, the counters, the buffer and the three loops of
`urcu_synchronize` and `urcu_free` are modelled step by step. The list is the set
of its nodes; a section may hold any node that was linked at some instant since
the section began, which is at least what any walk over the links can hold. All
threads are registered from the start, as `bench.c` does.

### RcuList and SyncTest

* *RcuList.* The walk over the links, with blocks that are used again.
  `kernel-bench/intset.c` and `kernel-bench/rcu-hash-list.c` have the same functions
  (one spin lock for all buckets or one per bucket; both build one bucket by
  default), and `rcu_list_*` of `hash-list.c` are those of `rcu-hash-list.c` with the
  locks of `new-urcu.c`; the map names the lines of one or the other. The kernel is
  external: a spin lock excludes, `kfree_rcu` gives a block back some time after
  all the sections that were under way have ended.
* *SyncTest.* `stage` is the place of a thread in `sync_test_init` or
  `sync_test_thread`. Random numbers are any key and any operation. The elapsed time
  is nondeterministic, with at most `MaxOps` operations for each thread.
  `rlu_thread_init` and `rlu_thread_finish` are one step: with the RCU list they
  use the thread data and nothing else.
* *What the list is.* `Chain`, the blocks of the list, is the least set that contains
  the head and is closed under `p_next`; the sum of the counters is taken block of
  threads by block of threads, as a function: both are stated without recursion, so
  that the proofs can use them.
* *ConcurrentSet* is the promise of both the lock-free lists and the RCU list. An
  update may return at once, or later: `remove` frees the node in between.

## 3. The runs

| run | instance | what it checks |
|---|---|---|
| `rlu_fine` | fine-grained, one writer that defers (2 write-sets, ring of 4) in 4 sections, a second thread that joins, with 2 sections; 2 objects | `TypeOK`, `SnapshotConsistent`, `CurrentSlotFree`, `ImplementsSnapshot` |
| `rlu_writers` | fine-grained, two writers of two objects, no deferral, 2 + 1 sections, both finish | `GracePeriod`, `LockOwnership`, `NoLostUpdate`, `StolenCopyStable` |
| `rlu_coarse` | coarse-grained, two writers under one writer lock and a reader, 2 objects | `CoarseLockNeverFails`, `WriterLocksCover`, `ImplementsSnapshot` |
| `rlu_live` | two writers of one object with deferral, 2 + 1 sections, both finish; fairness | `FinishedLogUnreferenced`, `RequestsHonoured`, `SyncTerminates`, `EventuallyUnlocked` |
| `rlu_list` | the list with 3 nodes, in 3 blocks besides those of the head and the tail; one updater (2 write-sets, ring of 4) with 3 calls of add or remove, of the first key or the last; a reader with 1 call; both finish; fairness | `ListTypeOK`, `NoUseAfterFree`, `FreeBuffer`, `ExpectedSize`, `NothingLeaked`, `ImplementsDeferredSet`, `CallReturns` |
| `rlu_list_size` | the same list, two threads that remove, no deferral, 1 + 2 calls | `ExpectedSize` is violated (section 4) |
| `harris_list` | both lists, 3 threads with one operation each, any of 3 keys, 2 of them in the list | `TypeOK`, `ListSorted`, `NoMarkedLeft`, `ImplementsSet` |
| `harris_solo` | the `harris` list, 2 threads with 2 operations, one of them may stop anywhere | `SoloCompletes` |
| `hp_harris_search` | the `hp_harris` list, 2 threads | `SearchRemovesMarked` is violated (section 4) |
| `urcu` | 3 threads with 2, 1 and 1 operations, 2 buckets, 2 nodes, a buffer of 1; fairness | `TypeOK`, `NoUseAfterFree`, `FreedOnce`, `SyncReturns` |
| `sync_test` | 3 threads with 1 operation each, 2 keys, 2 blocks besides those of the head and the tail; fairness | `TypeOK`, `NoUseAfterFree`, `WorkTogether`, `StatisticsComplete`, `NothingLeft`, `ImplementsSet`, `Loads` |
| `sync_test_finish` | 2 threads | `DataOutlivesThread` is violated (section 4) |

*Bounds.* `MaxStarts` (sections per thread), `MaxOps` (operations per thread) and
`MaxNodes` (nodes ever linked, never reached with these values) are the only
bounds; blocks are as many as the machine has in `RluList` and `RcuList`, few
enough that each is used again. `MAX_VERSION` is 1000, above every version that is reached. Four sections
of one writer with two deferred write-sets fill the ring of four once and take
the first slot again, with a reader of each kind alive: that is the shortest
history in which a recycled log could be under a reader. Two objects are enough
for a torn snapshot, two writers for every conflict, and a third thread (in
`rlu_coarse`) for a reader between two writers. For the lists, three operations
are what it takes for one to be overtaken by a second while a third changes the
node it is about to change. With a buffer of one pointer each removal
synchronises, two of them at once too, with a reader that overlaps a whole
`urcu_synchronize` and the start of another; a section may hold a node of either
bucket. In `rlu_list` three updates make one synchronisation of two deferred
sections, leave a third to `rlu_thread_finish`, and let a block be unlinked, freed and
linked again while the reader walks; a failed lock is one on an object that the
updater itself still has locked in a deferred write-set. In `sync_test` the set
has one of two keys before the barrier, which any of the three threads may remove,
add and look up at once, and a node is used again in the measured part and in
the emptying.

*Symmetry.* Objects, list threads and RCU nodes are alike in the runs that check
safety; liveness runs use no symmetry.

*Termination.* `Terminated` is a step that changes nothing and is enabled when
every thread has used up its sections and finished if it is to finish, and `Done`
is in `RluList` and `SyncTest`, so TLC's deadlock check stays on in every passing
run. In `rlu_list_size`, where the list breaks, it is off: a call may then use up
its sections.

*Fairness.* `Rlu!FairSpec`: a thread inside a library call goes on (weak fairness
of `Running`); a section ends some day (strong fairness of `Leaving`, because a
client may dereference again and again in between: README-RLU.md has no such
client); a thread that is to finish does. Nothing makes a thread start a section
or call the checkpoint. `HarrisList!SoloSpec`: only the threads in `Solo` are
scheduled, which is what lock-freedom of a call running alone means.
`Urcu!FairSpec`: a thread that is in an operation goes on; nothing makes it begin
one. `RluList!ListFairSpec`: a thread that is in a call goes on (its walk is
bounded by the list, so nothing stronger is needed); nothing makes it begin a call
or finish. `SyncTest!FairSpec`: the scheduler runs every thread (the loop of the
barrier calls `schedule()`), a grace period of the kernel ends, and, for each key,
a random choice that is made again and again is that key some day (strong
fairness of `Draw`): the filling of the set goes on until half of the keys are in.

*How far this goes.*

* `rlu_fine` has one writer. With several writers in the fine-grained type
  `SnapshotConsistent` does not hold, for the reason given in section 4. The
  coarse-grained type with one writer lock, where synchronisations exclude each
  other, implements the snapshot store with two writers.
* A deferred write-set that holds a lock others want is written back on request
  (`is_sync`), at the owner's next call. Nothing bounds the wait if the owner
  makes no call: `EventuallyUnlocked` is about threads that finish. The request is
  sent some time after the header was read, and the end of a synchronisation resets
  `is_sync` (lines 579-581), so a request may be erased: `RequestsHonoured` says that its
  receiver holds no lock at that moment.
* `rlu_list` has one updater for the same reason: with two, `rlu_list_size` shows what
  becomes of the list. So the restarts that `CallReturns` is about are those caused
  by deferred locks, and not by another updater.
* `rlu_writers` checks `GracePeriod` for threads that are all there; with one that
  joins in the middle of a scan it is proved (section 5).

## 4. Where the code and its comments disagree

**The stamp of a synchronisation can be stale (`rlu.c:563-564`).**
`writer_version = g_rlu_writer_version + 1` is a load and a store, and the
increment of the global comes after. Two threads that synchronise at the same
time may load the same value; the one that stores last then has a stamp that
sections have already read as their `local_version`. Such a section takes a copy
from a writer that has not incremented the global version, contrary to the
comment at `rlu.c:837` ("This thread started after the other thread updated
g_writer_version."), and may see the other object of the same commit as it was
before. `rlu_list_size` shows what becomes of the list. Thread 0 removes the first
node and is in its commit, between the load of line 563 and its store, when thread 1
removes another node and synchronises from beginning to end. Thread 0 then stores
the stamp it computed, which is the version that thread 1's next section reads:
the wait passes that section, and thread 0 writes back and frees the node while
thread 1, which read the list as it was, removes that node too. Both return TRUE
for the same node, it is freed twice, and the size that `bench.c:570` prints is not
the one it expects. Under the coarse type it takes two writer locks, or a thread
that finishes (`rlu_thread_finish` synchronises outside the writer locks).

**The kernel benchmark frees thread data in use (`sync_test.c:161`).** A thread calls
`complete()` first and `rlu_thread_finish(bench->rlu)` after it. The main thread waits
for the completions ("Wait for the threads to finish", line 232) and then gives
the data of all the threads back (line 259). `sync_test_finish` shows it doing so while
another thread is about to finish. The emptying of the list lies in between, so
the window is short in practice with a large `range`.

**The search of the hazard-pointer list does not remove marked nodes
(`hash-list.c:396`).** The walk keeps its left node in `my_left_node`, but the CAS is
on `(*left_node)->p_next`, and `*left_node` still is the head of the list that the
caller put there. Unless the left node is the head (or everything before the marked
nodes has been removed meanwhile) the CAS fails, and the search starts over until
the thread that marked the node unlinks it: the comment at line 395
("Remove one or more marked nodes") does not hold, and neither does
`SoloCompletes`, which is why `harris_solo` is about the other variant. Results
stay linearizable (`ImplementsSet` covers both variants).

## 5. What is proved

The theorems hold for every number of threads, objects, keys, blocks, ring slots and
sections, from the assumptions on the constants that the modules name and TLC
evaluates in every run: `ThreadsAssumption`, `WriteSetsAssumption`,
`ObjectsAssumption` and `AddressesAssumption` (objects, copies and NULL are
at different addresses) of `Rlu`, `NoViewAssumption` of `RluImplements` (NULL is not a
store), `ListAssumption` of `RluList` (the keys are between those of the head and the tail, the
initial keys differ, the list is finite at the start, no call is NULL, the type is the
fine-grained one), `UrcuAssumption`, `ListAssumption` of `RcuList`,
`BenchAssumption` of `SyncTest`, and `KeysAssumption` (the keys are between those of
the head and the tail) and `InitialAssumption` (the list starts sorted, without
duplicates, and fits) of `HarrisList`. The theorems about copies and
snapshots have a hypothesis besides the specification, `[]VersionsBelowMax`:
`g_rlu_writer_version` is below `MAX_VERSION`, which is 2^63 - 2 (`rlu.c:36`), so that
the code has the same limit. Those about snapshots need, besides, that
synchronisations exclude each other, as a hypothesis (`[]SyncsExclude`) or because of
who writes (below).

### Rlu: types and grace periods (`RluProofs`)

* `TypeCorrect`, `Spec => []TypeOK`. `TypeOK` is a conjunction of groups of
  variables (globals, fields that peers read, fields of the owner, control,
  client), and it is inductive with `CallTyped`, which ties what a thread's
  locals may be to its label (a thread about to do the CAS has an object and an
  address), as the steps that write through them need.
* `GracePeriodHolds`, `Spec => []GracePeriod`. `GracePeriod` speaks of the time
  after the wait and is not inductive. `GraceInv` adds what leads there:
  `Parity` (`run_counter` is odd exactly while the thread is registered),
  `Joined` (a thread that may start sections is below `g_rlu_cur_threads` and in
  the table), `Stamped` (from the increment on, the stamp of a synchronisation
  is at most the global version: so whoever reads the global version from
  then on is late enough) and `Scanned` (a section among the threads scanned so
  far is late enough, or is noted with its present `run_counter`; after the wait
  it is late enough). It needs that the stamp is at most
  the value after the increment, and not that it equals it: the stale stamps of
  section 4 do not make a grace period too short for its own stamp, they make
  the stamp mean less.

### Rlu: the logs (`RluLogProofs`)

A write-set is named by its counter. Those from `ws_head_counter` to
`ws_tail_counter - 1` are in the ring, those from `ws_wb_counter` on still lock
their objects. Four invariants are proved, each on top of those before it; all
were first checked by TLC on the instances of `rlu_fine`, `rlu_writers` and
`rlu_coarse`.

* `Ring`, for each thread: how far apart the counters are (`RingOf`; the two
  conditions of `MustSync` keep both distances at `max_write_sets` at most, and
  `2 * max_write_sets <= RLU_MAX_WRITE_SETS` is what makes that enough), which slots are
  empty (`SlotsOf`), that a section has copies exactly when it has detected a write
  (`DetectedOf`), and where the loops of the thread stand (`LoopOf`). That two
  counters in a window have different slots (`SlotsDiffer`) is proved from `%` and
  `\div`. It gives `RingNeverFull`: `CurrentSlotFree`, which is both assertions of
  `rlu_commit_write_set` (lines 608-609).
* `LockInv`: `Live(t, n, k)` says that the k-th copy of write-set n of t locks its
  object (not yet unlocked by the loop that unlocks them); every header points to a
  live copy of that object or to the one being installed, and every live copy is
  pointed to. It gives `LockOwned`: `LockOwnership`, and `RequestsStand`: `RequestsHonoured`,
  since only the end of a synchronisation clears `is_sync`, when no copy of the thread is live.
* `Values`: a live copy of a committed write-set has the contents the object is to
  get, one of the open write-set has the object's and this section's update, and
  an unlocked object has what was committed. It gives `NoUpdateLost`: `NoLostUpdate`.
  Neither of the two needs grace periods or versions: writers exclude each other by
  the headers alone.
* `CoarseInv`, for the coarse type: the writer locks of a thread are those
  noted in its write-set that it has not yet given back, each noted once, and a locked object
  is locked by the thread with its writer lock. It gives `LockNeverFails`
  (`CoarseLockNeverFails`) and `WriterLocksHold` (`WriterLocksCover`).

### Rlu: copies taken by others (`RluSnapshotProofs`, part A)

`StealInv`, checked by TLC on the instances of the four `Rlu` runs:

* `Unstamped`: outside a synchronisation `writer_version` is `MAX_VERSION`.
* `Pending`: while a section has read a header and not yet the owner's version,
  the copy is in a write-set that is not yet written back, or the synchronisation of
  the owner, if one is under way, waits for the section (`Behind`).
* `Taken`: a copy that a section has taken is in the ring of its owner, and if it is
  written back then the synchronisation under way, if any, waits for the section.
  Such a synchronisation cannot get to the reset, by `GraceInv`. That a
  section is waited for by all later synchronisations needs only that a stamp is
  above the version at the time it is computed.
* `Finishing`: the first synchronisation of `rlu_thread_finish` leaves nothing to
  write back, the second one nothing in the ring.

It gives `StolenStays` (the action property `StolenCopyStable`) and
`FinishedUnreferenced` (`FinishedLogUnreferenced`). So stale stamps never let a log be
reused under a reader; what they break is the snapshot (section 4). The
attempt to prove the second one showed that a stronger statement, that no section even holds
a header of a finished thread, is false with three threads: a thread that only
aborted finishes without synchronising, while a section that read the header of
the copy it had locked has yet to read its `writer_version`. The section then finds
`MAX_VERSION` and takes the object. It reads `rlu_thread_data_t` of a finished
thread, which must therefore outlive the other threads' sections, as in `bench.c`,
where it is freed after all threads have been joined.

### Rlu: snapshots and the snapshot store (`RluSnapshotProofs`, parts B and C)

Section 4 says why a section need not see one snapshot when two threads
synchronise at once. The theorems say that nothing else can go wrong.
`SyncsExclude` is what they need: no two threads are between the load of line 563 and
the increment of `g_rlu_commit_version` that ends `rlu_sync_and_writeback`.

* `SnapInv`, which TLC checked on the instances of `rlu_fine` and `rlu_coarse`, is inductive
  on top of the logs, the grace periods and part A:
  `Exact` (the stamp of a synchronisation is the global version after its increment),
  `Counted` (`g_rlu_commit_version` is one behind while a synchronisation is past its
  increment, and equal otherwise), `Unconcerned` (a section that found the two equal,
  and so does not look at the locks of others, has no version for which a copy is
  published), `Viewed` (what a section would
  read of an object now, `Shown`, is what `snap` says: what was published when it started,
  from the object before the write-back of it and from the copy after), `Stealing` (a
  header that was read and whose owner's version was not yet, still decides right),
  `Held` (every pointer a section has got leads to that) and `NewUpdates` (no update of a
  section that goes on is in anybody's snapshot).
* `SnapshotIfExclusive`: `SnapshotConsistent` while synchronisations exclude each other.
  They do with one writer (`OneWriterSnapshot`: the other threads, `Bystanders`, never
  have a write-set, so they never synchronise), and in the coarse type with one
  writer lock if no writer finishes (`OneLockSnapshot`, from `OneWriterLockSerialises`: `Serial` says
  that every synchronisation is that of a section that has the lock and has yet to give it
  back, and that nobody is about to send a request; `rlu_thread_finish` synchronises without
  the lock, which is why no writer finishes here).
* `ImplementsIfExclusive`, `OneWriterImplements`, `OneLockImplements`: the refinement of
  `RluSnapshot`, by the same two routes. The read of the version in `rlu_reader_lock` is `Start`,
  the unlock of a section `Commit`, an abort `Abort`, the increment of
  `g_rlu_writer_version` `Publish`, the completed copy `Write`, and a deref or
  a stolen copy `Read`; every other step leaves the abstract state as it is. What
  connects the two is `Holder`: the live copy of an object, of which there is one
  at most, says which of the abstract sets it is in.

### RluList (`RluListProofs`)

For one thread that updates the list and any number that search it (`Writers
\subseteq {w}`), which may all join, defer, restart and finish; the blocks are any number
and are reused. Section 4 says why not for two updaters: with a stale stamp both
of them remove the same node, and then `ExpectedSize` fails. `ListIsClient` says that every step of the list is
one of `Rlu` or a stutter, so that the theorems above hold under it. The
invariant has two parts.

* `RluInv`, of `Rlu` with one writer: the snapshot invariant, and that the writer reads its own
  deferred copies (`Looking`: its section looks at locks, if it has any), that what it reads in an
  object itself is what it last wrote (`DataRead`), and that an update is in the object only
  when it is committed (`Older`). `Facts` follows: what each pointer of each section shows is
  `Walked`: what was published when the section started, for w what it last
  committed, and `Future`, with its own update, for the copies of the section under way.
* `LInv`, of the list, which TLC checked on the instance of `rlu_list` first. `IsList(m, c, S)`: with the contents `c` of the objects, the blocks
  `S` are a sorted list from the head to the tail, and no part of them is closed under the links.
  `ListUnique`, `ListInsert`, `ListRemove` and `ChainOfList` say that contents make one list at
  most, what linking and unlinking do to it, and that `Chain` finds it. `Lists`: the latest
  contents (the section's own once it has stored its pointer) make a list of all the
  blocks that are neither free nor about to be, and the committed and the published
  ones make a list of blocks that are not free. `Copied`: before that store the copies of the
  section are the same nodes. `Position`: all that a section has pointers to is on the list that it
  walks, `p_prev` is below the key, and `p_next` and `n` are where the links of that list
  lead. `Blocks` and `Buffered`: no free block is locked, only w has blocks to free, and
  one at most for each write-set that it has not written back.

When a synchronisation ends nothing is deferred, so that every section reads the committed
contents, the list of which is what is not about to be freed: that is why
`rlu_process_free` may free it. From the invariant follow `ListTypeCorrect`
(`ListTypeOK`), `NothingUsedIsFreed` (`NoUseAfterFree`), `FreeBufferBounded` (`FreeBuffer`) and
`NoBlockLeaks` (`NothingLeaked`). That the initial nodes make a list takes an
induction over the keys, which `StepsUp` and `LeastNumber` get from
cardinalities.

Part E goes from the blocks to the keys: `MembersOn(m, c)` are the keys of the list that the
contents `c` make. `ContentsStep` says that only two steps change what anybody would read: the
unlock of a section of w that wrote, after which w reads its update, and the increment of
`g_rlu_writer_version`, after which all read what w has committed. `Promise`, which TLC checked on
the instance of `rlu_list` first, is the invariant of the calls:

* `Observed`: `set` and `view` are the keys of the published and of the committed contents.
* `Update`: once a section has stored its pointer, its contents have the key of the call
  besides, or lack it, and before it was the other way round.
* `SeenBy`: the answer that the contents which a section walks would give has been true at an
  instant since the call. It was when the section started, and a restart starts anew.
* `Answered`: a call that would change the list and ends its section has written, and is w's;
  one that would not has an answer that was true at such an instant (`Witnessed`). What the walk finds
  is that answer because no key lies between two neighbours (`KeyFound`).
* `Sized`: the blocks in use are the initial ones, the head and the tail, what `diff` of w
  says, and what its call has done and not yet counted (`Uncounted`); nobody else counts
  anything.
* `Calling` and `Ended`: when a thread is in a call.

`ListImplementsDeferredSet` (`ImplementsDeferredSet`) follows: a call of `test()` is
`Call`, the unlock of a section that wrote is `Update`, the increment of the version is
`Publish` when something is deferred, the return is `Answer`, and every other step leaves the
abstract state as it is. So does `SizeExpected` (`ExpectedSize`), the final check
of `bench.c`, whose sum over the threads `SumOfOne` computes, since one term at most is not 0.

### Urcu (`UrcuProofs`)

* `TypeCorrect` from `LockInv`: the lock of a bucket is held by the thread that
  changes its list (`Exclusion`), the node about to be unlinked is still linked
  (`VictimInv`), and outside a synchronisation the buffer has room (`Room`).
* `FreeOnce` from `PlaceInv`: a node is in one bucket, in one remover's hands or in one
  buffer.
* `GracePeriod` (`NoUseAfterFree`) from `GraceInv`: the low bit of a counter tells who is in a
  section (`Parity`), and if a section has its hands on a node in the buffer of a
  thread that synchronises, then that thread has yet to read the counter of the
  section, or has noted its present value and has yet to wait for it (`Grace`).

### RcuList and SyncTest (`RcuListProofs`, `SyncTestProofs`)

* `ListInv` in `RcuListProofs`: writers exclude each other (`Locked`); the list is sorted, from
  the head to the tail, with no key between two neighbours (`Sorted`); a block is in
  one place, the list, the hands of its remover, the kernel's backlog or the free
  blocks (`Placed`); what an operation has in hand (`Walks`). For a reader that is a
  `Trail`: a set of blocks, all linked now or when the section ran already, that no
  link leads out of, and whose every pair of neighbours justifies what the reader may
  conclude from it, now or at an earlier instant of its call. Each action of the
  list keeps `ListInv`; `SyncTestProofs` puts them together with those of the benchmark:
  `TypeCorrect` and `WalksAreSafe` (`NoUseAfterFree`).
* `Linearizable` (`ImplementsSet`): every step of `SyncTest` is a step of `ConcurrentSet` or a
  stutter. That a reader's result was right at an instant of its call, although it
  takes no lock and may walk on through unlinked blocks, is what the trail is for.
* `BarrierSeparates` (`WorkTogether`), `SumIsComplete` (`StatisticsComplete`) and
  `NothingIsLeft` (`NothingLeft`) from `BenchInv`, which counts the threads at each stage
  against the barrier's counter and the completions, and `SetInv`, which says how many
  keys are in the set while it is filled and which are while it is emptied.

### HarrisList (`HarrisProofs`)

For both variants and an initial list of any length. `ListInv` is inductive; TLC
checked it on the instance of `harris_list` and with two threads and three operations
each before it was proved.

* `Shape`: the list is sorted from the head to the tail, no reachable node has a key
  between those of a reachable node and its successor, and unmarked nodes are
  reachable. An unlinked node may point back into the list, so this speaks of all
  nodes ever linked, and of gaps only where the list is.
* `At`, for each operation: while it walks, the nodes it has passed between
  `left_node_next` and `t_node` are all marked (`MarkedPath`, a set of nodes that no
  part of lets the links stay within), so that their links no longer change. This is
  what makes the unlinking CAS right: if `left_node` still points to
  `left_node_next`, unmarked, it takes out marked nodes and nothing else. `left_node` is
  below the key and `right_node` is not (`FoundAt`), and an operation that saw its key
  absent has `FALSE` among the truths of its call (`SeenAt`).
* `Attended`: every marked node that can be reached has a thread that attends to it
  (`Attends`): its remover is about to splice it out, or repeats the search and has yet to
  pass it. Not inductive without `At`: a CAS that takes a node out must
  not bring another one back, and a search that stops before the node must have found it gone.

`TypeCorrect` (`TypeOK`), `Sorted` (`ListSorted`) and `NothingMarkedLeft`
(`NoMarkedLeft`) follow from it. `Linearizable` (`ImplementsSet`) is the refinement: an
insertion takes effect at its CAS, a removal when the node is marked, and what
changes nothing or only reads answers what is in `seen`.
That the initial list, of any length, is reachable takes an induction over its
indices; `Upwards` gets it from the pigeonhole theorem for finite sets.

### Only model-checked

* Liveness, and everything with fairness: the provers do not reason about `ENABLED`.
* `SnapshotConsistent` and `ImplementsSnapshot` are not theorems of `Rlu` without a
  hypothesis: section 4 refutes them for several fine-grained writers, or for a
  coarse one that finishes.
* `RluList` with several updaters, for the same reason, and `CallReturns`, which is liveness.
* `SoloCompletes` of `HarrisList`, which is liveness.

## 6. What is not modelled

* The sequential list (`pure_*`), which no benchmark uses.
* Hazard pointer records: nothing reads them; a search uses at most 8 of 100.
* Several buckets of the lists other than `Urcu`'s: the hash function picks the
  bucket, and buckets share no memory but that of the threads.
* `bench.c` before its barrier (one thread fills the list) and the barrier itself,
  whose wait has no loop; output, options, statistics, scripts.
* Failures of `malloc`, `kmalloc` and `kthread_create`. In the models an allocation
  that finds no block waits for one.
* `intset.c` compiled for RLU, which the Makefile leaves out, and its functions for a
  caller without thread data, which has no caller.
* `rlu_cmp_ptrs`, `is_no_quiescence`, and the limits on threads and on nested writer
  locks.
* Weak memory: PowerPC and compiler reordering.
* Widths of integers: versions and counters are 64 bits wide.

## 7. Plan

Done, in this order: `Rlu` with its runs; the snapshot store and the refinement;
the lock-free lists and `ConcurrentSet`; `Urcu`; the proofs of `TypeCorrect` and
`GracePeriodHolds`; `RluList` with reclamation and `DeferredSet`; `RcuList` and
`SyncTest`.

Then the proofs: `Urcu`, `RcuList` and `SyncTest` with the refinement of
`ConcurrentSet`; the logs, locks, values and writer locks of `Rlu`; the copies that
sections take; `HarrisList` with its refinement of `ConcurrentSet`.

Then `Rlu` while synchronisations exclude each other, with its refinement of the snapshot
store, and the list under one updater, with its refinement of `DeferredSet`.

Next: `RluList` in the coarse type, whose updaters take the writer lock, with several of
them; and the functions of `intset.c` for RLU, should the Makefile compile them again.
