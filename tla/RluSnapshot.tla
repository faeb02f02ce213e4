---------------------------- MODULE RluSnapshot ----------------------------
(***************************************************************************)
(* What rlu.c promises its clients, without logs, versions or waiting: a   *)
(* store of objects that sections read as it was when they started, and    *)
(* that a thread changes by publishing, at once, everything that its       *)
(* finished sections wrote.                                                *)
(***************************************************************************)
CONSTANTS Threads, Objs, NULL, Update

VARIABLES
    store,      \* the published contents: a set of updates for each object
    view,       \* the store when the section of t started, or NULL
    own,        \* the objects that the section of t has locked
    deferred,   \* the objects that finished sections of t wrote
    copy,       \* the new contents of the objects in own and deferred
    seen        \* what the section of t holds of objects it did not write

vars == <<store, view, own, deferred, copy, seen>>

Taken == UNION {own[t] \cup deferred[t] : t \in Threads}

Drop(objs) == [o \in Objs |-> IF o \in objs THEN {} ELSE copy[o]]

Init ==
    /\ store = [o \in Objs |-> {}]
    /\ view = [t \in Threads |-> NULL]
    /\ own = [t \in Threads |-> {}]
    /\ deferred = [t \in Threads |-> {}]
    /\ copy = [o \in Objs |-> {}]
    /\ seen = [t \in Threads |-> {}]

Start(t) ==
    /\ view[t] = NULL
    /\ view' = [view EXCEPT ![t] = store]
    /\ UNCHANGED <<store, own, deferred, copy, seen>>

\* A read is of the store as it was, and what was read does not change.
Read(t, o) ==
    /\ view[t] # NULL
    /\ seen' = [seen EXCEPT ![t] = @ \cup {<<o, view[t][o]>>}]
    /\ UNCHANGED <<store, view, own, deferred, copy>>

\* An object is written by one thread at a time, and from its latest contents:
\* a section whose view of it is out of date cannot write to it.
Write(t, o) ==
    /\ view[t] # NULL
    /\ o \notin Taken
    /\ store[o] = view[t][o]
    /\ own' = [own EXCEPT ![t] = @ \cup {o}]
    /\ \E u \in Update \ store[o] :
          copy' = [copy EXCEPT ![o] = store[o] \cup {u}]
    /\ UNCHANGED <<store, view, deferred, seen>>

Leave(t) ==
    /\ view[t] # NULL
    /\ view' = [view EXCEPT ![t] = NULL]
    /\ seen' = [seen EXCEPT ![t] = {}]
    /\ own' = [own EXCEPT ![t] = {}]
    /\ UNCHANGED store

Commit(t) ==
    /\ Leave(t)
    /\ deferred' = [deferred EXCEPT ![t] = @ \cup own[t]]
    /\ UNCHANGED copy

Abort(t) ==
    /\ Leave(t)
    /\ copy' = Drop(own[t])
    /\ UNCHANGED deferred

\* All the finished sections of t take effect together.
Publish(t) ==
    /\ view[t] = NULL
    /\ store' = [o \in Objs |-> IF o \in deferred[t] THEN copy[o] ELSE store[o]]
    /\ deferred' = [deferred EXCEPT ![t] = {}]
    /\ copy' = Drop(deferred[t])
    /\ UNCHANGED <<view, own, seen>>

Next ==
    \E t \in Threads :
        \/ Start(t) \/ Commit(t) \/ Abort(t) \/ Publish(t)
        \/ \E o \in Objs : Read(t, o) \/ Write(t, o)

Spec == Init /\ [][Next]_vars
=============================================================================
