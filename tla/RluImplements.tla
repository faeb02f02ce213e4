--------------------------- MODULE RluImplements ---------------------------
(***************************************************************************)
(* Rlu implements RluSnapshot.  The store changes when a writer increments *)
(* g_rlu_writer_version; a section's view is fixed when it reads it.       *)
(***************************************************************************)
EXTENDS Rlu

\* A thread outside sections has no view of the store.
ASSUME NoViewAssumption == NULL \notin [Objs -> Value]

\* The object is locked by the section t is in, and its copy is complete.
InOwn(t, o) ==
    LET c == p_obj_copy[o]
    IN  /\ InSection(t)
        /\ c # NULL /\ c.th = t /\ c.ws = WsCurId(t)
        /\ Complete(c)

\* The object is locked by a finished section of t whose write-set is not
\* published.
InDeferred(t, o) ==
    LET c == p_obj_copy[o]
    IN  /\ c # NULL /\ c.th = t
        /\ ~Publishing(t)
        /\ ~((InSection(t) \/ pc[t] = "unlock_objs") /\ c.ws = WsCurId(t))

Updates == UNION {{t} \X (1 .. MaxStarts[t]) : t \in Threads}

Store == [o \in Objs |-> Published(o)]

View == [t \in Threads |-> IF InSection(t) THEN snap[t] ELSE NULL]

OwnObjs == [t \in Threads |-> {o \in Objs : InOwn(t, o)}]

DeferredObjs == [t \in Threads |-> {o \in Objs : InDeferred(t, o)}]

Copies ==
    [o \in Objs |-> IF \E t \in Threads : InOwn(t, o) \/ InDeferred(t, o)
                    THEN At(p_obj_copy[o]).val ELSE {}]

\* What the section of t holds of objects that it has not locked.
Seen ==
    [t \in Threads |-> {<<r[1], Contents(r[2])>> :
                           r \in {q \in refs[t] : ~(q[2] \in Addr /\ q[2].th = t)}}]

Snapshot == INSTANCE RluSnapshot WITH
    Update <- Updates, store <- Store, view <- View, own <- OwnObjs,
    deferred <- DeferredObjs, copy <- Copies, seen <- Seen

\* Every behaviour of the code is one of the snapshot store (README-RLU.md:32-39):
\* sections read one state of the store for as long as they last, a thread's
\* committed updates become visible in one step, and none is based on stale
\* contents.
ImplementsSnapshot == Snapshot!Spec
=============================================================================
