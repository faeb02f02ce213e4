---------------------------- MODULE DeferredSet ----------------------------
(***************************************************************************)
(* What the RLU list promises: a set whose updates may reach the other     *)
(* threads late.  A thread sees its own updates at once; the others see    *)
(* them when it publishes all it has, in one step.  A call that returns    *)
(* leaves fewer than max_write_sets updates of its thread unpublished, so  *)
(* with max_write_sets = 1 this is a linearizable set.  An operation that  *)
(* changes nothing answers what was true, for its thread, at some instant  *)
(* of the call.                                                            *)
(***************************************************************************)
EXTENDS Naturals

CONSTANTS Threads, Keys, NULL, max_write_sets

VARIABLES
    set,        \* the published members
    view,       \* the members as each thread sees them
    deferred,   \* its unpublished updates
    call,       \* NULL, or the operation and the key
    updated,    \* the call has changed the set
    result,     \* what the last call returned; NULL while the next one is under way
    seen        \* whether the key was a member, at each instant since the call

vars == <<set, view, deferred, call, updated, result, seen>>

Init ==
    /\ set \in SUBSET Keys
    /\ view = [t \in Threads |-> set]
    /\ deferred = [t \in Threads |-> 0]
    /\ call = [t \in Threads |-> NULL]
    /\ updated = [t \in Threads |-> FALSE]
    /\ result = [t \in Threads |-> FALSE]
    /\ seen = [t \in Threads |-> {}]

Notice ==
    seen' = [t \in Threads |-> IF call'[t] = NULL THEN {}
                               ELSE seen[t] \cup {call'[t].key \in view'[t]}]

Call(t) ==
    /\ call[t] = NULL
    /\ \E op \in {"contains", "add", "remove"}, key \in Keys :
           call' = [call EXCEPT ![t] = [op |-> op, key |-> key]]
    /\ result' = [result EXCEPT ![t] = NULL]
    /\ UNCHANGED <<set, view, deferred, updated>>

Update(t) ==
    LET key == call[t].key
    IN  /\ call[t] # NULL
        /\ ~updated[t]
        /\ \/ /\ call[t].op = "add"
              /\ key \notin view[t]
              /\ view' = [view EXCEPT ![t] = @ \cup {key}]
           \/ /\ call[t].op = "remove"
              /\ key \in view[t]
              /\ view' = [view EXCEPT ![t] = @ \ {key}]
        /\ updated' = [updated EXCEPT ![t] = TRUE]
        /\ deferred' = [deferred EXCEPT ![t] = @ + 1]
        /\ UNCHANGED <<set, call, result>>

Publish(t) ==
    /\ deferred[t] > 0
    /\ deferred' = [deferred EXCEPT ![t] = 0]
    /\ set' = view[t]
    /\ view' = [u \in Threads |-> (view[u] \cup (view[t] \ set)) \ (set \ view[t])]
    /\ UNCHANGED <<call, updated, result>>

Answer(t) ==
    /\ call[t] # NULL
    /\ deferred[t] < max_write_sets
    /\ \E r \in BOOLEAN :
          /\ \/ updated[t] /\ r
             \/ ~updated[t] /\ call[t].op = "contains" /\ r \in seen[t]
             \/ ~updated[t] /\ call[t].op = "add" /\ TRUE \in seen[t] /\ ~r
             \/ ~updated[t] /\ call[t].op = "remove" /\ FALSE \in seen[t] /\ ~r
          /\ result' = [result EXCEPT ![t] = r]
    /\ call' = [call EXCEPT ![t] = NULL]
    /\ updated' = [updated EXCEPT ![t] = FALSE]
    /\ UNCHANGED <<set, view, deferred>>

Next ==
    /\ \E t \in Threads : \/ Call(t) \/ Update(t) \/ Publish(t) \/ Answer(t)
    /\ Notice

Spec == Init /\ [][Next]_vars
=============================================================================
