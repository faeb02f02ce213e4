--------------------------- MODULE ConcurrentSet ---------------------------
(***************************************************************************)
(* What the concurrent lists of hash-list.c promise: a set on which every  *)
(* operation takes effect at one instant between its call and its return.  *)
(* An operation that changes nothing (a lookup, an add of what is there, a *)
(* remove of what is not) answers what was true at some such instant.      *)
(***************************************************************************)
CONSTANTS Threads, Keys, NULL

VARIABLES
    set,       \* the members
    call,      \* the operation a thread is in: NULL or [op, key]
    updated,   \* it has taken effect, and has not returned
    seen,      \* whether its key was a member, at each instant since the call
    result     \* what its last operation returned

vars == <<set, call, updated, seen, result>>

Init ==
    /\ set \in SUBSET Keys
    /\ call = [t \in Threads |-> NULL]
    /\ updated = [t \in Threads |-> FALSE]
    /\ seen = [t \in Threads |-> {}]
    /\ result = [t \in Threads |-> FALSE]

Call(t) ==
    /\ call[t] = NULL
    /\ \E op \in {"contains", "add", "remove"}, key \in Keys :
          /\ call' = [call EXCEPT ![t] = [op |-> op, key |-> key]]
          /\ seen' = [seen EXCEPT ![t] = {(key \in set)}]
    /\ UNCHANGED <<set, updated, result>>

Calls(t, op) == call[t] # NULL /\ call[t].op = op

\* Every operation under way on this key may answer from now on that it is,
\* or is not, a member.
Notice(key, member) ==
    seen' = [t \in Threads |->
                IF call[t] # NULL /\ call[t].key = key /\ call'[t] # NULL
                THEN seen[t] \cup {member} ELSE IF call'[t] = NULL THEN {} ELSE seen[t]]

Return(t, r) ==
    /\ call' = [call EXCEPT ![t] = NULL]
    /\ updated' = [updated EXCEPT ![t] = FALSE]
    /\ result' = [result EXCEPT ![t] = r]

\* An add that takes effect may return later.
Add(t) ==
    /\ Calls(t, "add")
    /\ ~updated[t]
    /\ call[t].key \notin set
    /\ set' = set \cup {call[t].key}
    /\ \/ Return(t, TRUE)
       \/ /\ updated' = [updated EXCEPT ![t] = TRUE]
          /\ UNCHANGED <<call, result>>
    /\ Notice(call[t].key, TRUE)

Delete(t) ==
    /\ Calls(t, "remove")
    /\ ~updated[t]
    /\ call[t].key \in set
    /\ set' = set \ {call[t].key}
    /\ updated' = [updated EXCEPT ![t] = TRUE]
    /\ UNCHANGED <<call, result>>
    /\ Notice(call[t].key, FALSE)

\* A return that changes nothing more.
Answer(t) ==
    /\ \/ updated[t] /\ Return(t, TRUE)
       \/ Calls(t, "remove") /\ ~updated[t] /\ FALSE \in seen[t] /\ Return(t, FALSE)
       \/ Calls(t, "add") /\ ~updated[t] /\ TRUE \in seen[t] /\ Return(t, FALSE)
       \/ Calls(t, "contains") /\ \E r \in seen[t] : Return(t, r)
    /\ seen' = [seen EXCEPT ![t] = {}]
    /\ UNCHANGED set

Next == \E t \in Threads : Call(t) \/ Add(t) \/ Delete(t) \/ Answer(t)

Spec == Init /\ [][Next]_vars
=============================================================================
