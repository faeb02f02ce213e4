--------------------------- MODULE RcuListProofs ---------------------------
(***************************************************************************)
(* What the proofs about the RCU list rest on: the invariant of the list   *)
(* and the lemmas that every step of RcuList keeps it, for any threads,    *)
(* keys and blocks.  SyncTestProofs draws the theorems from it.            *)
(***************************************************************************)
EXTENDS RcuList, TLAPS

Linked == Chain(node)

Calls == [op : {"contains", "add", "remove"}, key : Keys]

Writes(t) == call[t].op \in {"add", "remove"}

Reading(t) == pc[t] \in {"walk", "unlock"} /\ call[t].op = "contains"
Writing(t) == pc[t] \in {"walk", "update", "unlock"} /\ Writes(t)

\* A remove that unlinked its node and still has it in hand.
Removed(t) == pc[t] \in {"unlock", "free"} /\ call[t].op = "remove" /\ result[t]

\* The types, those of the history included, and what an operation has in hand
\* at each label.
Types ==
    /\ ListTypeOK
    /\ call \in [Threads -> Calls \cup {NULL}]
    /\ seen \in [Threads -> SUBSET BOOLEAN]

Labelled ==
    \A t \in Threads :
        /\ call[t] = NULL <=> pc[t] = "idle"
        /\ pc[t] = "idle" => seen[t] = {}
        /\ pc[t] \in {"idle", "lock"} => p_prev[t] = NULL /\ p_next[t] = NULL
        /\ pc[t] = "update" => Writes(t) /\ result[t]
        /\ pc[t] = "free" => call[t].op = "remove" /\ result[t] /\ p_prev[t] = NULL

\* Writers exclude each other; readers are those that kfree_rcu waits for.
Locked ==
    /\ \A t \in Threads : Writing(t) => rcuspin = t
    /\ \A t \in Threads : t \in readers <=> Reading(t)

\* The list is sorted, from p_min_node to p_max_node, and no key of a node lies
\* between those of two neighbours.
Sorted ==
    /\ p_min_node \in Linked /\ p_max_node \in Linked
    /\ node[p_min_node].val = LIST_VAL_MIN
    /\ node[p_max_node] = [val |-> LIST_VAL_MAX, p_next |-> NULL]
    /\ \A m \in Linked \ {p_min_node, p_max_node} : node[m].val \in Keys
    /\ \A m \in Linked \ {p_max_node} :
          /\ node[m].p_next \in Linked
          /\ node[m].val < node[node[m].p_next].val
    /\ \A m, n \in Linked : node[m].val = node[n].val => m = n
    /\ \A m \in Linked \ {p_max_node}, n \in Linked :
          ~(node[m].val < node[n].val /\ node[n].val < node[node[m].p_next].val)

\* A block is in one place: the list, the hands of the remover, kfree_rcu's
\* backlog or kmalloc's free blocks.
Placed ==
    /\ \A r \in retired : r.node \notin free \cup Linked
    /\ \A r, q \in retired : r.node = q.node => r = q
    /\ Linked \cap free = {}
    /\ \A t \in Threads : Removed(t) =>
          /\ p_next[t] \in Nodes \ (free \cup Linked)
          /\ \A r \in retired : r.node # p_next[t]
          /\ \A u \in Threads : Removed(u) /\ u # t => p_next[u] # p_next[t]
    /\ \A m \in Nodes : \/ m \in free \cup Linked
                        \/ \E r \in retired : r.node = m
                        \/ \E t \in Threads : Removed(t) /\ p_next[t] = m

\* The blocks that are not given back while t is in its section.
Visible(t) ==
    {m \in Nodes : \/ m \in Linked
                   \/ \E u \in Threads : Removed(u) /\ p_next[u] = m
                   \/ \E r \in retired : r.node = m /\ t \in r.sections}

\* From these neighbours an operation of t may conclude what it does.
Justified(t, m, n) ==
    node[m].val < call[t].key =>
        /\ node[n].val = call[t].key => TRUE \in seen[t]
        /\ node[n].val > call[t].key => FALSE \in seen[t]

\* Where a reader may go: what is linked now, and what was when its section ran
\* already; no link leads out of it.
Trail(t, S) ==
    /\ Linked \subseteq S /\ S \subseteq Visible(t)
    /\ \A m \in S \ {p_max_node} :
          node[m].p_next \in S /\ Justified(t, m, node[m].p_next)

ReaderAt(t) ==
    /\ \E S \in SUBSET Nodes : Trail(t, S) /\ {p_prev[t], p_next[t]} \subseteq S
    /\ pc[t] = "walk" => Justified(t, p_prev[t], p_next[t])
                         /\ node[p_prev[t]].val < call[t].key
    /\ pc[t] = "unlock" => result[t] \in seen[t]

WriterAt(t) ==
    /\ p_prev[t] \in Linked \ {p_max_node}
    /\ pc[t] \in {"walk", "update"} =>
          p_next[t] = node[p_prev[t]].p_next /\ node[p_prev[t]].val < call[t].key
    /\ pc[t] = "update" =>
          /\ call[t].op = "add" => node[p_next[t]].val > call[t].key
          /\ call[t].op = "remove" => node[p_next[t]].val = call[t].key
    /\ pc[t] = "unlock" =>
          /\ ~Removed(t) => p_next[t] \in Linked
          /\ ~result[t] => /\ call[t].op = "add" => TRUE \in seen[t]
                           /\ call[t].op = "remove" => FALSE \in seen[t]
          /\ call[t].op = "remove" => call[t].key \notin Members

\* The history tells at least what is true now.
SeenAt(t) ==
    /\ call[t].key \in Members => TRUE \in seen[t]
    /\ call[t].key \notin Members => FALSE \in seen[t]

WalkAt(t) ==
    /\ Reading(t) => ReaderAt(t)
    /\ Writing(t) => WriterAt(t)
    /\ call[t] # NULL => SeenAt(t)

Walks == \A t \in Threads : WalkAt(t)

ListInv == Types /\ Labelled /\ Locked /\ Sorted /\ Placed /\ Walks

-----------------------------------------------------------------------------
(* The blocks of the list *)

LEMMA ChainClosed ==
    ASSUME NEW mem, NEW n \in Chain(mem), mem[n].p_next \in Nodes
    PROVE  mem[n].p_next \in Chain(mem)
<1>1. SUFFICES ASSUME NEW S \in SUBSET (Nodes \ {mem[n].p_next}), p_min_node \in S,
                      \A k \in S : mem[k].p_next \in S \cup {NULL}
               PROVE  FALSE
  BY DEF Chain
<1>2. n \in S
  BY <1>1 DEF Chain
<1> QED
  BY <1>1, <1>2, ListAssumption

LEMMA ChainLeast ==
    ASSUME NEW mem, NEW S \in SUBSET Nodes, p_min_node \in S,
           \A k \in S : mem[k].p_next \in S \cup {NULL}
    PROVE  Chain(mem) \subseteq S
BY DEF Chain

LEMMA ChainFirst ==
    ASSUME NEW mem
    PROVE  p_min_node \in Chain(mem) /\ Chain(mem) \subseteq Nodes
BY ListAssumption DEF Chain

\* What a key's place in the list tells about the set.
LEMMA Member ==
    ASSUME Sorted, NEW key \in Keys
    PROVE  key \in Members <=> \E m \in Linked : node[m].val = key
<1>1. node[p_min_node].val # key /\ node[p_max_node].val # key
  BY ListAssumption DEF Sorted
<1> QED
  BY <1>1 DEF Members, Linked

LEMMA Neighbours ==
    ASSUME Sorted, Types, NEW m \in Linked \ {p_max_node}, NEW key \in Keys, node[m].val < key
    PROVE  /\ node[node[m].p_next].val = key => key \in Members
           /\ node[node[m].p_next].val > key => key \notin Members
<1>1. \A n \in Linked : node[n].val \in Int
  BY ListAssumption, ChainFirst DEF Types, ListTypeOK, Linked
<1>2. node[m].p_next \in Linked
  BY DEF Sorted
<1>3. key \in Int
  BY ListAssumption
<1> QED
  BY <1>1, <1>2, <1>3, Member DEF Sorted

LEMMA LinkList ==
    ASSUME Types, Sorted, NEW p \in Linked \ {p_max_node}, NEW m \in Nodes \ Linked,
           NEW key \in Keys, node[p].val < key, node[node[p].p_next].val > key,
           node' = [node EXCEPT ![m] = [val |-> key, p_next |-> node[p].p_next],
                                ![p].p_next = m]
    PROVE  /\ Linked' = Linked \cup {m}
           /\ Sorted'
           /\ Members' = Members \cup {key}
           /\ key \notin Members
<1> DEFINE q == node[p].p_next
<1>0. /\ node \in [Nodes -> [val : Keys \cup {LIST_VAL_MIN, LIST_VAL_MAX}, p_next : Nodes \cup {NULL}]]
      /\ Linked \subseteq Nodes /\ p # m /\ q \in Linked /\ p \in Nodes
      /\ p_max_node \in Linked /\ p_min_node \in Linked
  BY ChainFirst DEF Types, ListTypeOK, Linked, Sorted
<1>1. /\ node'[m] = [val |-> key, p_next |-> q]
      /\ node'[p].val = node[p].val /\ node'[p].p_next = m
      /\ \A n \in Nodes \ {m, p} : node'[n] = node[n]
  BY <1>0
<1>2. \A n \in Linked : node[n].p_next \in Linked \cup {NULL}
  BY DEF Sorted
<1>3. Linked' \subseteq Linked \cup {m}
  <2> DEFINE S == Linked \cup {m}
  <2>1. \A n \in S : node'[n].p_next \in S \cup {NULL}
    BY <1>0, <1>1, <1>2
  <2>2. S \in SUBSET Nodes /\ p_min_node \in S
    BY <1>0
  <2>3. Chain(node') \subseteq S
    BY <2>1, <2>2, ChainLeast
  <2> QED
    BY <2>3 DEF Linked
<1>4. Linked \cup {m} \subseteq Linked'
  <2>0. \A n \in Linked' : node'[n].p_next \in Nodes => node'[n].p_next \in Linked'
    BY ChainClosed DEF Linked
  <2>1. p_min_node \in Linked'
    BY ChainFirst DEF Linked
  <2> DEFINE S == Linked' \cap Linked
  <2>2. \A n \in S : node[n].p_next \in S \cup {NULL}
    <3> SUFFICES ASSUME NEW n \in S PROVE node[n].p_next \in S \cup {NULL}
      OBVIOUS
    <3>1. CASE n = p
      <4>1. m \in Linked'
        BY <3>1, <2>0, <1>1
      <4>2. q \in Linked'
        BY <4>1, <2>0, <1>0, <1>1
      <4> QED
        BY <3>1, <4>2, <1>0
    <3>2. CASE n # p
      BY <3>2, <2>0, <1>0, <1>1, <1>2
    <3> QED
      BY <3>1, <3>2
  <2>3. Linked \subseteq S
    BY <2>1, <2>2, <1>0, ChainLeast DEF Linked
  <2>4. m \in Linked'
    BY <2>0, <2>3, <1>0, <1>1
  <2> QED
    BY <2>3, <2>4
<1>5. Linked' = Linked \cup {m}
  BY <1>3, <1>4
<1>6. /\ \A n \in Linked : node[n].val \in Int /\ node'[n].val = node[n].val
      /\ node'[m].val = key /\ key \in Int
  BY <1>0, <1>1, ListAssumption
<1>7. Sorted'
  <2>1. /\ p_min_node \in Linked' /\ p_max_node \in Linked'
        /\ node'[p_min_node].val = LIST_VAL_MIN
        /\ node'[p_max_node] = [val |-> LIST_VAL_MAX, p_next |-> NULL]
    BY <1>0, <1>1, <1>5 DEF Sorted
  <2>2. \A n \in Linked' \ {p_min_node, p_max_node} : node'[n].val \in Keys
    <3>1. \A n \in Linked \ {p_min_node, p_max_node} : node'[n].val \in Keys
      BY <1>6 DEF Sorted
    <3> QED
      BY <3>1, <1>5, <1>6
  <2>3. \A n \in Linked' \ {p_max_node} :
          /\ node'[n].p_next \in Linked'
          /\ node'[n].val < node'[node'[n].p_next].val
    BY <1>0, <1>1, <1>5, <1>6 DEF Sorted
  <2>4. \A n \in Linked : node[n].val # key
    BY <1>0, <1>6 DEF Sorted
  <2>5. \A n, k \in Linked' : node'[n].val = node'[k].val => n = k
    BY <1>5, <1>6, <2>4 DEF Sorted
  <2>6. \A n \in Linked \ {p_max_node} : n # p =>
          ~(node[n].val < key /\ key < node[node[n].p_next].val)
    <3> SUFFICES ASSUME NEW n \in Linked \ {p_max_node}, n # p,
                        node[n].val < key, key < node[node[n].p_next].val
                 PROVE  FALSE
      OBVIOUS
    <3>1. node[n].p_next \in Linked
      BY DEF Sorted
    <3>2. node[n].val \in Int /\ node[p].val \in Int /\ node[n].val # node[p].val
          /\ node[node[n].p_next].val \in Int /\ node[q].val \in Int /\ key \in Int
      BY <1>0, <1>6, <3>1 DEF Sorted
    <3>3. CASE node[n].val < node[p].val
      <4>1. ~(node[p].val < node[node[n].p_next].val)
        BY <3>3 DEF Sorted
      <4> QED
        BY <4>1, <3>2
    <3>4. CASE node[p].val < node[n].val
      <4>1. ~(node[n].val < node[q].val)
        BY <3>4 DEF Sorted
      <4> QED
        BY <4>1, <3>2
    <3> QED
      BY <3>2, <3>3, <3>4
  <2>7. \A n \in Linked' \ {p_max_node}, k \in Linked' :
          ~(node'[n].val < node'[k].val /\ node'[k].val < node'[node'[n].p_next].val)
    <3> SUFFICES ASSUME NEW n \in Linked' \ {p_max_node}, NEW k \in Linked',
                        node'[n].val < node'[k].val, node'[k].val < node'[node'[n].p_next].val
                 PROVE  FALSE
      OBVIOUS
    <3>1. \A x \in Linked : ~(node[p].val < node[x].val /\ node[x].val < node[q].val)
      BY DEF Sorted
    <3>2. /\ node[p].val \in Int /\ node[q].val \in Int /\ key \in Int
          /\ node[p].val < key /\ key < node[q].val
      BY <1>0, <1>6
    <3>3. CASE n = m
      BY <3>1, <3>2, <3>3, <1>0, <1>1, <1>5, <1>6
    <3>4. CASE n = p
      BY <3>1, <3>2, <3>4, <1>0, <1>1, <1>5, <1>6
    <3>5. CASE n # m /\ n # p
      <4>1. n \in Linked \ {p_max_node} /\ node'[n] = node[n] /\ node[n].p_next \in Linked
        BY <3>5, <1>0, <1>1, <1>5 DEF Sorted
      <4>2. CASE k = m
        <5>1. node'[k].val = key
          BY <4>2, <1>6
        <5>2. node[n].val < key /\ key < node[node[n].p_next].val
          BY <4>1, <5>1, <1>6
        <5> QED
          BY <4>1, <5>2, <2>6, <3>5
      <4>3. CASE k # m
        <5>1. k \in Linked /\ node'[k].val = node[k].val
          BY <4>3, <1>5, <1>6
        <5>2. node'[node'[n].p_next].val = node[node[n].p_next].val
          BY <4>1, <1>6
        <5> QED
          BY <4>1, <5>1, <5>2 DEF Sorted
      <4> QED
        BY <4>2, <4>3
    <3> QED
      BY <3>3, <3>4, <3>5
  <2> QED
    BY <2>1, <2>2, <2>3, <2>5, <2>7 DEF Sorted
<1>8. key \notin Members
  BY Neighbours
<1>9. Members' = Members \cup {key}
  <2>1. Members = {node[n].val : n \in Linked \ {p_min_node, p_max_node}}
    BY DEF Members, Linked
  <2>2. Members' = {node'[n].val : n \in Linked' \ {p_min_node, p_max_node}}
    BY DEF Members, Linked
  <2>3. m # p_min_node /\ m # p_max_node
    BY <1>0
  <2>4. Linked' \ {p_min_node, p_max_node} = (Linked \ {p_min_node, p_max_node}) \cup {m}
    BY <1>5, <2>3
  <2> HIDE DEF q
  <2> DEFINE L == Linked \ {p_min_node, p_max_node}
  <2>5. /\ \A n \in L : node'[n].val = node[n].val
        /\ node'[m].val = key
    BY <1>6
  <2>6. Members = {node[n].val : n \in L} /\ Members' = {node'[n].val : n \in L \cup {m}}
    BY <2>1, <2>2, <2>4
  <2> HIDE DEF L
  <2> QED
    BY <2>5, <2>6
<1> QED
  BY <1>5, <1>7, <1>8, <1>9

LEMMA UnlinkList ==
    ASSUME Types, Sorted, NEW p \in Linked \ {p_max_node}, NEW key \in Keys,
           node[node[p].p_next].val = key,
           node' = [node EXCEPT ![p].p_next = node[node[p].p_next].p_next]
    PROVE  /\ node[p].p_next \in Linked /\ node[p].p_next # p
           /\ Linked' = Linked \ {node[p].p_next}
           /\ Sorted'
           /\ Members' = Members \ {key}
           /\ key \in Members
<1> DEFINE x == node[p].p_next
           y == node[x].p_next
<1>0. /\ node \in [Nodes -> [val : Keys \cup {LIST_VAL_MIN, LIST_VAL_MAX}, p_next : Nodes \cup {NULL}]]
      /\ Linked \subseteq Nodes /\ x \in Linked /\ p \in Linked
      /\ p_max_node \in Linked /\ p_min_node \in Linked
      /\ node[p].val < node[x].val /\ node[x].val = key
  BY ChainFirst DEF Types, ListTypeOK, Linked, Sorted
<1>1. \A n \in Linked : node[n].val \in Int
  BY <1>0, ListAssumption
<1>2. x # p_min_node /\ x # p_max_node /\ x # p
  BY <1>0, <1>1, ListAssumption DEF Sorted
<1>3. y \in Linked /\ node[x].val < node[y].val /\ y # x
  BY <1>0, <1>1, <1>2 DEF Sorted
<1>4. /\ \A n \in Nodes : node'[n].val = node[n].val
      /\ node'[p].p_next = y
      /\ \A n \in Nodes \ {p} : node'[n] = node[n]
  BY <1>0
<1>5. \A n \in Linked \ {p_max_node} : n # p => node[n].p_next # x
  <2> SUFFICES ASSUME NEW n \in Linked \ {p_max_node}, n # p, node[n].p_next = x
               PROVE  FALSE
    OBVIOUS
  <2>1. node[n].val # node[p].val /\ node[n].val < node[x].val
    BY DEF Sorted
  <2>2. ~(node[n].val < node[p].val /\ node[p].val < node[x].val)
    BY DEF Sorted
  <2>3. ~(node[p].val < node[n].val /\ node[n].val < node[x].val)
    BY DEF Sorted
  <2> QED
    BY <2>1, <2>2, <2>3, <1>0, <1>1
<1>6. \A n \in Linked : n # p => node'[n].p_next = node[n].p_next
                                 /\ node[n].p_next \in (Linked \ {x}) \cup {NULL}
  BY <1>0, <1>4, <1>5, <1>3, ListAssumption DEF Sorted
<1>7. Linked' \subseteq Linked \ {x}
  <2> DEFINE S == Linked \ {x}
  <2>1. \A n \in S : node'[n].p_next \in S \cup {NULL}
    BY <1>3, <1>4, <1>6
  <2>2. S \in SUBSET Nodes /\ p_min_node \in S
    BY <1>0, <1>2
  <2>3. Chain(node') \subseteq S
    BY <2>1, <2>2, ChainLeast
  <2> QED
    BY <2>3 DEF Linked
<1>8. Linked \ {x} \subseteq Linked'
  <2>0. \A n \in Linked' : node'[n].p_next \in Nodes => node'[n].p_next \in Linked'
    BY ChainClosed DEF Linked
  <2>1. p_min_node \in Linked'
    BY ChainFirst DEF Linked
  <2>2. p \in Linked'
    <3>1. SUFFICES ASSUME p \notin Linked' PROVE FALSE
      OBVIOUS
    <3> DEFINE S == Linked' \cap Linked
    <3>2. \A n \in S : node[n].p_next \in S \cup {NULL}
      BY <3>1, <2>0, <1>0, <1>6
    <3>3. S \in SUBSET Nodes /\ p_min_node \in S
      BY <2>1, <1>0
    <3>4. Chain(node) \subseteq S
      BY <3>2, <3>3, ChainLeast
    <3> QED
      BY <3>1, <3>4, <1>0 DEF Linked
  <2>3. y \in Linked'
    BY <2>0, <2>2, <1>0, <1>3, <1>4
  <2> DEFINE S == (Linked' \cap Linked) \cup {x}
  <2>4. \A n \in S : node[n].p_next \in S \cup {NULL}
    BY <2>0, <2>3, <1>0, <1>3, <1>6
  <2>5. S \in SUBSET Nodes /\ p_min_node \in S
    BY <2>1, <1>0
  <2>6. Chain(node) \subseteq S
    BY <2>4, <2>5, ChainLeast
  <2> QED
    BY <2>6 DEF Linked
<1>9. Linked' = Linked \ {x}
  BY <1>7, <1>8
<1>10. Sorted'
  <2>1. /\ p_min_node \in Linked' /\ p_max_node \in Linked'
        /\ node'[p_min_node].val = LIST_VAL_MIN
        /\ node'[p_max_node] = [val |-> LIST_VAL_MAX, p_next |-> NULL]
    BY <1>0, <1>2, <1>4, <1>9 DEF Sorted
  <2>2. \A n \in Linked' \ {p_min_node, p_max_node} : node'[n].val \in Keys
    BY <1>9, <1>4, <1>0 DEF Sorted
  <2>3. \A n \in Linked' \ {p_max_node} :
          /\ node'[n].p_next \in Linked'
          /\ node'[n].val < node'[node'[n].p_next].val
    <3> SUFFICES ASSUME NEW n \in Linked \ {p_max_node}, n # x
                 PROVE  /\ node'[n].p_next \in Linked \ {x}
                        /\ node[n].val < node'[node'[n].p_next].val
      BY <1>9, <1>4, <1>0
    <3>1. CASE n = p
      BY <3>1, <1>0, <1>1, <1>3, <1>4
    <3>2. CASE n # p
      BY <3>2, <1>0, <1>4, <1>5 DEF Sorted
    <3> QED
      BY <3>1, <3>2
  <2>4. \A n, k \in Linked' : node'[n].val = node'[k].val => n = k
    BY <1>9, <1>4, <1>0 DEF Sorted
  <2>5. \A n \in Linked' \ {p_max_node}, k \in Linked' :
          ~(node'[n].val < node'[k].val /\ node'[k].val < node'[node'[n].p_next].val)
    <3> SUFFICES ASSUME NEW n \in Linked \ {p_max_node}, NEW k \in Linked, n # x, k # x,
                        node[n].val < node[k].val, node[k].val < node[node'[n].p_next].val
                 PROVE  FALSE
      <4>1. \A n \in Linked' : node'[n].p_next \in Nodes \cup {NULL}
        BY <1>0, <1>4, <1>9
      <4> QED
        BY <2>3, <1>0, <1>4, <1>9
    <3>1. CASE n = p
      <4>1. ~(node[p].val < node[k].val /\ node[k].val < node[x].val)
        BY DEF Sorted
      <4>2. ~(node[x].val < node[k].val /\ node[k].val < node[y].val)
        BY <1>0, <1>2 DEF Sorted
      <4>3. node[k].val # node[x].val
        BY <1>0 DEF Sorted
      <4>4. node[p].val < node[k].val /\ node[k].val < node[y].val
        BY <3>1, <1>4
      <4>5. node[p].val \in Int /\ node[k].val \in Int /\ node[x].val \in Int
        BY <1>0, <1>1
      <4> QED
        BY <4>1, <4>2, <4>3, <4>4, <4>5
    <3>2. CASE n # p
      <4>1. node'[n].p_next = node[n].p_next
        BY <3>2, <1>0, <1>4
      <4> QED
        BY <4>1 DEF Sorted
    <3> QED
      BY <3>1, <3>2
  <2> QED
    BY <2>1, <2>2, <2>3, <2>4, <2>5 DEF Sorted
<1>11. key \in Members
  BY <1>0, Member
<1>12. Members' = Members \ {key}
  <2>1. \A k : k \in Members <=> \E n \in Linked \ {p_min_node, p_max_node} : k = node[n].val
    BY DEF Members, Linked
  <2>2. \A k : k \in Members' <=> \E n \in Linked' \ {p_min_node, p_max_node} : k = node'[n].val
    BY DEF Members, Linked
  <2>3. \A n \in Linked : node[n].val = key => n = x
    BY <1>0 DEF Sorted
  <2>4. \A k : k \in Members' <=> k \in Members /\ k # key
    BY <2>1, <2>2, <2>3, <1>0, <1>4, <1>9
  <2> QED
    BY <2>4
<1> QED
  BY <1>0, <1>2, <1>9, <1>10, <1>11, <1>12

-----------------------------------------------------------------------------
(* The steps *)

USE DEF memVars, lockVars, walkVars

\* What any thread may conclude from two neighbours of the list as it is now.
Told == Types /\ Sorted /\ \A t \in Threads : call[t] # NULL => SeenAt(t)

AllJustified ==
    \A t \in Threads : call[t] # NULL =>
        \A m \in Linked \ {p_max_node} : Justified(t, m, node[m].p_next)

LEMMA JustifiedNow == Told => AllJustified
<1> SUFFICES ASSUME Types, Sorted, NEW t \in Threads, call[t] # NULL, SeenAt(t),
                    NEW m \in Linked \ {p_max_node}
             PROVE  Justified(t, m, node[m].p_next)
  BY DEF Told, AllJustified
<1>1. call[t].key \in Keys
  BY DEF Types, Calls
<1> QED
  BY <1>1, Neighbours DEF Justified, SeenAt

\* A thread that does not move; only t moves.
Stays(u) ==
    /\ pc'[u] = pc[u] /\ call'[u] = call[u] /\ result'[u] = result[u]
    /\ p_prev'[u] = p_prev[u] /\ p_next'[u] = p_next[u] /\ seen'[u] = seen[u]

Same(t) == \A u \in Threads \ {t} : Stays(u)

LEMMA SameMemory ==
    ASSUME UNCHANGED node
    PROVE  Linked' = Linked /\ Members' = Members /\ (Sorted => Sorted')
<1>1. Linked' = Linked /\ Members' = Members
  BY DEF Linked, Members
<1> QED
  BY <1>1 DEF Sorted

LEMMA WalkQuiet ==
    ASSUME ListInv, NEW u \in Threads, UNCHANGED node, Stays(u),
           Reading(u) => Visible(u) \subseteq Visible(u)'
    PROVE  WalkAt(u)'
<1>0. /\ Linked' = Linked /\ Members' = Members
      /\ pc'[u] = pc[u] /\ call'[u] = call[u] /\ result'[u] = result[u]
      /\ p_prev'[u] = p_prev[u] /\ p_next'[u] = p_next[u] /\ seen'[u] = seen[u]
  BY SameMemory DEF Stays
<1>1. WalkAt(u)
  BY DEF ListInv, Walks
<1>2. ASSUME Reading(u) PROVE ReaderAt(u)'
  <2>1. \A S \in SUBSET Nodes : Trail(u, S) => Trail(u, S)'
    BY <1>0, <1>2 DEF Trail, Justified
  <2> QED
    BY <1>0, <1>1, <1>2, <2>1 DEF WalkAt, ReaderAt, Justified
<1>3. Writing(u)' => WriterAt(u)'
  BY <1>0, <1>1 DEF WalkAt, Writing, Writes, WriterAt, Removed
<1>4. call'[u] # NULL => SeenAt(u)'
  BY <1>0, <1>1 DEF WalkAt, SeenAt
<1>5. Reading(u)' => Reading(u)
  BY <1>0 DEF Reading
<1> QED
  BY <1>2, <1>3, <1>4, <1>5 DEF WalkAt

\* A step of t that leaves the blocks where they are.
LEMMA ListQuiet ==
    ASSUME ListInv, NEW t \in Threads, UNCHANGED <<node, free, retired>>, Same(t),
           Removed(t)' <=> Removed(t), Removed(t) => p_next'[t] = p_next[t]
    PROVE  /\ Sorted' /\ Placed'
           /\ \A u \in Threads : Visible(u)' = Visible(u)
           /\ \A u \in Threads \ {t} : WalkAt(u)'
<1>1. Linked' = Linked /\ Members' = Members /\ Sorted'
  BY SameMemory DEF ListInv
<1>2. \A u \in Threads : /\ Removed(u)' <=> Removed(u)
                         /\ Removed(u) => p_next'[u] = p_next[u]
  BY DEF Same, Stays, Removed
<1>3. Placed'
  BY <1>1, <1>2 DEF ListInv, Placed
<1>4. \A u \in Threads : Visible(u)' = Visible(u)
  BY <1>1, <1>2 DEF Visible
<1>5. \A u \in Threads \ {t} : WalkAt(u)'
  BY <1>4, WalkQuiet DEF Same
<1> QED
  BY <1>1, <1>3, <1>4, <1>5

LEMMA CallStep ==
    ASSUME ListInv, NEW t \in Threads, NEW op \in {"contains", "add", "remove"},
           NEW key \in Keys, Call(t, op, key)
    PROVE  ListInv'
<1>0. /\ call \in [Threads -> Calls \cup {NULL}] /\ seen \in [Threads -> SUBSET BOOLEAN]
      /\ pc \in [Threads -> {"idle", "lock", "walk", "update", "unlock", "free"}]
      /\ call' = [call EXCEPT ![t] = [op |-> op, key |-> key]]
      /\ pc' = [pc EXCEPT ![t] = "lock"] /\ pc[t] = "idle"
      /\ seen' = [seen EXCEPT ![t] = {(key \in Members)}]
      /\ UNCHANGED <<node, free, retired, readers, rcuspin, p_prev, p_next, result, ret>>
  BY DEF ListInv, Types, ListTypeOK, Labelled, Call, Goto
<1>1. [op |-> op, key |-> key] \in Calls /\ [op |-> op, key |-> key] # NULL
  BY ListAssumption DEF Calls
<1>2. Types'
  BY <1>0, <1>1 DEF ListInv, Types, ListTypeOK, Calls
<1>3. Same(t) /\ ~Removed(t) /\ ~Removed(t)' /\ ~Reading(t)' /\ ~Writing(t)'
  BY <1>0 DEF Same, Stays, Removed, Reading, Writing
<1>4. Labelled'
  BY <1>0, <1>1 DEF ListInv, Labelled, Writes
<1>5. Locked'
  BY <1>0, <1>3 DEF ListInv, Locked, Reading, Writing, Writes
<1>6. Sorted' /\ Placed' /\ \A u \in Threads \ {t} : WalkAt(u)'
  BY <1>0, <1>3, ListQuiet
<1>7. WalkAt(t)'
  <2>1. call'[t].key = key /\ seen'[t] = {(key \in Members)} /\ Members' = Members
    BY <1>0, SameMemory
  <2>2. CASE key \in Members
    <3>1. seen'[t] = {TRUE}
      BY <2>1, <2>2, Zenon
    <3> QED
      BY <2>1, <2>2, <3>1, <1>3 DEF WalkAt, SeenAt
  <2>3. CASE key \notin Members
    <3>1. (key \in Members) = FALSE
      BY <2>3
    <3>2. seen'[t] = {FALSE}
      BY <2>1, <3>1, Zenon
    <3> QED
      BY <2>1, <2>3, <3>2, <1>3 DEF WalkAt, SeenAt
  <2> QED
    BY <2>2, <2>3
<1> QED
  BY <1>2, <1>4, <1>5, <1>6, <1>7 DEF ListInv, Walks

\* The nodes that an operation has in hand exist.
LEMMA InHand ==
    ASSUME ListInv, NEW t \in Threads, pc[t] \in {"walk", "update"}
    PROVE  /\ call[t] \in Calls /\ p_prev[t] \in Nodes /\ p_next[t] \in Nodes
           /\ pc[t] = "update" => Writing(t)
           /\ ~Reading(t) => Writing(t)
           /\ Writing(t) => p_prev[t] \in Linked \ {p_max_node} /\ p_next[t] \in Linked
<1>1. call[t] \in Calls
  BY DEF ListInv, Types, Labelled
<1>2. pc[t] = "update" => Writing(t)
  BY DEF ListInv, Labelled, Writing
<1>3. ~Reading(t) => Writing(t)
  BY <1>1, <1>2 DEF Reading, Writing, Writes, Calls
<1>4. Reading(t) => p_prev[t] \in Nodes /\ p_next[t] \in Nodes
  BY DEF ListInv, Walks, WalkAt, ReaderAt
<1>5. Writing(t) => p_prev[t] \in Linked \ {p_max_node} /\ p_next[t] \in Linked
  BY DEF ListInv, Walks, WalkAt, WriterAt, Sorted
<1> QED
  BY <1>1, <1>2, <1>3, <1>4, <1>5, ChainFirst DEF Linked

\* The head of the list starts a walk.
LEMMA ListHead ==
    ASSUME ListInv, NEW t \in Threads, call[t] # NULL
    PROVE  /\ call[t] \in Calls
           /\ p_min_node \in Linked \ {p_max_node} /\ node[p_min_node].p_next \in Linked
           /\ node[p_min_node].val < call[t].key
           /\ Justified(t, p_min_node, node[p_min_node].p_next)
           /\ Trail(t, Linked)
<1>1. call[t] \in Calls /\ call[t].key \in Keys
  BY DEF ListInv, Types, Calls
<1>2. \A u \in Threads : call[u] # NULL => SeenAt(u)
  BY DEF ListInv, Walks, WalkAt
<1>3. \A m \in Linked \ {p_max_node} : Justified(t, m, node[m].p_next)
  BY <1>2, JustifiedNow DEF ListInv, Told, AllJustified
<1>4. p_min_node \in Linked \ {p_max_node} /\ node[p_min_node].val < call[t].key
  BY <1>1, ListAssumption DEF ListInv, Sorted
<1>5. Linked \subseteq Visible(t)
  BY ChainFirst DEF Visible, Linked
<1>6. \A m \in Linked \ {p_max_node} : node[m].p_next \in Linked
  BY DEF ListInv, Sorted
<1> QED
  BY <1>1, <1>3, <1>4, <1>5, <1>6 DEF Trail

LEMMA ReaderLockStep ==
    ASSUME ListInv, NEW t \in Threads, ReaderLock(t)
    PROVE  ListInv'
<1>0. /\ pc \in [Threads -> {"idle", "lock", "walk", "update", "unlock", "free"}]
      /\ p_prev \in [Threads -> Nodes \cup {NULL}] /\ p_next \in [Threads -> Nodes \cup {NULL}]
      /\ pc[t] = "lock" /\ call[t] # NULL /\ call[t].op = "contains"
      /\ pc' = [pc EXCEPT ![t] = "walk"]
      /\ p_prev' = [p_prev EXCEPT ![t] = p_min_node]
      /\ p_next' = [p_next EXCEPT ![t] = node[p_min_node].p_next]
      /\ readers' = readers \cup {t}
      /\ UNCHANGED <<node, free, retired, rcuspin, call, result, ret, seen>>
  BY DEF ListInv, Types, ListTypeOK, Labelled, ReaderLock, Move, Goto
<1>1. /\ p_min_node \in Nodes /\ node[p_min_node].p_next \in Nodes
      /\ Linked \subseteq Nodes
  BY <1>0, ListHead, ChainFirst DEF Linked
<1>2. Types'
  BY <1>0, <1>1 DEF ListInv, Types, ListTypeOK
<1>3. Same(t) /\ ~Removed(t) /\ ~Removed(t)' /\ Reading(t)' /\ ~Writing(t)' /\ ~Writing(t)
  BY <1>0 DEF Same, Stays, Removed, Reading, Writing, Writes
<1>4. Labelled'
  BY <1>0 DEF ListInv, Labelled, Writes
<1>5. Locked'
  BY <1>0, <1>3 DEF ListInv, Locked, Reading, Writing, Writes
<1>6. /\ Sorted' /\ Placed' /\ \A u \in Threads \ {t} : WalkAt(u)'
      /\ Visible(t)' = Visible(t)
  BY <1>0, <1>3, ListQuiet
<1>7. WalkAt(t)'
  <2>1. Linked' = Linked /\ Members' = Members
    BY <1>0, SameMemory
  <2>2. \A m, n \in Nodes : Justified(t, m, n)' <=> Justified(t, m, n)
    BY <1>0 DEF Justified
  <2>3. Trail(t, Linked)'
    <3>1. Trail(t, Linked)
      BY <1>0, ListHead
    <3> QED
      BY <3>1, <2>1, <2>2, <1>0, <1>1, <1>6 DEF Trail
  <2>4. ReaderAt(t)'
    <3>1. /\ p_prev'[t] = p_min_node /\ p_next'[t] = node[p_min_node].p_next
          /\ pc'[t] = "walk" /\ call'[t] = call[t]
      BY <1>0
    <3>2. Linked' \in SUBSET Nodes /\ {p_prev'[t], p_next'[t]} \subseteq Linked'
      BY <2>1, <3>1, <1>0, <1>1, ListHead
    <3>3. Justified(t, p_prev[t], p_next[t])'
      <4>1. Justified(t, p_min_node, node[p_min_node].p_next)
        BY <1>0, ListHead
      <4> QED
        BY <4>1, <3>1, <1>0 DEF Justified
    <3>4. node'[p_prev'[t]].val < call'[t].key
      BY <3>1, <1>0, ListHead
    <3> QED
      BY <2>3, <3>1, <3>2, <3>3, <3>4 DEF ReaderAt
  <2>5. SeenAt(t)'
    BY <1>0, <2>1 DEF SeenAt, ListInv, Walks, WalkAt
  <2> QED
    BY <2>4, <2>5, <1>3 DEF WalkAt
<1> QED
  BY <1>2, <1>4, <1>5, <1>6, <1>7 DEF ListInv, Walks

LEMMA WriterLockStep ==
    ASSUME ListInv, NEW t \in Threads, WriterLock(t)
    PROVE  ListInv'
<1>0. /\ pc \in [Threads -> {"idle", "lock", "walk", "update", "unlock", "free"}]
      /\ p_prev \in [Threads -> Nodes \cup {NULL}] /\ p_next \in [Threads -> Nodes \cup {NULL}]
      /\ pc[t] = "lock" /\ call[t] # NULL /\ Writes(t) /\ call[t].op # "contains"
      /\ pc' = [pc EXCEPT ![t] = "walk"]
      /\ p_prev' = [p_prev EXCEPT ![t] = p_min_node]
      /\ p_next' = [p_next EXCEPT ![t] = node[p_min_node].p_next]
      /\ rcuspin = NULL /\ rcuspin' = t
      /\ UNCHANGED <<node, free, retired, readers, call, result, ret, seen>>
  BY DEF ListInv, Types, ListTypeOK, Labelled, WriterLock, Writes, Move, Goto
<1>1. /\ p_min_node \in Nodes /\ node[p_min_node].p_next \in Nodes
      /\ Linked \subseteq Nodes
  BY <1>0, ListHead, ChainFirst DEF Linked
<1>2. Types'
  BY <1>0, <1>1 DEF ListInv, Types, ListTypeOK
<1>3. /\ Same(t) /\ ~Removed(t) /\ ~Removed(t)' /\ ~Reading(t)' /\ ~Reading(t) /\ Writing(t)'
      /\ \A u \in Threads : ~Writing(u)
  <2>1. \A u \in Threads : u # NULL
    BY ListAssumption
  <2>2. \A u \in Threads : ~Writing(u)
    BY <1>0, <2>1 DEF ListInv, Locked
  <2> QED
    BY <1>0, <2>2 DEF Same, Stays, Removed, Reading, Writing, Writes
<1>4. Labelled'
  BY <1>0 DEF ListInv, Labelled, Writes
<1>5. Locked'
  BY <1>0, <1>3 DEF ListInv, Locked, Same, Stays, Reading, Writing, Writes
<1>6. Sorted' /\ Placed' /\ \A u \in Threads \ {t} : WalkAt(u)'
  BY <1>0, <1>3, ListQuiet
<1>7. WalkAt(t)'
  <2>1. Linked' = Linked /\ Members' = Members
    BY <1>0, SameMemory
  <2>2. /\ p_prev'[t] = p_min_node /\ p_next'[t] = node[p_min_node].p_next
        /\ pc'[t] = "walk" /\ call'[t] = call[t]
    BY <1>0
  <2>3. WriterAt(t)'
    BY <2>1, <2>2, <1>0, ListHead DEF WriterAt
  <2>4. SeenAt(t)'
    BY <1>0, <2>1 DEF SeenAt, ListInv, Walks, WalkAt
  <2> QED
    BY <2>3, <2>4, <1>3 DEF WalkAt
<1> QED
  BY <1>2, <1>4, <1>5, <1>6, <1>7 DEF ListInv, Walks

LEMMA AdvanceStep ==
    ASSUME ListInv, NEW t \in Threads, Advance(t)
    PROVE  ListInv'
<1>0. /\ pc \in [Threads -> {"idle", "lock", "walk", "update", "unlock", "free"}]
      /\ p_prev \in [Threads -> Nodes \cup {NULL}] /\ p_next \in [Threads -> Nodes \cup {NULL}]
      /\ node \in [Nodes -> [val : Keys \cup {LIST_VAL_MIN, LIST_VAL_MAX}, p_next : Nodes \cup {NULL}]]
      /\ pc[t] = "walk"
      /\ node[p_next[t]].val < call[t].key
      /\ p_prev' = [p_prev EXCEPT ![t] = p_next[t]]
      /\ p_next' = [p_next EXCEPT ![t] = node[p_next[t]].p_next]
      /\ UNCHANGED <<node, free, retired, readers, rcuspin, call, pc, result, ret, seen>>
  BY DEF ListInv, Types, ListTypeOK, Labelled, Advance, Val, Move
<1>1. /\ call[t] \in Calls /\ p_next[t] \in Nodes
      /\ ~Reading(t) => Writing(t)
      /\ Writing(t) => p_next[t] \in Linked
  BY <1>0, InHand
<1>2. p_next[t] # p_max_node
  <2>1. call[t].key < LIST_VAL_MAX /\ call[t].key \in Int
    BY <1>1, ListAssumption DEF Calls
  <2> QED
    BY <1>0, <2>1, ListAssumption DEF ListInv, Sorted
<1>3. Types'
  BY <1>0, <1>1 DEF ListInv, Types, ListTypeOK
<1>4. /\ Same(t) /\ ~Removed(t) /\ ~Removed(t)'
      /\ \A u \in Threads : (Reading(u)' <=> Reading(u)) /\ (Writing(u)' <=> Writing(u))
  BY <1>0 DEF Same, Stays, Removed, Reading, Writing, Writes
<1>5. Labelled'
  BY <1>0 DEF ListInv, Labelled, Writes
<1>6. Locked'
  BY <1>0, <1>4 DEF ListInv, Locked
<1>7. /\ Sorted' /\ Placed' /\ \A u \in Threads \ {t} : WalkAt(u)'
      /\ Visible(t)' = Visible(t)
  BY <1>0, <1>4, ListQuiet
<1>8. WalkAt(t)'
  <2>1. Linked' = Linked /\ Members' = Members
    BY <1>0, SameMemory
  <2>2. /\ p_prev'[t] = p_next[t] /\ p_next'[t] = node[p_next[t]].p_next
        /\ pc'[t] = "walk" /\ call'[t] = call[t]
    BY <1>0
  <2>3. ASSUME Reading(t) PROVE ReaderAt(t)'
    <3>1. PICK S \in SUBSET Nodes : Trail(t, S) /\ {p_prev[t], p_next[t]} \subseteq S
      BY <2>3 DEF ListInv, Walks, WalkAt, ReaderAt
    <3>2. /\ node[p_next[t]].p_next \in S
          /\ Justified(t, p_next[t], node[p_next[t]].p_next)
      BY <3>1, <1>2 DEF Trail
    <3>3. Trail(t, S)'
      BY <3>1, <2>1, <1>0, <1>7 DEF Trail, Justified
    <3>4. Justified(t, p_prev[t], p_next[t])'
      BY <3>2, <2>2, <1>0 DEF Justified
    <3>5. {p_prev'[t], p_next'[t]} \subseteq S /\ node'[p_prev'[t]].val < call'[t].key
      BY <3>1, <3>2, <2>2, <1>0
    <3> QED
      BY <3>3, <3>4, <3>5, <2>2 DEF ReaderAt
  <2>4. ASSUME Writing(t) PROVE WriterAt(t)'
    BY <2>4, <2>1, <2>2, <1>0, <1>1, <1>2 DEF WriterAt
  <2>5. call[t] # NULL => SeenAt(t)'
    BY <1>0, <2>1 DEF SeenAt, ListInv, Walks, WalkAt
  <2> QED
    BY <2>2, <2>3, <2>4, <2>5, <1>4 DEF WalkAt
<1> QED
  BY <1>3, <1>5, <1>6, <1>7, <1>8 DEF ListInv, Walks

LEMMA StopStep ==
    ASSUME ListInv, NEW t \in Threads, Stop(t)
    PROVE  ListInv'
<1> DEFINE key == call[t].key
           found == node[p_next[t]].val = key
           add == call[t].op = "add"
           label == IF call[t].op = "contains" \/ (add <=> found) THEN "unlock" ELSE "update"
<1>0. /\ pc \in [Threads -> {"idle", "lock", "walk", "update", "unlock", "free"}]
      /\ result \in [Threads -> BOOLEAN]
      /\ node \in [Nodes -> [val : Keys \cup {LIST_VAL_MIN, LIST_VAL_MAX}, p_next : Nodes \cup {NULL}]]
      /\ pc[t] = "walk" /\ node[p_next[t]].val >= key
      /\ UNCHANGED <<node, free, retired, readers, rcuspin, call, p_prev, p_next, ret, seen>>
  BY DEF ListInv, Types, ListTypeOK, Stop, Val
<1>1. pc' = [pc EXCEPT ![t] = label]
  BY DEF Stop, Goto, Val
<1>2. /\ (add <=> ~found) => result' = [result EXCEPT ![t] = TRUE]
      /\ (add <=> found) => result' = [result EXCEPT ![t] = FALSE]
  <2> DEFINE r == IF add THEN ~found ELSE found
  <2>1. result' = [result EXCEPT ![t] = r]
    BY DEF Stop, Val
  <2>2. r \in BOOLEAN
    OBVIOUS
  <2>3. ((add <=> ~found) => r = TRUE) /\ ((add <=> found) => r = FALSE)
    OBVIOUS
  <2> HIDE DEF r, found, add
  <2> QED
    BY <2>1, <2>2, <2>3
<1>3. /\ call[t] \in Calls /\ key \in Keys /\ key \in Int
      /\ p_prev[t] \in Nodes /\ p_next[t] \in Nodes
      /\ node[p_next[t]].val \in Int
      /\ ~Reading(t) => Writing(t)
      /\ Writing(t) => p_prev[t] \in Linked \ {p_max_node} /\ p_next[t] \in Linked
  <2>1. /\ call[t] \in Calls /\ key \in Keys
        /\ p_prev[t] \in Nodes /\ p_next[t] \in Nodes
        /\ ~Reading(t) => Writing(t)
        /\ Writing(t) => p_prev[t] \in Linked \ {p_max_node} /\ p_next[t] \in Linked
    BY <1>0, InHand DEF Calls
  <2> QED
    BY <2>1, <1>0, ListAssumption
<1>4. Types'
  <2>1. result' \in [Threads -> BOOLEAN]
    BY <1>0, <1>2
  <2>2. pc' \in [Threads -> {"idle", "lock", "walk", "update", "unlock", "free"}]
    BY <1>0, <1>1
  <2> QED
    BY <1>0, <2>1, <2>2 DEF ListInv, Types, ListTypeOK
<1>5. /\ pc'[t] = label /\ \A u \in Threads \ {t} : pc'[u] = pc[u]
      /\ result'[t] \in BOOLEAN /\ (result'[t] <=> (add <=> ~found))
      /\ \A u \in Threads \ {t} : result'[u] = result[u]
  BY <1>0, <1>1, <1>2
<1>6. /\ Same(t) /\ ~Removed(t) /\ ~Removed(t)'
      /\ \A u \in Threads : (Reading(u)' <=> Reading(u)) /\ (Writing(u)' <=> Writing(u))
  <2>1. Same(t)
    BY <1>0, <1>5 DEF Same, Stays
  <2>2. ~Removed(t) /\ ~Removed(t)'
    BY <1>0, <1>5 DEF Removed
  <2>3. call[t].op \in {"contains", "add", "remove"}
    BY <1>3 DEF Calls
  <2> HIDE DEF found
  <2>4. \A u \in Threads : (Reading(u)' <=> Reading(u)) /\ (Writing(u)' <=> Writing(u))
    BY <1>0, <1>5, <2>3 DEF Reading, Writing, Writes
  <2> QED
    BY <2>1, <2>2, <2>4
<1>7. Labelled'
  <2>1. call[t].op \in {"contains", "add", "remove"}
    BY <1>3 DEF Calls
  <2> HIDE DEF found
  <2> QED
    BY <1>0, <1>5, <2>1 DEF ListInv, Labelled, Writes
<1>8. Locked'
  BY <1>0, <1>6 DEF ListInv, Locked
<1>9. /\ Sorted' /\ Placed' /\ \A u \in Threads \ {t} : WalkAt(u)'
      /\ Visible(t)' = Visible(t) /\ Linked' = Linked /\ Members' = Members
  BY <1>0, <1>6, ListQuiet, SameMemory
<1>10. WalkAt(t)'
  <2>1. ASSUME Reading(t) PROVE ReaderAt(t)'
    <3>1. \A S \in SUBSET Nodes : Trail(t, S) => Trail(t, S)'
      BY <1>0, <1>9 DEF Trail, Justified
    <3>2. /\ ReaderAt(t) /\ Justified(t, p_prev[t], p_next[t]) /\ node[p_prev[t]].val < key
          /\ call[t].op = "contains"
      BY <1>0, <2>1 DEF ListInv, Walks, WalkAt, ReaderAt, Reading
    <3>3. (found => TRUE \in seen[t]) /\ (~found => FALSE \in seen[t])
      <4>1. /\ node[p_next[t]].val = key => TRUE \in seen[t]
            /\ node[p_next[t]].val > key => FALSE \in seen[t]
        BY <3>2 DEF Justified
      <4>2. node[p_next[t]].val = key \/ node[p_next[t]].val > key
        BY <1>0, <1>3
      <4> QED
        BY <4>1, <4>2
    <3>4. result'[t] \in seen[t] /\ pc'[t] = "unlock"
      BY <3>2, <3>3, <1>5
    <3> QED
      BY <1>0, <3>1, <3>2, <3>4 DEF ReaderAt
  <2>2. ASSUME Writing(t) PROVE WriterAt(t)'
    <3>1. /\ p_prev[t] \in Linked \ {p_max_node} /\ p_next[t] = node[p_prev[t]].p_next
          /\ node[p_prev[t]].val < key /\ p_next[t] \in Linked /\ call[t] # NULL
      BY <1>0, <1>3, <2>2 DEF ListInv, Labelled, Walks, WalkAt, WriterAt
    <3>2. (found => key \in Members) /\ (~found => key \notin Members)
      BY <3>1, <1>0, <1>3, Neighbours DEF ListInv
    <3>3. SeenAt(t) /\ call[t].op \in {"add", "remove"}
      BY <2>2, <3>1 DEF ListInv, Walks, WalkAt, Writing, Writes
    <3>4. ~result'[t] => (add => TRUE \in seen[t]) /\ (~add => FALSE \in seen[t])
      BY <3>2, <3>3, <1>5 DEF SeenAt
    <3>5. pc'[t] = "unlock" => ~result'[t] /\ (call[t].op = "remove" => key \notin Members)
      BY <3>2, <3>3, <1>5
    <3>7. pc'[t] = "update" =>
            /\ call[t].op = "add" => node[p_next[t]].val > key
            /\ call[t].op = "remove" => found
      BY <1>0, <1>3, <1>5
    <3> QED
      BY <1>0, <1>9, <3>1, <3>3, <3>4, <3>5, <3>7 DEF WriterAt
  <2>3. call[t] # NULL => SeenAt(t)'
    BY <1>0, <1>9 DEF SeenAt, ListInv, Walks, WalkAt
  <2> QED
    BY <1>0, <1>6, <2>1, <2>2, <2>3 DEF WalkAt
<1> QED
  BY <1>4, <1>7, <1>8, <1>9, <1>10 DEF ListInv, Walks

\* The end of a call; what the others see of the backlog is up to the caller.
LEMMA ReturnStep ==
    ASSUME ListInv, NEW t \in Threads, Return(t)
    PROVE  /\ Same(t) /\ ~Removed(t)' /\ ~Reading(t)' /\ ~Writing(t)' /\ Labelled' /\ WalkAt(t)'
           /\ pc' = [pc EXCEPT ![t] = "idle"]
           /\ pc' \in [Threads -> {"idle", "lock", "walk", "update", "unlock", "free"}]
           /\ call' \in [Threads -> Calls \cup {NULL}]
           /\ (\A u \in Threads : call'[u] # NULL =>
                    call'[u] \in [op : {"contains", "add", "remove"}, key : Keys])
           /\ seen' \in [Threads -> SUBSET BOOLEAN]
           /\ p_prev' \in [Threads -> Nodes \cup {NULL}] /\ p_next' \in [Threads -> Nodes \cup {NULL}]
           /\ result' \in [Threads -> BOOLEAN] /\ ret' \in [Threads -> BOOLEAN]
<1>0. /\ pc \in [Threads -> {"idle", "lock", "walk", "update", "unlock", "free"}]
      /\ call \in [Threads -> Calls \cup {NULL}] /\ seen \in [Threads -> SUBSET BOOLEAN]
      /\ p_prev \in [Threads -> Nodes \cup {NULL}] /\ p_next \in [Threads -> Nodes \cup {NULL}]
      /\ result \in [Threads -> BOOLEAN] /\ ret \in [Threads -> BOOLEAN]
      /\ pc' = [pc EXCEPT ![t] = "idle"] /\ call' = [call EXCEPT ![t] = NULL]
      /\ seen' = [seen EXCEPT ![t] = {}] /\ result' = [result EXCEPT ![t] = FALSE]
      /\ p_prev' = [p_prev EXCEPT ![t] = NULL] /\ p_next' = [p_next EXCEPT ![t] = NULL]
      /\ ret' = [ret EXCEPT ![t] = result[t]]
  BY DEF ListInv, Types, ListTypeOK, Return, Goto
<1>1. /\ pc'[t] = "idle" /\ call'[t] = NULL /\ p_prev'[t] = NULL /\ p_next'[t] = NULL
      /\ Same(t)
  BY <1>0 DEF Same, Stays
<1>2. ~Removed(t)' /\ ~Reading(t)' /\ ~Writing(t)' /\ WalkAt(t)'
  BY <1>1 DEF Removed, Reading, Writing, WalkAt
<1>3. Labelled'
  BY <1>0, <1>1 DEF ListInv, Labelled, Writes, Same, Stays
<1>4. \A u \in Threads : call'[u] # NULL =>
         call'[u] \in [op : {"contains", "add", "remove"}, key : Keys]
  BY <1>0 DEF Calls
<1> QED
  BY <1>0, <1>1, <1>2, <1>3, <1>4

LEMMA ReaderUnlockStep ==
    ASSUME ListInv, NEW t \in Threads, ReaderUnlock(t)
    PROVE  ListInv'
<1>0. /\ pc[t] = "unlock" /\ call[t].op = "contains"
      /\ readers' = readers \ {t}
      /\ retired' = {[r EXCEPT !.sections = @ \ {t}] : r \in retired}
      /\ Return(t)
      /\ UNCHANGED <<node, free, rcuspin>>
  BY DEF ReaderUnlock
<1>1. retired \in SUBSET [node : Nodes, sections : SUBSET Threads]
  BY DEF ListInv, Types, ListTypeOK
<1>2. \A r \in retired' : \E q \in retired :
         r = [node |-> q.node, sections |-> q.sections \ {t}]
  BY <1>0, <1>1
<1>3. \A q \in retired : [node |-> q.node, sections |-> q.sections \ {t}] \in retired'
  <2> SUFFICES ASSUME NEW q \in retired
               PROVE  [node |-> q.node, sections |-> q.sections \ {t}] \in retired'
    OBVIOUS
  <2>1. [q EXCEPT !.sections = @ \ {t}] \in retired'
    BY <1>0
  <2>2. [q EXCEPT !.sections = @ \ {t}] = [node |-> q.node, sections |-> q.sections \ {t}]
    BY <1>1
  <2> QED
    BY <2>1, <2>2
<1>4. Types'
  <2>1. retired' \in SUBSET [node : Nodes, sections : SUBSET Threads]
    BY <1>1, <1>2
  <2> QED
    BY <1>0, <2>1, ReturnStep DEF ListInv, Types, ListTypeOK
<1>5. /\ Same(t) /\ ~Removed(t) /\ ~Removed(t)' /\ Labelled' /\ WalkAt(t)'
      /\ ~Reading(t)' /\ ~Writing(t)'
  BY <1>0, ReturnStep DEF Removed
<1>6. Locked'
  BY <1>0, <1>5 DEF ListInv, Locked, Same, Stays, Reading, Writing, Writes
<1>7. Linked' = Linked /\ Sorted'
  BY <1>0, SameMemory DEF ListInv
<1>8. \A u \in Threads : /\ Removed(u)' <=> Removed(u)
                         /\ Removed(u) => p_next'[u] = p_next[u]
  BY <1>5 DEF Same, Stays, Removed
<1>9. Placed'
  <2>1. \A r \in retired' : \E q \in retired : r.node = q.node
    BY <1>2
  <2>2. \A q \in retired : \E r \in retired' : r.node = q.node
    <3> SUFFICES ASSUME NEW q \in retired
                 PROVE  \E r \in retired' : r.node = q.node
      OBVIOUS
    <3> DEFINE r == [node |-> q.node, sections |-> q.sections \ {t}]
    <3>1. r.node = q.node /\ r \in retired'
      BY <1>3
    <3> QED
      BY <3>1
  <2>3. \A r, q \in retired' : r.node = q.node => r = q
    <3> SUFFICES ASSUME NEW r \in retired', NEW q \in retired', r.node = q.node
                 PROVE  r = q
      OBVIOUS
    <3>1. PICK r1 \in retired : r = [node |-> r1.node, sections |-> r1.sections \ {t}]
      BY <1>2
    <3>2. PICK q1 \in retired : q = [node |-> q1.node, sections |-> q1.sections \ {t}]
      BY <1>2
    <3>3. r1.node = q1.node
      BY <3>1, <3>2
    <3> QED
      BY <3>1, <3>2, <3>3 DEF ListInv, Placed
  <2>4. \A r \in retired' : r.node \notin free \cup Linked
    BY <2>1 DEF ListInv, Placed
  <2>5. \A u \in Threads : Removed(u) => \A r \in retired' : r.node # p_next[u]
    BY <2>1 DEF ListInv, Placed
  <2>6. \A m \in Nodes : \/ m \in free \cup Linked
                         \/ \E r \in retired' : r.node = m
                         \/ \E u \in Threads : Removed(u) /\ p_next[u] = m
    BY <2>2 DEF ListInv, Placed
  <2>7. \A u \in Threads : Removed(u) =>
           /\ p_next[u] \in Nodes \ (free \cup Linked)
           /\ \A v \in Threads : Removed(v) /\ v # u => p_next[v] # p_next[u]
    BY DEF ListInv, Placed
  <2>8. Linked \cap free = {}
    BY DEF ListInv, Placed
  <2>9. free' = free
    BY <1>0
  <2> QED
    BY <2>3, <2>4, <2>5, <2>6, <2>7, <2>8, <2>9, <1>7, <1>8 DEF Placed
<1>10. ASSUME NEW u \in Threads \ {t} PROVE WalkAt(u)'
  <2>1. \A m \in Nodes : (\E r \in retired : r.node = m /\ u \in r.sections) =>
                         (\E r \in retired' : r.node = m /\ u \in r.sections)
    <3> SUFFICES ASSUME NEW q \in retired, u \in q.sections
                 PROVE  \E r \in retired' : r.node = q.node /\ u \in r.sections
      OBVIOUS
    <3> DEFINE r == [node |-> q.node, sections |-> q.sections \ {t}]
    <3>1. r.node = q.node /\ u \in r.sections /\ r \in retired'
      BY <1>3
    <3> QED
      BY <3>1
  <2>2. Visible(u) \subseteq Visible(u)'
    BY <2>1, <1>7, <1>8 DEF Visible
  <2> QED
    BY <2>2, <1>0, <1>5, WalkQuiet DEF Same
<1> QED
  BY <1>4, <1>5, <1>6, <1>7, <1>9, <1>10 DEF ListInv, Walks

LEMMA WriterUnlockStep ==
    ASSUME ListInv, NEW t \in Threads, WriterUnlock(t)
    PROVE  ListInv'
<1>0. /\ pc[t] = "unlock" /\ Writing(t) /\ ~Reading(t) /\ call[t] # NULL
      /\ rcuspin' = NULL
      /\ UNCHANGED <<node, free, retired, readers>>
  BY DEF ListInv, Labelled, WriterUnlock, Writing, Writes, Reading
<1>1. \A u \in Threads \ {t} : ~Writing(u)
  BY <1>0 DEF ListInv, Locked
<1>2. CASE Removed(t)
  <2>1. /\ pc \in [Threads -> {"idle", "lock", "walk", "update", "unlock", "free"}]
        /\ p_prev \in [Threads -> Nodes \cup {NULL}]
        /\ pc' = [pc EXCEPT ![t] = "free"] /\ p_prev' = [p_prev EXCEPT ![t] = NULL]
        /\ UNCHANGED <<call, p_next, result, ret, seen>>
    BY <1>2, <1>0 DEF ListInv, Types, ListTypeOK, Removed, WriterUnlock, Goto
  <2>2. Types'
    BY <1>0, <2>1 DEF ListInv, Types, ListTypeOK
  <2>3. /\ Same(t) /\ Removed(t)' /\ ~Reading(t)' /\ ~Writing(t)'
        /\ call[t].op = "remove" /\ result[t]
    BY <2>1, <1>2 DEF Same, Stays, Removed, Reading, Writing
  <2>4. Labelled'
    BY <2>1, <2>3, <1>0 DEF ListInv, Labelled, Writes
  <2>5. Locked'
    BY <1>0, <1>1, <2>1, <2>3 DEF ListInv, Locked, Same, Stays, Reading, Writing, Writes
  <2>6. Sorted' /\ Placed' /\ \A u \in Threads \ {t} : WalkAt(u)'
    BY <1>0, <1>2, <2>1, <2>3, ListQuiet
  <2>7. SeenAt(t)'
    BY <1>0, <2>1, SameMemory DEF SeenAt, ListInv, Walks, WalkAt
  <2> QED
    BY <2>2, <2>3, <2>4, <2>5, <2>6, <2>7 DEF ListInv, Walks, WalkAt
<1>3. CASE ~Removed(t)
  <2>1. Return(t)
    BY <1>3, <1>0 DEF WriterUnlock, Removed
  <2>2. Types'
    BY <1>0, <2>1, ReturnStep DEF ListInv, Types, ListTypeOK
  <2>3. /\ Same(t) /\ ~Removed(t)' /\ Labelled' /\ WalkAt(t)' /\ ~Reading(t)' /\ ~Writing(t)'
    BY <2>1, ReturnStep
  <2>4. Locked'
    BY <1>0, <1>1, <2>3 DEF ListInv, Locked, Same, Stays, Reading, Writing, Writes
  <2>5. Sorted' /\ Placed' /\ \A u \in Threads \ {t} : WalkAt(u)'
    BY <1>0, <1>3, <2>3, ListQuiet
  <2> QED
    BY <2>2, <2>3, <2>4, <2>5 DEF ListInv, Walks
<1> QED
  BY <1>2, <1>3

LEMMA FreeNodeStep ==
    ASSUME ListInv, NEW t \in Threads, FreeNode(t)
    PROVE  ListInv'
<1> DEFINE q == [node |-> p_next[t], sections |-> readers]
<1>0. /\ pc[t] = "free" /\ ~Reading(t) /\ ~Writing(t)
      /\ retired' = retired \cup {q} /\ Return(t)
      /\ UNCHANGED <<node, free, readers, rcuspin>>
  BY DEF FreeNode, Reading, Writing
<1>1. Removed(t) /\ p_next[t] \in Nodes
  <2>1. Removed(t)
    BY <1>0 DEF ListInv, Labelled, Removed
  <2> QED
    BY <2>1 DEF ListInv, Placed
<1>2. /\ Same(t) /\ ~Removed(t)' /\ Labelled' /\ WalkAt(t)' /\ ~Reading(t)' /\ ~Writing(t)'
  BY <1>0, ReturnStep
<1>3. Types'
  <2>1. readers \in SUBSET Threads /\ retired \in SUBSET [node : Nodes, sections : SUBSET Threads]
    BY DEF ListInv, Types, ListTypeOK
  <2>2. retired' \in SUBSET [node : Nodes, sections : SUBSET Threads]
    BY <1>0, <1>1, <2>1
  <2> QED
    BY <1>0, <2>2, ReturnStep DEF ListInv, Types, ListTypeOK
<1>4. Locked'
  BY <1>0, <1>2 DEF ListInv, Locked, Same, Stays, Reading, Writing, Writes
<1>5. Linked' = Linked /\ Sorted'
  BY <1>0, SameMemory DEF ListInv
<1>6. \A u \in Threads : /\ Removed(u)' <=> Removed(u) /\ u # t
                         /\ Removed(u)' => p_next'[u] = p_next[u]
  BY <1>2 DEF Same, Stays, Removed
<1>7. q.node = p_next[t] /\ q.sections = readers
  OBVIOUS
<1> HIDE DEF q
<1>8. Placed'
  <2>1. p_next[t] \notin free \cup Linked /\ \A r \in retired : r.node # q.node
    BY <1>1, <1>7 DEF ListInv, Placed
  <2>2. \A u \in Threads : Removed(u) /\ u # t => p_next[u] # p_next[t]
    BY <1>1 DEF ListInv, Placed
  <2>3. \A m \in Nodes : \/ m \in free \cup Linked
                         \/ \E r \in retired' : r.node = m
                         \/ \E u \in Threads : Removed(u)' /\ p_next'[u] = m
    <3> SUFFICES ASSUME NEW m \in Nodes, m \notin free \cup Linked,
                        ~\E r \in retired' : r.node = m
                 PROVE  \E u \in Threads : Removed(u)' /\ p_next'[u] = m
      OBVIOUS
    <3>1. m # p_next[t] /\ ~\E r \in retired : r.node = m
      BY <1>0, <1>7
    <3>2. PICK u \in Threads : Removed(u) /\ p_next[u] = m
      BY <3>1 DEF ListInv, Placed
    <3> QED
      BY <3>1, <3>2, <1>6
  <2> QED
    BY <2>1, <2>2, <2>3, <1>0, <1>5, <1>6, <1>7 DEF ListInv, Placed
<1>9. ASSUME NEW u \in Threads \ {t} PROVE WalkAt(u)'
  <2>1. Reading(u) => u \in q.sections
    BY <1>7 DEF ListInv, Locked
  <2>2. Reading(u) => Visible(u) \subseteq Visible(u)'
    BY <2>1, <1>0, <1>5, <1>6, <1>7 DEF Visible
  <2> QED
    BY <2>2, <1>0, <1>2, WalkQuiet DEF Same
<1> QED
  BY <1>2, <1>3, <1>4, <1>5, <1>8, <1>9 DEF ListInv, Walks

LEMMA ReclaimStep ==
    ASSUME ListInv, Reclaim
    PROVE  ListInv'
<1>0. PICK r \in retired : /\ r.sections = {} /\ retired' = retired \ {r}
                           /\ free' = free \cup {r.node}
                           /\ UNCHANGED <<node, readers, rcuspin, call, pc, p_prev, p_next,
                                          result, ret, seen>>
  BY DEF Reclaim
<1>1. r.node \in Nodes
  BY DEF ListInv, Types, ListTypeOK
<1>2. Types'
  BY <1>0, <1>1 DEF ListInv, Types, ListTypeOK
<1>3. Labelled' /\ Locked'
  BY <1>0 DEF ListInv, Labelled, Locked, Reading, Writing, Writes
<1>4. Linked' = Linked /\ Sorted'
  BY <1>0, SameMemory DEF ListInv
<1>5. \A u \in Threads : Removed(u)' <=> Removed(u)
  BY <1>0 DEF Removed
<1>6. Placed'
  <2>1. \A q \in retired' : q.node # r.node
    BY <1>0 DEF ListInv, Placed
  <2>2. r.node \notin Linked /\ \A u \in Threads : Removed(u) => p_next[u] # r.node
    BY DEF ListInv, Placed
  <2>3. \A m \in Nodes : \/ m \in free' \cup Linked
                         \/ \E q \in retired' : q.node = m
                         \/ \E u \in Threads : Removed(u) /\ p_next[u] = m
    BY <1>0 DEF ListInv, Placed
  <2> QED
    BY <2>1, <2>2, <2>3, <1>0, <1>4, <1>5 DEF ListInv, Placed
<1>7. ASSUME NEW u \in Threads PROVE WalkAt(u)'
  <2>1. Visible(u) \subseteq Visible(u)'
    BY <1>0, <1>4, <1>5 DEF Visible
  <2>2. Stays(u)
    BY <1>0 DEF Stays
  <2> QED
    BY <2>1, <2>2, <1>0, WalkQuiet
<1> QED
  BY <1>2, <1>3, <1>4, <1>6, <1>7 DEF ListInv, Walks

LEMMA VisibleKept ==
    ASSUME ListInv, NEW u \in Threads
    PROVE  Visible(u) \cap free = {} /\ Visible(u) \subseteq Nodes
BY DEF ListInv, Placed, Visible

\* A reader goes on where an update changed the list: the blocks that it may
\* reach keep their keys, and those that left the list keep their links.
LEMMA ReaderFollows ==
    ASSUME ListInv, Types', Sorted', \A v \in Threads : call'[v] # NULL => SeenAt(v)',
           NEW u \in Threads, Reading(u), pc'[u] = pc[u], call' = call, call'[u] # NULL,
           result' = result, p_prev' = p_prev, p_next' = p_next, seen[u] \subseteq seen'[u],
           Visible(u) \subseteq Visible(u)',
           \A n \in Visible(u) : /\ node'[n].val = node[n].val
                                 /\ n \in Linked' \/ node'[n].p_next = node[n].p_next
    PROVE  ReaderAt(u)'
<1>1. ReaderAt(u)
  BY DEF ListInv, Walks, WalkAt
<1>2. PICK S \in SUBSET Nodes : Trail(u, S) /\ {p_prev[u], p_next[u]} \subseteq S
  BY <1>1 DEF ReaderAt
<1>3. \A n \in Linked' \ {p_max_node} : Justified(u, n, node[n].p_next)'
  <2>1. Told' => AllJustified'
    BY JustifiedNow, PTL
  <2> QED
    BY <2>1 DEF Told, AllJustified
<1>4. \A m, n \in S : Justified(u, m, n) => Justified(u, m, n)'
  BY <1>2 DEF Trail, Justified
<1>5. Linked' \subseteq Nodes /\ Linked' \subseteq Visible(u)'
  BY ChainFirst DEF Linked, Visible
<1>10. PICK T \in SUBSET Nodes : T = S \cup Linked'
  BY <1>5
<1>6. \A n \in T \ {p_max_node} : node'[n].p_next \in T /\ Justified(u, n, node[n].p_next)'
  <2> SUFFICES ASSUME NEW n \in T \ {p_max_node}
               PROVE  node'[n].p_next \in T /\ Justified(u, n, node[n].p_next)'
    OBVIOUS
  <2>1. CASE n \in Linked'
    BY <2>1, <1>3, <1>10 DEF Sorted
  <2>2. CASE n \notin Linked'
    <3>1. n \in S \ {p_max_node} /\ n \in Visible(u) /\ node'[n].p_next = node[n].p_next
      BY <2>2, <1>2, <1>10 DEF Trail
    <3>2. node[n].p_next \in S /\ Justified(u, n, node[n].p_next)
      BY <3>1, <1>2 DEF Trail
    <3>3. Justified(u, n, node[n].p_next)'
      BY <3>1, <3>2, <1>2 DEF Justified, Trail
    <3> QED
      BY <3>1, <3>2, <3>3, <1>10
  <2> QED
    BY <2>1, <2>2
<1>7. Trail(u, T)'
  BY <1>2, <1>5, <1>6, <1>10 DEF Trail
<1>8. Justified(u, p_prev[u], p_next[u]) => Justified(u, p_prev[u], p_next[u])'
  BY <1>2 DEF Justified, Trail
<1>9. node'[p_prev[u]].val = node[p_prev[u]].val
  BY <1>2 DEF Trail
<1> QED
  BY <1>1, <1>2, <1>5, <1>7, <1>8, <1>9, <1>10 DEF ReaderAt

LEMMA LinkStep ==
    ASSUME ListInv, NEW t \in Threads, Link(t)
    PROVE  ListInv' /\ Members' = Members \cup {call[t].key} /\ call[t].key \notin Members
<1> DEFINE p == p_prev[t]
           key == call[t].key
<1>0. /\ pc \in [Threads -> {"idle", "lock", "walk", "update", "unlock", "free"}]
      /\ node \in [Nodes -> [val : Keys \cup {LIST_VAL_MIN, LIST_VAL_MAX}, p_next : Nodes \cup {NULL}]]
      /\ free \subseteq Nodes /\ seen \in [Threads -> SUBSET BOOLEAN]
      /\ pc[t] = "update" /\ call[t].op = "add"
      /\ seen' = [u \in Threads |-> IF call[u] # NULL /\ call[u].key = key
                                    THEN seen[u] \cup {TRUE} ELSE seen[u]]
      /\ pc' = [pc EXCEPT ![t] = "unlock"]
      /\ UNCHANGED <<retired, readers, rcuspin, call, p_prev, p_next, result, ret>>
  BY DEF ListInv, Types, ListTypeOK, Link, Notice, Goto
<1>1. PICK m \in free : /\ free' = free \ {m}
                        /\ node' = [node EXCEPT ![m] = [val |-> key, p_next |-> p_next[t]],
                                                ![p].p_next = m]
  BY DEF Link
<1>2. /\ Writing(t) /\ ~Reading(t) /\ p \in Linked \ {p_max_node} /\ key \in Keys
      /\ p_next[t] = node[p].p_next /\ node[p].val < key /\ node[p_next[t]].val > key
      /\ result[t] /\ call[t] # NULL
  <2>1. Writing(t) /\ ~Reading(t) /\ result[t] /\ call[t] # NULL
    BY <1>0 DEF ListInv, Labelled, Writing, Reading
  <2>2. WriterAt(t)
    BY <2>1 DEF ListInv, Walks, WalkAt
  <2>3. call[t] \in Calls
    BY <1>0, InHand
  <2> QED
    BY <2>1, <2>2, <2>3, <1>0 DEF WriterAt, Calls
<1>3. m \in Nodes \ Linked /\ node[p].p_next \in Linked /\ Linked \subseteq Nodes
  BY <1>0, <1>2, ChainFirst DEF ListInv, Placed, Sorted, Linked
<1>4. /\ Linked' = Linked \cup {m} /\ Sorted' /\ Members' = Members \cup {key}
      /\ key \notin Members
  BY <1>1, <1>2, <1>3, LinkList DEF ListInv
<1>5. Types'
  <2>1. node' \in [Nodes -> [val : Keys \cup {LIST_VAL_MIN, LIST_VAL_MAX}, p_next : Nodes \cup {NULL}]]
    BY <1>0, <1>1, <1>2, <1>3
  <2>2. seen' \in [Threads -> SUBSET BOOLEAN]
    BY <1>0
  <2> QED
    BY <1>0, <1>1, <2>1, <2>2 DEF ListInv, Types, ListTypeOK
<1>6. /\ \A u \in Threads : /\ Removed(u)' <=> Removed(u)
                            /\ Reading(u)' <=> Reading(u)
                            /\ Writing(u)' <=> Writing(u)
      /\ \A u \in Threads \ {t} : ~Writing(u)
  <2>1. \A u \in Threads \ {t} : ~Writing(u)
    BY <1>2 DEF ListInv, Locked
  <2> QED
    BY <2>1, <1>0 DEF Removed, Reading, Writing, Writes
<1>7. Labelled'
  BY <1>0, <1>2 DEF ListInv, Labelled, Writes
<1>8. Locked'
  BY <1>0, <1>6 DEF ListInv, Locked
<1>9. Placed'
  BY <1>0, <1>1, <1>4, <1>6 DEF ListInv, Placed
<1>10. \A u \in Threads : call'[u] # NULL => SeenAt(u)'
  BY <1>0, <1>4 DEF ListInv, Walks, WalkAt, SeenAt
<1>11. ASSUME NEW u \in Threads, Reading(u) PROVE ReaderAt(u)'
  <2>1. u # t /\ call[u] # NULL
    BY <1>2, <1>11 DEF ListInv, Labelled, Reading
  <2>2. m \notin Visible(u) /\ Visible(u) \subseteq Nodes
    BY <1>1, VisibleKept
  <2>3. Visible(u) \subseteq Visible(u)'
    BY <1>0, <1>4, <1>6 DEF Visible
  <2>4. \A n \in Visible(u) : /\ node'[n].val = node[n].val
                              /\ n \in Linked' \/ node'[n].p_next = node[n].p_next
    BY <2>2, <1>0, <1>1, <1>2, <1>3, <1>4
  <2>5. seen[u] \subseteq seen'[u] /\ pc'[u] = pc[u]
    BY <2>1, <1>0
  <2> QED
    BY <2>1, <2>3, <2>4, <2>5, <1>0, <1>4, <1>5, <1>10, <1>11, ReaderFollows
<1>12. WriterAt(t)'
  BY <1>0, <1>2, <1>3, <1>4 DEF WriterAt
<1>13. Walks'
  BY <1>6, <1>10, <1>11, <1>12 DEF Walks, WalkAt
<1> QED
  BY <1>4, <1>5, <1>7, <1>8, <1>9, <1>13 DEF ListInv

LEMMA UnlinkStep ==
    ASSUME ListInv, NEW t \in Threads, Unlink(t)
    PROVE  ListInv' /\ Members' = Members \ {call[t].key} /\ call[t].key \in Members
<1> DEFINE p == p_prev[t]
           x == p_next[t]
           key == call[t].key
<1>0. /\ pc \in [Threads -> {"idle", "lock", "walk", "update", "unlock", "free"}]
      /\ node \in [Nodes -> [val : Keys \cup {LIST_VAL_MIN, LIST_VAL_MAX}, p_next : Nodes \cup {NULL}]]
      /\ seen \in [Threads -> SUBSET BOOLEAN]
      /\ pc[t] = "update" /\ call[t].op = "remove"
      /\ node' = [node EXCEPT ![p].p_next = node[x].p_next]
      /\ seen' = [u \in Threads |-> IF call[u] # NULL /\ call[u].key = key
                                    THEN seen[u] \cup {FALSE} ELSE seen[u]]
      /\ pc' = [pc EXCEPT ![t] = "unlock"]
      /\ UNCHANGED <<free, retired, readers, rcuspin, call, p_prev, p_next, result, ret>>
  BY DEF ListInv, Types, ListTypeOK, Unlink, Notice, Goto
<1>1. /\ Writing(t) /\ ~Reading(t) /\ p \in Linked \ {p_max_node} /\ key \in Keys
      /\ x = node[p].p_next /\ node[x].val = key
      /\ result[t] /\ call[t] # NULL
  <2>1. Writing(t) /\ ~Reading(t) /\ result[t] /\ call[t] # NULL
    BY <1>0 DEF ListInv, Labelled, Writing, Reading
  <2>2. WriterAt(t)
    BY <2>1 DEF ListInv, Walks, WalkAt
  <2>3. call[t] \in Calls
    BY <1>0, InHand
  <2> QED
    BY <2>1, <2>2, <2>3, <1>0 DEF WriterAt, Calls
<1>2. /\ x \in Linked /\ x # p /\ Linked' = Linked \ {x} /\ Sorted'
      /\ Members' = Members \ {key} /\ key \in Members
  BY <1>0, <1>1, UnlinkList DEF ListInv
<1>3. Linked \subseteq Nodes
  BY ChainFirst DEF Linked
<1>4. Types'
  <2>1. node' \in [Nodes -> [val : Keys \cup {LIST_VAL_MIN, LIST_VAL_MAX}, p_next : Nodes \cup {NULL}]]
    BY <1>0, <1>2, <1>3
  <2>2. seen' \in [Threads -> SUBSET BOOLEAN]
    BY <1>0
  <2> QED
    BY <1>0, <2>1, <2>2 DEF ListInv, Types, ListTypeOK
<1>5. /\ \A u \in Threads : /\ Removed(u)' <=> Removed(u) \/ u = t
                            /\ Reading(u)' <=> Reading(u)
                            /\ Writing(u)' <=> Writing(u)
      /\ \A u \in Threads \ {t} : ~Writing(u)
      /\ ~Removed(t)
  <2>1. \A u \in Threads \ {t} : ~Writing(u)
    BY <1>1 DEF ListInv, Locked
  <2> QED
    BY <2>1, <1>0, <1>1 DEF Removed, Reading, Writing, Writes
<1>6. Labelled'
  BY <1>0, <1>1 DEF ListInv, Labelled, Writes
<1>7. Locked'
  BY <1>0, <1>5 DEF ListInv, Locked
<1>8. Placed'
  <2>1. /\ x \in Nodes \ (free \cup Linked')
        /\ \A r \in retired : r.node # x
        /\ \A u \in Threads : Removed(u) => p_next[u] # x
    BY <1>2, <1>3 DEF ListInv, Placed
  <2>2. \A m \in Nodes : \/ m \in free \cup Linked'
                         \/ \E r \in retired : r.node = m
                         \/ \E u \in Threads : Removed(u)' /\ p_next[u] = m
    BY <1>2, <1>5 DEF ListInv, Placed
  <2> QED
    BY <2>1, <2>2, <1>0, <1>2, <1>5 DEF ListInv, Placed
<1>9. \A u \in Threads : call'[u] # NULL => SeenAt(u)'
  BY <1>0, <1>2 DEF ListInv, Walks, WalkAt, SeenAt
<1>10. ASSUME NEW u \in Threads, Reading(u) PROVE ReaderAt(u)'
  <2>1. u # t /\ call[u] # NULL
    BY <1>1, <1>10 DEF ListInv, Labelled, Reading
  <2>2. Visible(u) \subseteq Visible(u)'
    BY <1>0, <1>2, <1>5 DEF Visible
  <2>3. \A n \in Visible(u) : /\ node'[n].val = node[n].val
                              /\ n \in Linked' \/ node'[n].p_next = node[n].p_next
    BY <1>0, <1>1, <1>2, <1>3, VisibleKept
  <2>4. seen[u] \subseteq seen'[u] /\ pc'[u] = pc[u]
    BY <2>1, <1>0
  <2> QED
    BY <2>1, <2>2, <2>3, <2>4, <1>0, <1>2, <1>4, <1>9, <1>10, ReaderFollows
<1>11. WriterAt(t)'
  BY <1>0, <1>1, <1>2, <1>5 DEF WriterAt
<1>12. Walks'
  BY <1>5, <1>9, <1>10, <1>11 DEF Walks, WalkAt
<1> QED
  BY <1>2, <1>4, <1>6, <1>7, <1>8, <1>12 DEF ListInv

LEMMA StutterStep ==
    ASSUME ListInv, UNCHANGED listVars
    PROVE  ListInv'
<1>1. Linked' = Linked /\ Sorted' /\ Members' = Members
  BY SameMemory DEF ListInv, listVars
<1>2. \A u \in Threads : Stays(u) /\ Visible(u)' = Visible(u)
  BY <1>1 DEF listVars, Stays, Visible, Removed
<1>3. Walks'
  BY <1>2, WalkQuiet DEF listVars, Walks
<1>4. Types' /\ Labelled' /\ Locked'
  BY DEF ListInv, listVars, Types, ListTypeOK, Labelled, Locked, Reading, Writing, Writes
<1>5. Placed'
  BY <1>1 DEF ListInv, listVars, Placed, Removed
<1> QED
  BY <1>1, <1>3, <1>4, <1>5 DEF ListInv

\* Every step of an operation, and the end of a grace period, keep the invariant.
LEMMA ListNext ==
    ASSUME ListInv, (\E t \in Threads : InCall(t)) \/ Reclaim \/ UNCHANGED listVars
    PROVE  ListInv'
BY ReaderLockStep, WriterLockStep, AdvanceStep, StopStep, LinkStep, UnlinkStep,
   ReaderUnlockStep, WriterUnlockStep, FreeNodeStep, ReclaimStep, StutterStep DEF InCall

\* What the threads have in hand is not free.
LEMMA InUse == ASSUME ListInv PROVE NoUseAfterFree
<1>1. NULL \notin free /\ Linked \cap free = {}
  BY ListAssumption DEF ListInv, Types, ListTypeOK, Placed
<1>2. ASSUME NEW t \in Threads
      PROVE  p_prev[t] \notin free /\ p_next[t] \notin free
  <2>1. CASE Reading(t)
    <3>1. PICK S \in SUBSET Nodes : Trail(t, S) /\ {p_prev[t], p_next[t]} \subseteq S
      BY <2>1 DEF ListInv, Walks, WalkAt, ReaderAt
    <3> QED
      BY <3>1, VisibleKept DEF Trail
  <2>2. CASE Writing(t)
    <3>1. WriterAt(t)
      BY <2>2 DEF ListInv, Walks, WalkAt
    <3>2. p_next[t] \notin free
      BY <1>1, <2>2, <3>1 DEF WriterAt, Writing, Removed, ListInv, Placed, Sorted
    <3> QED
      BY <1>1, <3>1, <3>2 DEF WriterAt
  <2>3. CASE pc[t] = "free"
    BY <1>1, <2>3 DEF ListInv, Labelled, Placed, Removed
  <2>4. CASE pc[t] \in {"idle", "lock"}
    BY <1>1, <2>4 DEF ListInv, Labelled
  <2>5. CASE pc[t] \in {"walk", "update", "unlock"} /\ ~Reading(t)
    <3>1. call[t] \in Calls
      BY <2>5 DEF ListInv, Types, Labelled
    <3>2. Writing(t)
      BY <2>5, <3>1 DEF ListInv, Labelled, Reading, Writing, Writes, Calls
    <3> QED
      BY <2>2, <3>2
  <2> QED
    BY <2>1, <2>3, <2>4, <2>5 DEF ListInv, Types, ListTypeOK
<1> QED
  BY <1>1, <1>2 DEF NoUseAfterFree, Linked

LEMMA ListInitInv == ListInit => ListInv
<1> SUFFICES ASSUME ListInit PROVE ListInv
  OBVIOUS
<1>0. /\ node = [m \in Nodes |-> IF m = p_max_node
                                 THEN [val |-> LIST_VAL_MAX, p_next |-> NULL]
                                 ELSE [val |-> LIST_VAL_MIN, p_next |-> p_max_node]]
      /\ p_min_node \in Nodes /\ p_max_node \in Nodes /\ p_min_node # p_max_node
      /\ \A t \in Threads : pc[t] = "idle" /\ call[t] = NULL
  BY ListAssumption DEF ListInit
<1>1. Linked = {p_min_node, p_max_node}
  <2> DEFINE S == {p_min_node, p_max_node}
  <2>1. \A n \in S : node[n].p_next \in S \cup {NULL}
    BY <1>0
  <2>2. Linked \subseteq S
    <3>1. S \in SUBSET Nodes /\ p_min_node \in S
      BY <1>0
    <3>2. Chain(node) \subseteq S
      BY <2>1, <3>1, ChainLeast
    <3> QED
      BY <3>2 DEF Linked
  <2>3. p_min_node \in Linked
    BY ChainFirst DEF Linked
  <2>4. p_max_node \in Linked
    BY <2>3, <1>0, ChainClosed DEF Linked
  <2> QED
    BY <2>2, <2>3, <2>4
<1>2. Sorted
  BY <1>0, <1>1, ListAssumption DEF Sorted
<1>3. Placed
  BY <1>0, <1>1 DEF ListInit, Placed, Removed
<1>4. Types /\ Labelled /\ Locked
  BY <1>0, ListAssumption
     DEF ListInit, Types, ListTypeOK, Labelled, Locked, Reading, Writing
<1>5. Walks
  BY <1>0 DEF Walks, WalkAt, Reading, Writing
<1> QED
  BY <1>2, <1>3, <1>4, <1>5 DEF ListInv

-----------------------------------------------------------------------------
(* The list is a set: every step is one of ConcurrentSet, or stutters *)

TookEffect(t) ==
    pc[t] \in {"unlock", "free"} /\ result[t] /\ call[t].op \in {"add", "remove"}

Updated ==
    [t \in Threads |-> /\ pc[t] \in {"unlock", "free"}
                       /\ result[t]
                       /\ call[t].op \in {"add", "remove"}]

SetVars == <<Members, call, Updated, seen, ret>>

LEMMA UpdatedSame ==
    ASSUME \A u \in Threads : TookEffect(u)' <=> TookEffect(u)
    PROVE  Updated' = Updated
<1>1. \A u \in Threads : Updated'[u] = Updated[u]
  BY DEF Updated, TookEffect
<1> QED
  BY <1>1 DEF Updated

LEMMA UpdatedTo ==
    ASSUME NEW t \in Threads, NEW b \in BOOLEAN, TookEffect(t)' <=> b,
           \A u \in Threads \ {t} : TookEffect(u)' <=> TookEffect(u)
    PROVE  Updated' = [Updated EXCEPT ![t] = b]
<1>1. \A u \in Threads \ {t} : Updated'[u] = Updated[u]
  BY DEF Updated, TookEffect
<1>2. Updated'[t] = b
  BY DEF Updated, TookEffect
<1>3. Updated = [u \in Threads |-> Updated[u]] /\ Updated' = [u \in Threads |-> Updated'[u]]
  BY DEF Updated
<1> QED
  BY <1>1, <1>2, <1>3

LEMMA UpdatedAt ==
    ASSUME NEW t \in Threads
    PROVE  Updated[t] <=> TookEffect(t)
BY DEF Updated, TookEffect

LEMMA SetVarsKept ==
    ASSUME Members' = Members, UNCHANGED <<call, seen, ret>>,
           \A u \in Threads : TookEffect(u)' <=> TookEffect(u)
    PROVE  UNCHANGED Set!vars
<1>1. UNCHANGED SetVars
  BY UpdatedSame DEF SetVars
<1> QED
  BY <1>1 DEF SetVars, Updated, Set!vars

LEMMA CallSim ==
    ASSUME ListInv, NEW t \in Threads, NEW op \in {"contains", "add", "remove"},
           NEW key \in Keys, Call(t, op, key)
    PROVE  Set!Next
<1>0. /\ call[t] = NULL
      /\ call' = [call EXCEPT ![t] = [op |-> op, key |-> key]]
      /\ seen' = [seen EXCEPT ![t] = {(key \in Members)}]
      /\ pc \in [Threads -> {"idle", "lock", "walk", "update", "unlock", "free"}]
      /\ call \in [Threads -> Calls \cup {NULL}]
      /\ pc' = [pc EXCEPT ![t] = "lock"] /\ pc[t] = "idle"
      /\ UNCHANGED <<node, result, ret>>
  BY DEF ListInv, Types, ListTypeOK, Labelled, Call, Goto
<1>1. Members' = Members
  BY <1>0, SameMemory
<1>2. \A u \in Threads : TookEffect(u)' <=> TookEffect(u)
  BY <1>0 DEF TookEffect
<1>3. Updated' = Updated
  BY <1>2, UpdatedSame
<1>4. Set!Call(t)
  BY <1>0, <1>1, <1>3, Zenon DEF Set!Call, Updated
<1> QED
  BY <1>4 DEF Set!Next

\* Before an operation has taken effect, a step that only moves it.
LEMMA WalkSim ==
    ASSUME ListInv, NEW t \in Threads,
           ReaderLock(t) \/ WriterLock(t) \/ Advance(t) \/ Stop(t)
    PROVE  UNCHANGED Set!vars
<1>0. /\ pc \in [Threads -> {"idle", "lock", "walk", "update", "unlock", "free"}]
      /\ result \in [Threads -> BOOLEAN]
      /\ UNCHANGED <<node, call, seen, ret>>
  BY DEF ListInv, Types, ListTypeOK, ReaderLock, WriterLock, Advance, Stop
<1>1. Members' = Members
  BY <1>0, SameMemory
<1>2. CASE ReaderLock(t) \/ WriterLock(t) \/ Advance(t)
  <2>1. \A u \in Threads : TookEffect(u)' <=> TookEffect(u)
    BY <1>0, <1>2 DEF ReaderLock, WriterLock, Advance, Goto, TookEffect
  <2> QED
    BY <2>1, <1>0, <1>1, SetVarsKept
<1>3. CASE Stop(t)
  <2> DEFINE r == IF call[t].op = "add" THEN ~(Val(t) = call[t].key) ELSE Val(t) = call[t].key
  <2>1. /\ pc[t] = "walk"
        /\ result' = [result EXCEPT ![t] = r]
        /\ pc' = [pc EXCEPT ![t] = IF call[t].op = "contains" \/ ~r THEN "unlock" ELSE "update"]
    BY <1>3 DEF Stop, Goto
  <2>2. r \in BOOLEAN
    OBVIOUS
  <2> HIDE DEF r
  <2>3. \A u \in Threads : TookEffect(u)' <=> TookEffect(u)
    BY <1>0, <2>1, <2>2 DEF TookEffect
  <2> QED
    BY <2>3, <1>0, <1>1, SetVarsKept
<1> QED
  BY <1>2, <1>3

LEMMA LinkSim ==
    ASSUME ListInv, NEW t \in Threads, Link(t)
    PROVE  Set!Next
<1> DEFINE key == call[t].key
<1>0. /\ pc \in [Threads -> {"idle", "lock", "walk", "update", "unlock", "free"}]
      /\ pc[t] = "update" /\ call[t].op = "add" /\ call[t] # NULL /\ result[t]
      /\ seen' = [u \in Threads |-> IF call[u] # NULL /\ call[u].key = key
                                    THEN seen[u] \cup {TRUE} ELSE seen[u]]
      /\ pc' = [pc EXCEPT ![t] = "unlock"]
      /\ \A u \in Threads : call[u] = NULL => seen[u] = {}
      /\ UNCHANGED <<call, result, ret>>
  BY DEF ListInv, Types, ListTypeOK, Labelled, Link, Notice, Goto
<1>1. Members' = Members \cup {key} /\ key \notin Members
  BY LinkStep
<1>2. ~TookEffect(t) /\ TookEffect(t)' /\ \A u \in Threads \ {t} : TookEffect(u)' <=> TookEffect(u)
  BY <1>0 DEF TookEffect
<1>3. Updated' = [Updated EXCEPT ![t] = TRUE] /\ ~Updated[t]
  BY <1>2, UpdatedTo, UpdatedAt
<1>4. Set!Notice(key, TRUE)
  BY <1>0 DEF Set!Notice
<1>5. Set!Add(t)
  BY <1>0, <1>1, <1>3, <1>4 DEF Set!Add, Set!Calls, Updated
<1> QED
  BY <1>5 DEF Set!Next

LEMMA UnlinkSim ==
    ASSUME ListInv, NEW t \in Threads, Unlink(t)
    PROVE  Set!Next
<1> DEFINE key == call[t].key
<1>0. /\ pc \in [Threads -> {"idle", "lock", "walk", "update", "unlock", "free"}]
      /\ pc[t] = "update" /\ call[t].op = "remove" /\ call[t] # NULL /\ result[t]
      /\ seen' = [u \in Threads |-> IF call[u] # NULL /\ call[u].key = key
                                    THEN seen[u] \cup {FALSE} ELSE seen[u]]
      /\ pc' = [pc EXCEPT ![t] = "unlock"]
      /\ \A u \in Threads : call[u] = NULL => seen[u] = {}
      /\ UNCHANGED <<call, result, ret>>
  BY DEF ListInv, Types, ListTypeOK, Labelled, Unlink, Notice, Goto
<1>1. Members' = Members \ {key} /\ key \in Members
  BY UnlinkStep
<1>2. ~TookEffect(t) /\ TookEffect(t)' /\ \A u \in Threads \ {t} : TookEffect(u)' <=> TookEffect(u)
  BY <1>0 DEF TookEffect
<1>3. Updated' = [Updated EXCEPT ![t] = TRUE] /\ ~Updated[t]
  BY <1>2, UpdatedTo, UpdatedAt
<1>4. Set!Notice(key, FALSE)
  BY <1>0 DEF Set!Notice
<1>5. Set!Delete(t)
  BY <1>0, <1>1, <1>3, <1>4 DEF Set!Delete, Set!Calls, Updated
<1> QED
  BY <1>5 DEF Set!Next

\* The end of a call answers what its history allows.
LEMMA ReturnSim ==
    ASSUME ListInv, NEW t \in Threads, Return(t), UNCHANGED node, call[t] # NULL,
           \/ TookEffect(t)
           \/ call[t].op = "contains" /\ result[t] \in seen[t] /\ ~TookEffect(t)
           \/ call[t].op = "add" /\ ~result[t] /\ TRUE \in seen[t]
           \/ call[t].op = "remove" /\ ~result[t] /\ FALSE \in seen[t]
    PROVE  Set!Next
<1>0. /\ pc \in [Threads -> {"idle", "lock", "walk", "update", "unlock", "free"}]
      /\ result \in [Threads -> BOOLEAN] /\ call \in [Threads -> Calls \cup {NULL}]
      /\ pc' = [pc EXCEPT ![t] = "idle"]
      /\ result' = [result EXCEPT ![t] = FALSE]
      /\ call' = [call EXCEPT ![t] = NULL]
      /\ seen' = [seen EXCEPT ![t] = {}]
      /\ ret' = [ret EXCEPT ![t] = result[t]]
  BY DEF ListInv, Types, ListTypeOK, Return, Goto
<1>1. Members' = Members
  BY SameMemory
<1>2. /\ ~TookEffect(t)'
      /\ \A u \in Threads \ {t} : TookEffect(u)' <=> TookEffect(u)
  BY <1>0 DEF TookEffect
<1>3. Updated' = [Updated EXCEPT ![t] = FALSE]
  BY <1>2, UpdatedTo
<1>4. Set!Return(t, result[t])
  BY <1>0, <1>3 DEF Set!Return, Updated
<1>5. \/ Updated[t] /\ result[t] = TRUE
      \/ Set!Calls(t, "remove") /\ ~Updated[t] /\ FALSE \in seen[t] /\ result[t] = FALSE
      \/ Set!Calls(t, "add") /\ ~Updated[t] /\ TRUE \in seen[t] /\ result[t] = FALSE
      \/ Set!Calls(t, "contains") /\ result[t] \in seen[t]
  <2>1. CASE TookEffect(t)
    <3>1. result[t] = TRUE
      BY <1>0, <2>1 DEF TookEffect
    <3> QED
      BY <2>1, <3>1, UpdatedAt
  <2>2. CASE ~TookEffect(t)
    BY <1>0, <2>2, UpdatedAt DEF Set!Calls
  <2> QED
    BY <2>1, <2>2
<1>6. Set!Answer(t)
  <2>1. seen' = [seen EXCEPT ![t] = {}] /\ Members' = Members
    BY <1>0, <1>1
  <2>2. CASE Updated[t] /\ result[t] = TRUE
    <3>0. ret' = [ret EXCEPT ![t] = TRUE]
      BY <1>0, <2>2, Zenon
    <3>1. Set!Return(t, TRUE)
      BY <1>0, <1>3, <3>0 DEF Set!Return, Updated
    <3> QED
      BY <2>1, <2>2, <3>1 DEF Set!Answer, Updated
  <2>3. CASE Set!Calls(t, "remove") /\ ~Updated[t] /\ FALSE \in seen[t] /\ result[t] = FALSE
    <3>0. ret' = [ret EXCEPT ![t] = FALSE]
      BY <1>0, <2>3, Zenon
    <3>1. Set!Return(t, FALSE)
      BY <1>0, <1>3, <3>0 DEF Set!Return, Updated
    <3> QED
      BY <2>1, <2>3, <3>1 DEF Set!Answer, Updated
  <2>4. CASE Set!Calls(t, "add") /\ ~Updated[t] /\ TRUE \in seen[t] /\ result[t] = FALSE
    <3>0. ret' = [ret EXCEPT ![t] = FALSE]
      BY <1>0, <2>4, Zenon
    <3>1. Set!Return(t, FALSE)
      BY <1>0, <1>3, <3>0 DEF Set!Return, Updated
    <3> QED
      BY <2>1, <2>4, <3>1 DEF Set!Answer, Updated
  <2>5. CASE Set!Calls(t, "contains") /\ result[t] \in seen[t]
    <3>1. \E r \in seen[t] : Set!Return(t, r)
      <4>1. PICK r \in seen[t] : r = result[t]
        BY <2>5
      <4>2. ret' = [ret EXCEPT ![t] = r]
        BY <1>0, <4>1, Zenon
      <4>3. Set!Return(t, r)
        BY <1>0, <1>3, <4>2 DEF Set!Return, Updated
      <4> QED
        BY <4>3
    <3> QED
      BY <2>1, <2>5, <3>1 DEF Set!Answer
  <2> QED
    BY <1>5, <2>2, <2>3, <2>4, <2>5
<1> QED
  BY <1>6 DEF Set!Next

LEMMA ReaderUnlockSim ==
    ASSUME ListInv, NEW t \in Threads, ReaderUnlock(t)
    PROVE  Set!Next
<1>1. /\ pc[t] = "unlock" /\ call[t].op = "contains" /\ call[t] # NULL
      /\ Return(t) /\ UNCHANGED node
  BY DEF ReaderUnlock, ListInv, Labelled
<1>2. ReaderAt(t)
  BY <1>1 DEF ListInv, Walks, WalkAt, Reading
<1>3. result[t] \in seen[t] /\ ~TookEffect(t)
  BY <1>1, <1>2 DEF ReaderAt, TookEffect
<1> QED
  BY <1>1, <1>3, ReturnSim

LEMMA WriterUnlockSim ==
    ASSUME ListInv, NEW t \in Threads, WriterUnlock(t)
    PROVE  Set!Next \/ UNCHANGED Set!vars
<1>0. /\ pc[t] = "unlock" /\ Writes(t) /\ call[t] # NULL /\ Writing(t)
      /\ UNCHANGED node
      /\ pc \in [Threads -> {"idle", "lock", "walk", "update", "unlock", "free"}]
  BY DEF ListInv, Types, ListTypeOK, Labelled, WriterUnlock, Writing, Writes
<1>1. CASE Removed(t)
  <2>1. pc' = [pc EXCEPT ![t] = "free"] /\ UNCHANGED <<call, result, ret, seen>>
    BY <1>0, <1>1 DEF WriterUnlock, Goto, Removed
  <2>2. \A u \in Threads : TookEffect(u)' <=> TookEffect(u)
    BY <1>0, <2>1 DEF TookEffect
  <2> QED
    BY <1>0, <2>1, <2>2, SameMemory, SetVarsKept
<1>2. CASE ~Removed(t)
  <2>1. Return(t)
    BY <1>0, <1>2 DEF WriterUnlock, Removed
  <2>2. WriterAt(t)
    BY <1>0 DEF ListInv, Walks, WalkAt
  <2>3. \/ TookEffect(t)
        \/ call[t].op = "add" /\ ~result[t] /\ TRUE \in seen[t]
        \/ call[t].op = "remove" /\ ~result[t] /\ FALSE \in seen[t]
    BY <1>0, <1>2, <2>2 DEF WriterAt, TookEffect, Removed, Writes
  <2> QED
    BY <1>0, <2>1, <2>3, ReturnSim
<1> QED
  BY <1>1, <1>2

LEMMA FreeNodeSim ==
    ASSUME ListInv, NEW t \in Threads, FreeNode(t)
    PROVE  Set!Next
<1>1. /\ pc[t] = "free" /\ call[t].op = "remove" /\ result[t] /\ call[t] # NULL
      /\ Return(t) /\ UNCHANGED node
  BY DEF FreeNode, ListInv, Labelled
<1> QED
  BY <1>1, ReturnSim DEF TookEffect

LEMMA ReclaimSim ==
    ASSUME ListInv, Reclaim
    PROVE  UNCHANGED Set!vars
<1>1. UNCHANGED <<node, call, pc, result, ret, seen>>
  BY DEF Reclaim
<1>2. \A u \in Threads : TookEffect(u)' <=> TookEffect(u)
  BY <1>1 DEF TookEffect
<1> QED
  BY <1>1, <1>2, SameMemory, SetVarsKept

LEMMA ListSim ==
    ASSUME ListInv, (\E t \in Threads : InCall(t)) \/ Reclaim \/ UNCHANGED listVars
    PROVE  [Set!Next]_(Set!vars)
<1>1. ASSUME UNCHANGED listVars PROVE UNCHANGED Set!vars
  BY <1>1, SameMemory, SetVarsKept DEF listVars, TookEffect
<1> QED
  BY <1>1, WalkSim, LinkSim, UnlinkSim, ReaderUnlockSim, WriterUnlockSim, FreeNodeSim,
     ReclaimSim DEF InCall

LEMMA ListInitSim == ListInit => Set!Init
<1> SUFFICES ASSUME ListInit PROVE Set!Init
  OBVIOUS
<1>1. Members \in SUBSET Keys
  BY ListInitInv DEF ListInv, Sorted, Members, Linked
<1>2. \A t \in Threads : ~TookEffect(t)
  BY DEF ListInit, TookEffect
<1>3. Updated = [t \in Threads |-> FALSE]
  <2>1. \A t \in Threads : Updated[t] = FALSE
    BY <1>2 DEF Updated, TookEffect
  <2> QED
    BY <2>1 DEF Updated
<1> QED
  BY <1>1, <1>3 DEF ListInit, Set!Init, Updated
=============================================================================
