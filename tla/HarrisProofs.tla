---------------------------- MODULE HarrisProofs ----------------------------
(***************************************************************************)
(* Theorems of HarrisList, for any threads, keys, initial list and either  *)
(* variant: the list stays sorted, whatever is not marked can be reached,  *)
(* no marked node is left behind, and the operations implement a set.      *)
(***************************************************************************)
EXTENDS HarrisList, FiniteSetTheorems, TLAPS

\* The list is sorted from the head to the tail, without gaps: no node that can
\* be reached has a key between those of a reachable node and its successor.
Shape ==
    /\ val[HeadNode] = LIST_VAL_MIN /\ ~p_next[HeadNode].mark
    /\ val[TailNode] = LIST_VAL_MAX /\ p_next[TailNode] = Link(TailNode, FALSE)
    /\ \A n \in Linked \ {HeadNode, TailNode} : val[n] \in Keys
    /\ \A n \in Linked \ {TailNode} :
          p_next[n].node \in Linked /\ val[n] < val[p_next[n].node]
    /\ \A n \in Linked : ~p_next[n].mark => n \in Reachable
    /\ \A m, n \in Reachable : val[m] = val[n] => m = n
    /\ \A m \in Reachable \ {TailNode}, n \in Reachable :
          ~(val[m] < val[n] /\ val[n] < val[p_next[m].node])

\* Marked nodes S lead from a to b; their links, which no longer change, do not
\* stay among a part of them.
Leads(S, a, b) ==
    /\ a \in S \cup {b}
    /\ \A n \in S : p_next[n].mark /\ p_next[n].node \in S \cup {b} /\ val[n] < val[b]
    /\ \A T \in SUBSET S : a \in T => \E n \in T : p_next[n].node \notin T

MarkedPath(a, b) == \E S \in SUBSET Linked : Leads(S, a, b)

\* What an operation has in hand at each label.
Labelled ==
    \A t \in Threads :
        /\ t_next[t].node \in Linked
        /\ IF pc[t] = "idle" THEN ~cleanup[t] /\ seen[t] = {} ELSE key[t] \in Keys
        /\ cleanup[t] => op[t] = "remove" /\ pc[t] \in {"start", "walk", "unlink", "check"}
        /\ pc[t] = "insert" => op[t] = "add"
        /\ pc[t] \in {"read_next", "mark", "splice"} => op[t] = "remove"

\* In the walk: an unmarked link was read at a node below the key; past a marked
\* one, only marked nodes lie between left_node_next and t_node.
WalkAt(t) ==
    /\ MarkedPath(left_node_next[t], t_node[t])
    /\ IF t_next[t].mark
       THEN p_next[t_node[t]] = t_next[t] /\ val[left_node[t]] < key[t]
       ELSE /\ val[t_node[t]] < key[t]
            /\ val[t_next[t].node] > key[t] => FALSE \in seen[t]

\* After the walk: left_node is below the key and right_node is not.
FoundAt(t) ==
    /\ val[left_node[t]] < key[t] /\ key[t] <= val[t_node[t]]
    /\ pc[t] = "unlink" => MarkedPath(left_node_next[t], t_node[t])
    /\ pc[t] = "check" /\ val[t_node[t]] > key[t] => FALSE \in seen[t]
    /\ pc[t] = "insert" => key[t] < val[t_node[t]]
    /\ pc[t] \in {"read_next", "mark", "splice"} => val[t_node[t]] = key[t]
    /\ pc[t] = "splice" => p_next[t_node[t]] = Link(right_node_next[t], TRUE)

\* The history tells at least what is true now.
SeenAt(t) ==
    /\ key[t] \in Members => TRUE \in seen[t]
    /\ key[t] \notin Members => FALSE \in seen[t]

SearchOver == {"unlink", "check", "insert", "read_next", "mark", "splice"}

At(t) ==
    /\ pc[t] = "walk" => WalkAt(t)
    /\ pc[t] \in SearchOver => FoundAt(t)
    /\ pc[t] # "idle" => SeenAt(t)

\* t is to take the marked node n out: it marked it, or it looks for the key of n
\* once more and has not yet passed the place where n would be.
Attends(t, n) ==
    \/ pc[t] = "splice" /\ t_node[t] = n
    \/ /\ cleanup[t] /\ key[t] = val[n]
       /\ \/ pc[t] \in {"start", "unlink"}
          \/ pc[t] = "walk" /\ (t_next[t].mark \/ val[t_next[t].node] <= key[t])
          \/ pc[t] = "check" /\ t_node[t] = n

Attended == \A n \in Reachable : p_next[n].mark => \E t \in Threads : Attends(t, n)

ListInv ==
    TypeOK /\ Labelled /\ Shape /\ (\A t \in Threads : At(t)) /\ Attended

-----------------------------------------------------------------------------
(* What can be reached *)

Reach(next, linked) ==
    {m \in linked : \A S \in SUBSET (linked \ {m}) :
        HeadNode \in S => \E n \in S : next[n].node \notin S}

LEMMA ReachClosed ==
    ASSUME NEW next, NEW linked, NEW n \in Reach(next, linked), next[n].node \in linked
    PROVE  next[n].node \in Reach(next, linked)
<1>1. SUFFICES ASSUME NEW S \in SUBSET (linked \ {next[n].node}), HeadNode \in S,
                      \A k \in S : next[k].node \in S
               PROVE  FALSE
  BY DEF Reach
<1>2. n \in S
  BY <1>1 DEF Reach
<1> QED
  BY <1>1, <1>2

LEMMA ReachLeast ==
    ASSUME NEW next, NEW linked, NEW S \in SUBSET linked, HeadNode \in S,
           \A k \in S : next[k].node \in S
    PROVE  Reach(next, linked) \subseteq S
BY DEF Reach

LEMMA ReachFirst ==
    ASSUME NEW next, NEW linked, HeadNode \in linked
    PROVE  HeadNode \in Reach(next, linked) /\ Reach(next, linked) \subseteq linked
BY DEF Reach

LEMMA Ends ==
    ASSUME TypeOK
    PROVE  /\ HeadNode \in Linked /\ TailNode \in Linked /\ HeadNode # TailNode
           /\ Linked \subseteq Nodes
           /\ Reachable \subseteq Linked /\ HeadNode \in Reachable
<1>1. HeadNode \in Linked /\ TailNode \in Linked /\ HeadNode # TailNode /\ Linked \subseteq Nodes
  BY InitialAssumption DEF TypeOK, Linked, Nodes, HeadNode, TailNode
<1> QED
  BY <1>1 DEF Reachable

LEMMA Numbers ==
    ASSUME TypeOK
    PROVE  /\ LIST_VAL_MIN \in Int /\ LIST_VAL_MAX \in Int /\ Keys \subseteq Int
           /\ \A k \in Keys : LIST_VAL_MIN < k /\ k < LIST_VAL_MAX
           /\ \A n \in Linked : val[n] \in Int
<1>1. LIST_VAL_MIN \in Int /\ LIST_VAL_MAX \in Int /\ Keys \subseteq Int
  BY KeysAssumption
<1>2. Vals \subseteq Int
  BY <1>1 DEF Vals
<1>3. \A n \in Linked : val[n] \in Int
  BY <1>2, Ends DEF TypeOK
<1> QED
  BY <1>1, <1>3, KeysAssumption

\* What the place of a key in the list tells about the set.
LEMMA Member ==
    ASSUME TypeOK, Shape, NEW k \in Keys
    PROVE  k \in Members <=> \E n \in Reachable : ~p_next[n].mark /\ val[n] = k
<1>1. val[HeadNode] # k /\ val[TailNode] # k
  BY Numbers DEF Shape
<1>2. Reachable \subseteq Linked
  BY Ends
<1> QED
  BY <1>1, <1>2 DEF Members, Shape

LEMMA MembersAreKeys ==
    ASSUME TypeOK, Shape
    PROVE  Members \subseteq Keys
BY DEF Members, Shape

\* A node that can be reached and is below the key tells who may have it.
LEMMA Neighbours ==
    ASSUME TypeOK, Shape, NEW l \in Reachable, NEW k \in Keys, val[l] < k
    PROVE  /\ l # TailNode /\ p_next[l].node \in Reachable
           /\ \A n \in Reachable : val[n] = k => val[p_next[l].node] <= k
           /\ val[p_next[l].node] = k =>
                 \A n \in Reachable : val[n] = k => n = p_next[l].node
           /\ val[p_next[l].node] > k => k \notin Members
<1>1. l \in Linked /\ k \in Int /\ val[l] \in Int /\ Reachable \subseteq Linked
  BY Ends, Numbers
<1>2. l # TailNode
  BY <1>1, Numbers DEF Shape
<1>3. p_next[l].node \in Linked
  BY <1>1, <1>2 DEF Shape
<1>4. p_next[l].node \in Reachable
  BY <1>3, ReachClosed DEF Reachable, Reach
<1>5. \A n \in Reachable : val[n] = k => val[p_next[l].node] <= k
  <2> SUFFICES ASSUME NEW n \in Reachable, val[n] = k PROVE val[p_next[l].node] <= k
    OBVIOUS
  <2>1. ~(val[l] < val[n] /\ val[n] < val[p_next[l].node])
    BY <1>2 DEF Shape
  <2>2. val[p_next[l].node] \in Int
    BY <1>3, Numbers
  <2> QED
    BY <2>1, <2>2, <1>1
<1>6. val[p_next[l].node] = k => \A n \in Reachable : val[n] = k => n = p_next[l].node
  BY <1>4 DEF Shape
<1>7. val[p_next[l].node] > k => k \notin Members
  <2>1. val[p_next[l].node] \in Int
    BY <1>3, Numbers
  <2> QED
    BY <2>1, <1>1, <1>5, Member
<1> QED
  BY <1>2, <1>4, <1>5, <1>6, <1>7

-----------------------------------------------------------------------------
(* What the CASes do to the list *)

\* The CAS of a remove marks a node.
LEMMA MarkList ==
    ASSUME TypeOK, Shape, NEW r \in Linked \ {HeadNode, TailNode}, ~p_next[r].mark,
           p_next' = [p_next EXCEPT ![r] = Link(p_next[r].node, TRUE)],
           UNCHANGED <<val, n_nodes>>
    PROVE  /\ Shape' /\ Reachable' = Reachable
           /\ val[r] \in Members /\ Members' = Members \ {val[r]}
<1>1. /\ Linked' = Linked /\ Linked \subseteq Nodes /\ Reachable \subseteq Linked
      /\ TailNode \in Linked /\ HeadNode \in Linked
  BY Ends DEF Linked
<1>2. /\ p_next \in [Nodes -> Links]
      /\ \A n \in Nodes : p_next'[n] = IF n = r THEN Link(p_next[r].node, TRUE) ELSE p_next[n]
  BY <1>1 DEF TypeOK
<1>3. \A n \in Nodes : p_next'[n].node = p_next[n].node
  BY <1>2 DEF Link
<1>3a. p_next'[r].mark /\ \A n \in Linked \ {r} : p_next'[n].mark = p_next[n].mark
  BY <1>2, <1>1 DEF Link
<1>4. Reachable' = Reachable
  <2>1. \A S \in SUBSET Linked : \A n \in S : p_next'[n].node = p_next[n].node
    BY <1>1, <1>3
  <2>2. ASSUME NEW k \in Linked
        PROVE  (\A S \in SUBSET (Linked \ {k}) :
                   HeadNode \in S => \E n \in S : p_next'[n].node \notin S)
               <=> (\A S \in SUBSET (Linked \ {k}) :
                   HeadNode \in S => \E n \in S : p_next[n].node \notin S)
    BY <2>1
  <2> QED
    BY <2>2, <1>1 DEF Reachable
<1>5. Shape'
  <2>1. /\ val'[HeadNode] = LIST_VAL_MIN /\ ~p_next'[HeadNode].mark
        /\ val'[TailNode] = LIST_VAL_MAX /\ p_next'[TailNode] = Link(TailNode, FALSE)
        /\ \A n \in Linked' \ {HeadNode, TailNode} : val'[n] \in Keys
    BY <1>1, <1>2 DEF Shape
  <2>2. \A n \in Linked' \ {TailNode} :
          p_next'[n].node \in Linked' /\ val'[n] < val'[p_next'[n].node]
    <3> SUFFICES ASSUME NEW n \in Linked \ {TailNode}
                 PROVE  p_next'[n].node \in Linked /\ val'[n] < val'[p_next'[n].node]
      BY <1>1
    <3>1. p_next[n].node \in Linked /\ val[n] < val[p_next[n].node]
      BY DEF Shape
    <3>2. p_next'[n].node = p_next[n].node
      BY <1>1, <1>3
    <3>3. val'[n] = val[n] /\ val'[p_next'[n].node] = val[p_next[n].node]
      BY <3>2
    <3> QED
      BY <3>1, <3>2, <3>3
  <2>3. \A n \in Linked' : ~p_next'[n].mark => n \in Reachable'
    BY <1>1, <1>3a, <1>4 DEF Shape
  <2>4. \A m, n \in Reachable' : val'[m] = val'[n] => m = n
    BY <1>4 DEF Shape
  <2>5. \A m \in Reachable' \ {TailNode}, n \in Reachable' :
          ~(val'[m] < val'[n] /\ val'[n] < val'[p_next'[m].node])
    BY <1>1, <1>3, <1>4 DEF Shape
  <2> QED
    BY <2>1, <2>2, <2>3, <2>4, <2>5 DEF Shape
<1>6. val[r] \in Members
  BY DEF Members
<1>7. Members' = Members \ {val[r]}
  <2>1. \A n \in Linked : ~p_next[n].mark /\ n # r => val[n] # val[r]
    <3>1. r \in Reachable
      BY DEF Shape
    <3> QED
      BY <3>1 DEF Shape
  <2> DEFINE L == {m \in Linked \ {HeadNode, TailNode} : ~p_next[m].mark}
  <2>2. {m \in Linked' \ {HeadNode, TailNode} : ~p_next'[m].mark} = L \ {r}
    BY <1>1, <1>3a
  <2>3. Members = {val[n] : n \in L} /\ Members' = {val[n] : n \in L \ {r}}
    BY <2>2 DEF Members
  <2>4. r \in L /\ \A n \in L \ {r} : val[n] # val[r]
    BY <2>1
  <2> HIDE DEF L
  <2> QED
    BY <2>3, <2>4
<1> QED
  BY <1>4, <1>5, <1>6, <1>7

\* The CAS of a search, or of a remove, takes the marked nodes between l and b out.
LEMMA SwingList ==
    ASSUME TypeOK, Shape, NEW l \in Linked, NEW a \in Linked, NEW b \in Linked,
           p_next[l] = Link(a, FALSE), val[l] < val[b], MarkedPath(a, b),
           p_next' = [p_next EXCEPT ![l] = Link(b, FALSE)],
           UNCHANGED <<val, n_nodes>>
    PROVE  /\ Shape' /\ Members' = Members
           /\ l \in Reachable' /\ b \in Reachable' /\ Reachable' \subseteq Reachable
           /\ \A n \in Reachable' : val[n] <= val[l] \/ val[b] <= val[n]
<1>1. /\ Linked' = Linked /\ Linked \subseteq Nodes /\ Reachable \subseteq Linked
      /\ TailNode \in Linked /\ HeadNode \in Linked /\ HeadNode \in Reachable
      /\ \A n \in Linked : val[n] \in Int
  BY Ends, Numbers DEF Linked
<1>2. \A n \in Linked : p_next'[n] = IF n = l THEN Link(b, FALSE) ELSE p_next[n]
  BY <1>1 DEF TypeOK
<1>3. /\ p_next'[l].node = b /\ ~p_next'[l].mark /\ p_next[l].node = a /\ ~p_next[l].mark
      /\ \A n \in Linked \ {l} : p_next'[n] = p_next[n]
      /\ \A n \in Linked : p_next'[n].mark = p_next[n].mark
  <2>1. p_next'[l] = Link(b, FALSE) /\ \A n \in Linked \ {l} : p_next'[n] = p_next[n]
    BY <1>2
  <2>2. /\ Link(b, FALSE).node = b /\ Link(b, FALSE).mark = FALSE
        /\ Link(a, FALSE).node = a /\ Link(a, FALSE).mark = FALSE
    BY DEF Link
  <2>3. p_next'[l].mark = FALSE /\ p_next[l].mark = FALSE
    BY <2>1, <2>2
  <2> QED
    BY <2>1, <2>2, <2>3
<1>4. l \in Reachable /\ l # TailNode
  <2>1. l \in Reachable
    BY <1>3 DEF Shape
  <2>2. val[b] <= LIST_VAL_MAX
    BY <1>1, Numbers DEF Shape
  <2> QED
    BY <2>1, <2>2, <1>1, Numbers DEF Shape
<1>5. \A n \in Linked : p_next[n].node \in Linked /\ p_next'[n].node \in Linked
  BY <1>1, <1>3 DEF Shape, Link
<1>6. /\ HeadNode \in Reachable' /\ Reachable' \subseteq Linked
      /\ \A n \in Reachable' : p_next'[n].node \in Reachable'
  <2>1. Reachable' = Reach(p_next', Linked)
    BY <1>1 DEF Reachable, Reach
  <2>2. HeadNode \in Reachable' /\ Reachable' \subseteq Linked
    BY <2>1, <1>1, ReachFirst
  <2>3. \A n \in Reachable' : p_next'[n].node \in Reachable'
    BY <2>1, <2>2, <1>5, ReachClosed
  <2> QED
    BY <2>2, <2>3
<1>7. PICK S \in SUBSET Linked : Leads(S, a, b)
  BY DEF MarkedPath
<1>7a. /\ a \in S \cup {b}
       /\ \A n \in S : p_next[n].mark /\ p_next[n].node \in S \cup {b}
  BY <1>7 DEF Leads
\* What was reached still is, but for nodes of the path.
<1>8. l \in Reachable'
  <2>1. SUFFICES ASSUME l \notin Reachable' PROVE FALSE
    OBVIOUS
  <2> DEFINE X == Reachable'
  <2>2. \A n \in X : p_next[n].node \in X
    BY <2>1, <1>3, <1>6
  <2>3. X \in SUBSET Linked /\ HeadNode \in X
    BY <1>6
  <2> HIDE DEF X
  <2>4. Reachable \subseteq X
    BY <2>2, <2>3, ReachLeast DEF Reachable, Reach
  <2> QED
    BY <2>4, <2>1, <1>4 DEF X
<1>9. b \in Reachable'
  BY <1>3, <1>6, <1>8
<1>10. Reachable \subseteq Reachable' \cup S
  <2> DEFINE X == Reachable' \cup S
  <2>1. \A n \in X : p_next[n].node \in X
    <3> SUFFICES ASSUME NEW n \in X PROVE p_next[n].node \in X
      OBVIOUS
    <3>1. CASE n \in S
      BY <3>1, <1>7a, <1>9
    <3>2. CASE n = l
      BY <3>2, <1>3, <1>7a, <1>9
    <3>3. CASE n \in Reachable' /\ n # l
      BY <3>3, <1>3, <1>6
    <3> QED
      BY <3>1, <3>2, <3>3
  <2>2. X \in SUBSET Linked /\ HeadNode \in X
    BY <1>6
  <2> HIDE DEF X
  <2>3. Reachable \subseteq X
    BY <2>1, <2>2, ReachLeast DEF Reachable, Reach
  <2> QED
    BY <2>3 DEF X
\* Nothing between l and b is reached any more.
<1>11. b \in Reachable
  <2>1. a \in Reachable /\ \A n \in Reachable : p_next[n].node \in Reachable
    <3>1. \A n \in Reachable : p_next[n].node \in Reachable
      BY <1>1, <1>5, ReachClosed DEF Reachable, Reach
    <3> QED
      BY <3>1, <1>3, <1>4
  <2>2. CASE a \in S
    <3> DEFINE T == S \cap Reachable
    <3>1. a \in T /\ T \in SUBSET S
      BY <2>1, <2>2
    <3>2. PICK n \in T : p_next[n].node \notin T
      BY <3>1, <1>7 DEF Leads
    <3> QED
      BY <3>2, <2>1, <1>7a
  <2> QED
    BY <2>1, <2>2, <1>7a
<1>12. \A n \in Reachable' : n \in Reachable /\ (val[n] <= val[l] \/ val[b] <= val[n])
  <2> DEFINE X == {n \in Reachable : val[n] <= val[l] \/ val[b] <= val[n]}
  <2>1. \A n \in X : p_next'[n].node \in X
    <3> SUFFICES ASSUME NEW n \in X PROVE p_next'[n].node \in X
      OBVIOUS
    <3>0. n \in Reachable /\ n \in Linked /\ val[n] \in Int /\ val[l] \in Int /\ val[b] \in Int
      BY <1>1
    <3>1. CASE n = l
      <4>1. p_next'[n].node = b
        BY <3>1, <1>3
      <4>2. val[b] <= val[b]
        BY <3>0
      <4> QED
        BY <4>1, <4>2, <1>11
    <3>2. CASE n # l
      <4>1. p_next'[n] = p_next[n] /\ p_next[n].node \in Reachable
        BY <3>0, <3>2, <1>1, <1>3, <1>5, ReachClosed DEF Reachable, Reach
      <4>2. val[p_next[n].node] \in Int
        BY <1>1, <4>1
      <4>3. n = TailNode => p_next[n].node = n
        BY DEF Shape, Link
      <4>4. n # TailNode => val[n] < val[p_next[n].node] /\ ~(val[n] < val[l] /\ val[l] < val[p_next[n].node])
        BY <3>0, <1>4 DEF Shape
      <4>5. val[n] # val[l]
        BY <3>0, <3>2, <1>4 DEF Shape
      <4>6. val[p_next[n].node] <= val[l] \/ val[b] <= val[p_next[n].node]
        BY <3>0, <4>2, <4>3, <4>4, <4>5
      <4> QED
        BY <4>1, <4>6
    <3> QED
      BY <3>1, <3>2
  <2>2. X \in SUBSET Linked /\ HeadNode \in X
    <3>1. val[HeadNode] <= val[l]
      BY <1>1, <1>4, Numbers DEF Shape
    <3> QED
      BY <1>1, <3>1
  <2>3. Reachable' = Reach(p_next', Linked)
    BY <1>1 DEF Reachable, Reach
  <2> HIDE DEF X
  <2>4. Reachable' \subseteq X
    BY <2>1, <2>2, <2>3, ReachLeast
  <2> QED
    BY <2>4 DEF X
<1>13. Shape'
  <2>1. /\ val'[HeadNode] = LIST_VAL_MIN /\ ~p_next'[HeadNode].mark
        /\ val'[TailNode] = LIST_VAL_MAX /\ p_next'[TailNode] = Link(TailNode, FALSE)
        /\ \A n \in Linked' \ {HeadNode, TailNode} : val'[n] \in Keys
    BY <1>1, <1>3, <1>4 DEF Shape
  <2>2. \A n \in Linked' \ {TailNode} :
          p_next'[n].node \in Linked' /\ val'[n] < val'[p_next'[n].node]
    <3> SUFFICES ASSUME NEW n \in Linked \ {TailNode}
                 PROVE  p_next'[n].node \in Linked /\ val[n] < val[p_next'[n].node]
      BY <1>1
    <3>1. CASE n = l
      BY <3>1, <1>3
    <3>2. CASE n # l
      BY <3>2, <1>3 DEF Shape
    <3> QED
      BY <3>1, <3>2
  <2>3. \A n \in Linked' : ~p_next'[n].mark => n \in Reachable'
    BY <1>1, <1>3, <1>7a, <1>10 DEF Shape
  <2>4. \A m, n \in Reachable' : val'[m] = val'[n] => m = n
    BY <1>12 DEF Shape
  <2>5. \A m \in Reachable' \ {TailNode}, n \in Reachable' :
          ~(val'[m] < val'[n] /\ val'[n] < val'[p_next'[m].node])
    <3> SUFFICES ASSUME NEW m \in Reachable' \ {TailNode}, NEW n \in Reachable',
                        val[m] < val[n], val[n] < val[p_next'[m].node]
                 PROVE  FALSE
      OBVIOUS
    <3>0. m \in Reachable /\ n \in Reachable /\ m \in Linked /\ n \in Linked
      BY <1>12, <1>1
    <3>1. CASE m = l
      <4>1. val[n] < val[b] /\ val[n] \in Int /\ val[l] \in Int /\ val[b] \in Int
        BY <3>0, <3>1, <1>1, <1>3
      <4> QED
        BY <3>1, <4>1, <1>12
    <3>2. CASE m # l
      <4>1. p_next'[m].node = p_next[m].node
        BY <3>0, <3>2, <1>3
      <4> QED
        BY <4>1, <3>0 DEF Shape
    <3> QED
      BY <3>1, <3>2
  <2> QED
    BY <2>1, <2>2, <2>3, <2>4, <2>5 DEF Shape
<1>14. Members' = Members
  <2>1. {m \in Linked' \ {HeadNode, TailNode} : ~p_next'[m].mark}
          = {m \in Linked \ {HeadNode, TailNode} : ~p_next[m].mark}
    BY <1>1, <1>3
  <2> QED
    BY <2>1 DEF Members
<1> QED
  BY <1>8, <1>9, <1>12, <1>13, <1>14

\* The CAS of an add links a new node between l and b.
LEMMA InsertList ==
    ASSUME TypeOK, Shape, NEW l \in Linked, NEW b \in Linked, NEW k \in Keys,
           p_next[l] = Link(b, FALSE), val[l] < k, k < val[b], n_nodes < MaxNodes,
           val' = [val EXCEPT ![n_nodes] = k],
           p_next' = [p_next EXCEPT ![n_nodes] = Link(b, FALSE), ![l] = Link(n_nodes, FALSE)],
           n_nodes' = n_nodes + 1
    PROVE  /\ Shape' /\ k \notin Members /\ Members' = Members \cup {k}
           /\ Linked' = Linked \cup {n_nodes} /\ n_nodes \in Nodes \ Linked
           /\ Reachable' = Reachable \cup {n_nodes}
<1> DEFINE m == n_nodes
<1>1. /\ Linked' = Linked \cup {m} /\ m \in Nodes \ Linked /\ m # HeadNode /\ m # TailNode
      /\ m # l /\ m # b
  BY InitialAssumption DEF TypeOK, Linked, Nodes, HeadNode, TailNode
<1>2. /\ Linked \subseteq Nodes /\ Reachable \subseteq Linked
      /\ TailNode \in Linked /\ HeadNode \in Linked /\ HeadNode \in Reachable
      /\ \A n \in Linked : val[n] \in Int
      /\ k \in Int
  BY Ends, Numbers
<1>3. /\ val'[m] = k /\ \A n \in Linked : val'[n] = val[n]
      /\ p_next'[m] = Link(b, FALSE) /\ p_next'[l] = Link(m, FALSE)
      /\ \A n \in Linked \ {l} : p_next'[n] = p_next[n]
  BY <1>1, <1>2 DEF TypeOK
<1>4. /\ p_next'[m].node = b /\ p_next'[l].node = m /\ p_next[l].node = b
      /\ ~p_next'[m].mark /\ ~p_next'[l].mark /\ ~p_next[l].mark
      /\ \A n \in Linked : p_next'[n].mark <=> p_next[n].mark
  <2>1. /\ Link(b, FALSE).node = b /\ Link(b, FALSE).mark = FALSE
        /\ Link(m, FALSE).node = m /\ Link(m, FALSE).mark = FALSE
    BY DEF Link
  <2>2. /\ p_next'[m].node = b /\ p_next'[l].node = m /\ p_next[l].node = b
        /\ p_next'[m].mark = FALSE /\ p_next'[l].mark = FALSE /\ p_next[l].mark = FALSE
    BY <2>1, <1>3
  <2> QED
    BY <2>2, <1>3
<1> HIDE DEF m
<1>4a. val[l] < val[b] /\ val'[b] = val[b] /\ val'[l] = val[l] /\ val'[m] = k
  BY <1>2, <1>3
<1>5. l \in Reachable /\ l # TailNode
  <2>1. val[b] <= LIST_VAL_MAX /\ val[TailNode] = LIST_VAL_MAX
    BY <1>2, Numbers DEF Shape
  <2>2. l # TailNode
    BY <2>1, <1>2, <1>4a
  <2> QED
    BY <2>2, <1>4 DEF Shape
<1>6. \A n \in Linked : p_next[n].node \in Linked
  BY <1>2 DEF Shape, Link
<1>7. \A n \in Reachable : p_next[n].node \in Reachable
  BY <1>2, <1>6, ReachClosed DEF Reachable, Reach
<1>8. Reachable' = Reach(p_next', Linked \cup {m})
  BY <1>1 DEF Reachable, Reach
<1>9. \A n \in Linked \cup {m} : p_next'[n].node \in Linked \cup {m}
  <2>1. \A n \in Linked \ {l} : p_next'[n].node \in Linked
    BY <1>3, <1>6
  <2> QED
    BY <2>1, <1>4
<1>10. HeadNode \in Reachable' /\ \A n \in Reachable' : p_next'[n].node \in Reachable'
  <2>1. HeadNode \in Reachable' /\ Reachable' \subseteq Linked \cup {m}
    BY <1>2, <1>8, ReachFirst
  <2>2. \A n \in Reachable' : p_next'[n].node \in Reachable'
    <3> SUFFICES ASSUME NEW n \in Reach(p_next', Linked \cup {m})
                 PROVE  p_next'[n].node \in Reach(p_next', Linked \cup {m})
      BY <1>8
    <3>1. p_next'[n].node \in Linked \cup {m}
      BY <2>1, <1>8, <1>9
    <3> QED
      BY <3>1, ReachClosed
  <2> QED
    BY <2>1, <2>2
<1>11. Reachable' \subseteq Reachable \cup {m}
  <2> DEFINE X == Reachable \cup {m}
  <2>1. \A n \in X : p_next'[n].node \in X
    <3>1. b \in Reachable
      BY <1>4, <1>5, <1>7
    <3>2. ASSUME NEW n \in Reachable, n # l PROVE p_next'[n].node \in Reachable
      BY <3>2, <1>2, <1>3, <1>7
    <3> QED
      BY <3>1, <3>2, <1>4
  <2>2. X \in SUBSET (Linked \cup {m}) /\ HeadNode \in X
    BY <1>2
  <2> HIDE DEF X
  <2>3. Reachable' \subseteq X
    BY <2>1, <2>2, <1>8, ReachLeast
  <2> QED
    BY <2>3 DEF X
<1>12. Reachable \cup {m} \subseteq Reachable'
  <2> DEFINE X == Reachable' \cap Linked
  <2>1. \A n \in X : p_next[n].node \in X
    <3> SUFFICES ASSUME NEW n \in X PROVE p_next[n].node \in X
      OBVIOUS
    <3>1. CASE n = l
      <4>1. m \in Reachable'
        BY <3>1, <1>4, <1>10
      <4>2. b \in Reachable'
        BY <4>1, <1>4, <1>10
      <4> QED
        BY <3>1, <4>2, <1>4
    <3>2. CASE n # l
      BY <3>2, <1>3, <1>6, <1>10
    <3> QED
      BY <3>1, <3>2
  <2>2. X \in SUBSET Linked /\ HeadNode \in X
    BY <1>2, <1>10
  <2> HIDE DEF X
  <2>3. Reachable \subseteq X
    BY <2>1, <2>2, ReachLeast DEF Reachable, Reach
  <2>4. Reachable \subseteq Reachable'
    BY <2>3 DEF X
  <2> QED
    BY <2>4, <1>4, <1>5, <1>10
<1>13. Reachable' = Reachable \cup {m}
  BY <1>11, <1>12
<1>14. \A n \in Reachable : val[n] <= val[l] \/ val[b] <= val[n]
  <2> SUFFICES ASSUME NEW n \in Reachable PROVE val[n] <= val[l] \/ val[b] <= val[n]
    OBVIOUS
  <2>1. ~(val[l] < val[n] /\ val[n] < val[b])
    BY <1>4, <1>5 DEF Shape
  <2> QED
    BY <2>1, <1>2
<1>15. Shape'
  <2>1. /\ val'[HeadNode] = LIST_VAL_MIN /\ ~p_next'[HeadNode].mark
        /\ val'[TailNode] = LIST_VAL_MAX /\ p_next'[TailNode] = Link(TailNode, FALSE)
    <3>1. /\ val'[HeadNode] = val[HeadNode] /\ val'[TailNode] = val[TailNode]
          /\ p_next'[TailNode] = p_next[TailNode]
          /\ p_next'[HeadNode].mark <=> p_next[HeadNode].mark
      BY <1>2, <1>3, <1>4, <1>5
    <3> QED
      BY <3>1 DEF Shape
  <2>2. \A n \in Linked' \ {HeadNode, TailNode} : val'[n] \in Keys
    <3>1. \A n \in Linked \ {HeadNode, TailNode} : val'[n] \in Keys
      BY <1>3 DEF Shape
    <3> QED
      BY <3>1, <1>1, <1>3
  <2>3. \A n \in Linked' \ {TailNode} :
          p_next'[n].node \in Linked' /\ val'[n] < val'[p_next'[n].node]
    <3> SUFFICES ASSUME NEW n \in (Linked \cup {m}) \ {TailNode}
                 PROVE  val'[n] < val'[p_next'[n].node]
      BY <1>1, <1>9
    <3>1. CASE n = m
      <4>1. p_next'[n].node = b /\ val'[n] = k
        BY <3>1, <1>4, <1>4a
      <4> QED
        BY <4>1, <1>4a
    <3>2. CASE n = l
      <4>1. p_next'[n].node = m /\ val'[n] = val[l]
        BY <3>2, <1>4, <1>4a
      <4> QED
        BY <4>1, <1>4a
    <3>3. CASE n \in Linked /\ n # l
      <4>1. p_next'[n] = p_next[n] /\ val'[n] = val[n]
        BY <3>3, <1>3
      <4>2. p_next[n].node \in Linked /\ val[n] < val[p_next[n].node]
        BY <3>3 DEF Shape
      <4>3. val'[p_next[n].node] = val[p_next[n].node]
        BY <4>2, <1>3
      <4> QED
        BY <4>1, <4>2, <4>3
    <3> QED
      BY <3>1, <3>2, <3>3
  <2>4. \A n \in Linked' : ~p_next'[n].mark => n \in Reachable'
    BY <1>1, <1>4, <1>13 DEF Shape
  <2>5. \A n, j \in Reachable' : val'[n] = val'[j] => n = j
    <3>1. \A n \in Reachable : val'[n] = val[n] /\ val[n] # k
      BY <1>2, <1>3, <1>14
    <3> QED
      BY <3>1, <1>3, <1>13 DEF Shape
  <2>6. \A n \in Reachable' \ {TailNode}, j \in Reachable' :
          ~(val'[n] < val'[j] /\ val'[j] < val'[p_next'[n].node])
    <3> SUFFICES ASSUME NEW n \in Reachable' \ {TailNode}, NEW j \in Reachable',
                        val'[n] < val'[j], val'[j] < val'[p_next'[n].node]
                 PROVE  FALSE
      OBVIOUS
    <3>1. CASE n = m
      <4>1. k < val'[j] /\ val'[j] < val[b]
        BY <3>1, <1>4, <1>4a
      <4>2. j # m
        BY <4>1, <1>2, <1>3
      <4>3. j \in Reachable /\ val'[j] = val[j] /\ val[j] \in Int
        BY <4>2, <1>2, <1>3, <1>13
      <4> QED
        BY <4>1, <4>3, <1>2, <1>14
    <3>2. CASE n = l
      <4>1. val[l] < val'[j] /\ val'[j] < k
        BY <3>2, <1>4, <1>4a
      <4>2. j # m
        BY <4>1, <1>2, <1>3
      <4>3. j \in Reachable /\ val'[j] = val[j] /\ val[j] \in Int
        BY <4>2, <1>2, <1>3, <1>13
      <4> QED
        BY <4>1, <4>3, <1>2, <1>14
    <3>3. CASE n # m /\ n # l
      <4>1. /\ n \in Reachable /\ n \in Linked /\ p_next'[n] = p_next[n]
            /\ p_next[n].node \in Reachable
        BY <3>3, <1>2, <1>3, <1>7, <1>13
      <4>2. val[n] < val'[j] /\ val'[j] < val[p_next[n].node]
        BY <4>1, <1>2, <1>3
      <4>3. CASE j # m
        BY <4>1, <4>2, <4>3, <1>2, <1>3, <1>13 DEF Shape
      <4>4. CASE j = m
        <5>1. val[n] < k /\ k < val[p_next[n].node]
          BY <4>2, <4>4, <1>3
        <5>2. val[n] # val[l]
          BY <3>3, <4>1, <1>5 DEF Shape
        <5>3. ~(val[n] < val[l] /\ val[l] < val[p_next[n].node])
          BY <4>1, <1>5 DEF Shape
        <5>4. val[n] \in Int /\ val[l] \in Int /\ val[b] \in Int /\ val[p_next[n].node] \in Int
          BY <4>1, <1>2
        <5> QED
          BY <5>1, <5>2, <5>3, <5>4, <4>1, <1>2, <1>14
      <4> QED
        BY <4>3, <4>4
    <3> QED
      BY <3>1, <3>2, <3>3
  <2> QED
    BY <2>1, <2>2, <2>3, <2>4, <2>5, <2>6 DEF Shape
<1>16. k \notin Members
  BY <1>4, <1>5, Neighbours
<1>17. Members' = Members \cup {k}
  <2> DEFINE L == {n \in Linked \ {HeadNode, TailNode} : ~p_next[n].mark}
  <2>1. {n \in Linked' \ {HeadNode, TailNode} : ~p_next'[n].mark} = L \cup {m}
    BY <1>1, <1>4
  <2>2. Members = {val[n] : n \in L} /\ Members' = {val'[n] : n \in L \cup {m}}
    BY <2>1 DEF Members
  <2>3. val'[m] = k /\ \A n \in L : val'[n] = val[n]
    BY <1>3
  <2> HIDE DEF L
  <2> QED
    BY <2>2, <2>3
<1> QED
  BY <1>1, <1>13, <1>15, <1>16, <1>17 DEF m

-----------------------------------------------------------------------------
(* What a step leaves as it was *)

\* Nodes stay linked, keep their keys and, once marked, their links.
Frozen ==
    /\ Linked \subseteq Linked'
    /\ \A n \in Linked : val'[n] = val[n] /\ (p_next[n].mark => p_next'[n] = p_next[n])

LEMMA PathKept ==
    ASSUME NEW a, NEW b \in Linked, MarkedPath(a, b), Frozen
    PROVE  MarkedPath(a, b)'
<1>1. PICK S \in SUBSET Linked : Leads(S, a, b)
  BY DEF MarkedPath
<1>2. S \in SUBSET Linked' /\ \A n \in S : p_next'[n] = p_next[n] /\ val'[n] = val[n]
  BY <1>1 DEF Leads, Frozen
<1>3. val'[b] = val[b]
  BY DEF Frozen
<1>4. Leads(S, a, b)'
  <2>1. \A n \in S : p_next'[n].mark /\ p_next'[n].node \in S \cup {b} /\ val'[n] < val'[b]
    BY <1>1, <1>2, <1>3 DEF Leads
  <2>2. \A T \in SUBSET S : a \in T => \E n \in T : p_next'[n].node \notin T
    BY <1>1, <1>2 DEF Leads
  <2> QED
    BY <1>1, <2>1, <2>2 DEF Leads
<1> QED
  BY <1>2, <1>4 DEF MarkedPath

\* A walk from one marked node to the next one.
LEMMA PathGrows ==
    ASSUME TypeOK, Shape, NEW a, NEW b \in Linked \ {TailNode}, MarkedPath(a, b),
           p_next[b].mark
    PROVE  MarkedPath(a, p_next[b].node)
<1> DEFINE c == p_next[b].node
<1>1. PICK S \in SUBSET Linked : Leads(S, a, b)
  BY DEF MarkedPath
<1>2. c \in Linked /\ val[b] < val[c]
  BY DEF Shape
<1>3. \A n \in Linked : val[n] \in Int
  BY Numbers
<1> HIDE DEF c
<1>4. \A n \in S \cup {b} : p_next[n].mark /\ p_next[n].node \in S \cup {b, c} /\ val[n] < val[c]
  BY <1>1, <1>2, <1>3 DEF Leads, c
<1>5. \A T \in SUBSET (S \cup {b}) : a \in T => \E n \in T : p_next[n].node \notin T
  <2> SUFFICES ASSUME NEW T \in SUBSET (S \cup {b}), a \in T
               PROVE  \E n \in T : p_next[n].node \notin T
    OBVIOUS
  <2>1. CASE b \in T
    <3>1. c \notin S \cup {b}
      BY <1>2, <1>3, <1>4
    <3> QED
      BY <2>1, <3>1 DEF c
  <2>2. CASE b \notin T
    BY <2>2, <1>1 DEF Leads
  <2> QED
    BY <2>1, <2>2
<1>6. Leads(S \cup {b}, a, c)
  BY <1>1, <1>4, <1>5 DEF Leads
<1> QED
  BY <1>2, <1>6 DEF MarkedPath, c

LEMMA PathHere ==
    ASSUME NEW a \in Linked
    PROVE  MarkedPath(a, a)
<1>1. Leads({}, a, a)
  BY DEF Leads
<1> QED
  BY <1>1 DEF MarkedPath

\* A path goes up.
LEMMA PathUp ==
    ASSUME TypeOK, NEW a, NEW b \in Linked, MarkedPath(a, b)
    PROVE  a \in Linked /\ val[a] <= val[b]
<1>1. PICK S \in SUBSET Linked : Leads(S, a, b)
  BY DEF MarkedPath
<1> QED
  BY <1>1, Numbers DEF Leads

Same(u) ==
    /\ pc'[u] = pc[u] /\ op'[u] = op[u] /\ key'[u] = key[u] /\ cleanup'[u] = cleanup[u]
    /\ t_node'[u] = t_node[u] /\ t_next'[u] = t_next[u]
    /\ left_node'[u] = left_node[u] /\ left_node_next'[u] = left_node_next[u]
    /\ right_node_next'[u] = right_node_next[u]

LEMMA PathAt ==
    ASSUME NEW a, NEW b, NEW u \in Threads, MarkedPath(a, b)',
           left_node_next'[u] = a, t_node'[u] = b
    PROVE  MarkedPath(left_node_next[u], t_node[u])'
<1>1. PICK S \in SUBSET Linked' : Leads(S, a, b)'
  BY DEF MarkedPath
<1>2. Leads(S, left_node_next[u], t_node[u])'
  BY <1>1 DEF Leads
<1> QED
  BY <1>2 DEF MarkedPath

\* The other threads do not notice what a step does, but for their history.
LEMMA OtherAt ==
    ASSUME TypeOK, Labelled, NEW u \in Threads, At(u), Same(u), Frozen,
           seen[u] \subseteq seen'[u], pc[u] # "idle" => SeenAt(u)'
    PROVE  At(u)'
<1>1. /\ t_node[u] \in Linked /\ left_node[u] \in Linked /\ t_next[u].node \in Linked
  BY DEF TypeOK, Labelled
<1>2. /\ val'[t_node[u]] = val[t_node[u]] /\ val'[left_node[u]] = val[left_node[u]]
      /\ val'[t_next[u].node] = val[t_next[u].node]
      /\ p_next[t_node[u]].mark => p_next'[t_node[u]] = p_next[t_node[u]]
  BY <1>1 DEF Frozen
<1>3. MarkedPath(left_node_next[u], t_node[u]) => MarkedPath(left_node_next[u], t_node[u])'
  <2>1. PICK a : a = left_node_next[u]
    OBVIOUS
  <2>2. PICK b \in Linked : b = t_node[u]
    BY <1>1
  <2>3. left_node_next'[u] = a /\ t_node'[u] = b
    BY <2>1, <2>2 DEF Same
  <2>4. SUFFICES ASSUME MarkedPath(a, b) PROVE MarkedPath(left_node_next[u], t_node[u])'
    BY <2>1, <2>2
  <2>5. MarkedPath(a, b)'
    BY <2>4, PathKept
  <2> QED
    BY <2>3, <2>5, PathAt
<1>4. pc[u] = "walk" => WalkAt(u)'
  <2> SUFFICES ASSUME pc[u] = "walk" PROVE WalkAt(u)'
    OBVIOUS
  <2>1. WalkAt(u)
    BY DEF At
  <2>2. t_next[u].mark => p_next'[t_node[u]] = t_next[u]
    BY <1>2, <2>1 DEF WalkAt
  <2> QED
    BY <1>2, <1>3, <2>1, <2>2 DEF WalkAt, Same
<1>5. pc[u] \in SearchOver => FoundAt(u)'
  <2> SUFFICES ASSUME pc[u] \in SearchOver PROVE FoundAt(u)'
    OBVIOUS
  <2>1. FoundAt(u)
    BY DEF At
  <2>2. pc[u] = "splice" => p_next'[t_node[u]] = Link(right_node_next[u], TRUE)
    BY <1>2, <2>1 DEF FoundAt, Link
  <2> QED
    BY <1>2, <1>3, <2>1, <2>2 DEF FoundAt, Same
<1> QED
  BY <1>4, <1>5 DEF At, Same

\* A step of t that leaves the list alone, or changes a link but not the set.
LEMMA OthersAt ==
    ASSUME TypeOK, Labelled, NEW t \in Threads, \A u \in Threads : At(u), Frozen,
           Members' = Members,
           \A u \in Threads \ {t} : Same(u) /\ seen'[u] = seen[u]
    PROVE  \A u \in Threads \ {t} : At(u)'
<1> SUFFICES ASSUME NEW u \in Threads \ {t} PROVE At(u)'
  OBVIOUS
<1>1. At(u) /\ Same(u) /\ seen'[u] = seen[u]
  OBVIOUS
<1>2. pc[u] # "idle" => SeenAt(u)'
  BY <1>1 DEF At, SeenAt, Same
<1> QED
  BY <1>1, <1>2, OtherAt

\* One whose CAS makes the set gain or lose k, and that all calls notice.
LEMMA OthersNotice ==
    ASSUME TypeOK, Labelled, NEW t \in Threads, \A u \in Threads : At(u), Frozen,
           NEW k, NEW member \in BOOLEAN, Notice(t, k, member),
           \A j : j # k => ((j \in Members') <=> (j \in Members)),
           member = (k \in Members'),
           \A u \in Threads \ {t} : Same(u)
    PROVE  \A u \in Threads \ {t} : At(u)'
<1> SUFFICES ASSUME NEW u \in Threads \ {t} PROVE At(u)'
  OBVIOUS
<1>1. At(u) /\ Same(u)
  OBVIOUS
<1>2. seen'[u] = IF pc[u] # "idle" /\ key[u] = k THEN seen[u] \cup {member} ELSE seen[u]
  BY DEF Notice
<1>3. pc[u] # "idle" => SeenAt(u)'
  BY <1>1, <1>2 DEF At, SeenAt, Same
<1> QED
  BY <1>1, <1>2, <1>3, OtherAt

\* Whoever attends to a node goes on, if it is not t.
LEMMA StillAttended ==
    ASSUME TypeOK, Labelled, Attended, Frozen, NEW t \in Threads,
           \A u \in Threads \ {t} : Same(u),
           \A n \in Reachable' : p_next'[n].mark =>
               \/ Attends(t, n)'
               \/ n \in Reachable /\ p_next[n].mark /\ ~Attends(t, n)
    PROVE  Attended'
<1> SUFFICES ASSUME NEW n \in Reachable', p_next'[n].mark
             PROVE  \E u \in Threads : Attends(u, n)'
  BY DEF Attended
<1>1. CASE Attends(t, n)'
  BY <1>1
<1>2. CASE n \in Reachable /\ p_next[n].mark /\ ~Attends(t, n)
  <2>1. PICK u \in Threads \ {t} : Attends(u, n)
    BY <1>2 DEF Attended
  <2>2. Same(u) /\ t_next[u].node \in Linked /\ n \in Linked
    BY <1>2, Ends DEF Labelled
  <2>3. val'[n] = val[n] /\ val'[t_next[u].node] = val[t_next[u].node]
    BY <2>2 DEF Frozen
  <2>4. Attends(u, n)'
    BY <2>1, <2>2, <2>3 DEF Attends, Same
  <2> QED
    BY <2>4
<1> QED
  BY <1>1, <1>2

-----------------------------------------------------------------------------
(* Every step keeps the invariant *)

LEMMA QuietList ==
    ASSUME TypeOK, Shape, UNCHANGED listVars
    PROVE  /\ Shape' /\ Members' = Members /\ Reachable' = Reachable
           /\ Linked' = Linked /\ Frozen
<1>1. val' = val /\ p_next' = p_next /\ n_nodes' = n_nodes
  BY DEF listVars
<1>2. Linked' = Linked
  BY <1>1 DEF Linked
<1>3. Reachable' = Reachable
  BY <1>1, <1>2 DEF Reachable
<1>4. Members' = Members
  BY <1>1, <1>2 DEF Members
<1>5. Shape'
  BY <1>1, <1>2, <1>3 DEF Shape
<1>6. Frozen
  BY <1>1, <1>2 DEF Frozen
<1> QED
  BY <1>2, <1>3, <1>4, <1>5, <1>6

LEMMA CallStep ==
    ASSUME ListInv, NEW t \in Threads, Call(t)
    PROVE  ListInv'
<1>0. TypeOK /\ Labelled /\ Shape /\ (\A u \in Threads : At(u)) /\ Attended
  BY DEF ListInv
<1>1. PICK o \in {"contains", "add", "remove"}, k \in Keys :
        /\ op' = [op EXCEPT ![t] = o]
        /\ key' = [key EXCEPT ![t] = k]
        /\ seen' = [seen EXCEPT ![t] = {(k \in Members)}]
  BY DEF Call
<1>2. /\ pc[t] = "idle" /\ n_ops[t] < MaxOps /\ n_ops' = [n_ops EXCEPT ![t] = @ + 1]
      /\ pc' = [pc EXCEPT ![t] = "start"]
      /\ UNCHANGED <<variant, listVars, cleanup, walkVars, right_node_next, result>>
  BY DEF Call, Goto
<1>3. /\ Shape' /\ Members' = Members /\ Reachable' = Reachable /\ Linked' = Linked /\ Frozen
      /\ p_next' = p_next /\ val' = val /\ n_nodes' = n_nodes
  BY <1>0, <1>2, QuietList DEF listVars
<1>4. /\ cleanup' = cleanup /\ t_node' = t_node /\ t_next' = t_next /\ left_node' = left_node
      /\ left_node_next' = left_node_next /\ right_node_next' = right_node_next
      /\ result' = result /\ variant' = variant
  BY <1>2 DEF walkVars
<1>5. /\ pc'[t] = "start" /\ key'[t] = k /\ op'[t] = o
      /\ \A u \in Threads \ {t} : Same(u) /\ seen'[u] = seen[u]
  BY <1>0, <1>1, <1>2, <1>4 DEF TypeOK, Same
<1>6. TypeOK'
  <2>1. MaxOps \in Nat
    BY InitialAssumption
  <2>2. n_ops' \in [Threads -> 0 .. MaxOps]
    BY <2>1, <1>0, <1>2 DEF TypeOK
  <2>3. {(k \in Members)} \in SUBSET BOOLEAN
    OBVIOUS
  <2>4. seen' \in [Threads -> SUBSET BOOLEAN]
    BY <2>3, <1>0, <1>1 DEF TypeOK
  <2>5. /\ op' \in [Threads -> {"contains", "add", "remove"}]
        /\ key' \in [Threads -> Keys \cup {LIST_VAL_MIN}]
        /\ pc' \in [Threads -> Labels]
    BY <1>0, <1>1, <1>2 DEF TypeOK, Labels
  <2> QED
    BY <2>2, <2>4, <2>5, <1>0, <1>3, <1>4 DEF TypeOK
<1>7. Labelled'
  BY <1>0, <1>2, <1>3, <1>4, <1>5 DEF Labelled, Same
<1>8. At(t)'
  <2>1. seen'[t] = {(k \in Members)}
    BY <1>0, <1>1 DEF TypeOK
  <2>2. (k \in Members => TRUE \in seen'[t]) /\ (k \notin Members => FALSE \in seen'[t])
    <3>1. CASE k \in Members
      BY <3>1, <2>1
    <3>2. CASE k \notin Members
      <4>1. (k \in Members) = FALSE
        BY <3>2
      <4> QED
        BY <3>2, <4>1, <2>1
    <3> QED
      BY <3>1, <3>2
  <2>3. SeenAt(t)'
    BY <2>2, <1>3, <1>5 DEF SeenAt
  <2> QED
    BY <2>3, <1>5 DEF At, SearchOver
<1>9. \A u \in Threads \ {t} : At(u)'
  BY <1>0, <1>3, <1>5, OthersAt
<1>10. Attended'
  <2>1. \A n : ~Attends(t, n)
    BY <1>0, <1>2 DEF Attends, Labelled
  <2> QED
    BY <2>1, <1>0, <1>3, <1>5, StillAttended
<1> QED
  BY <1>3, <1>6, <1>7, <1>8, <1>9, <1>10 DEF ListInv

LEMMA StartStep ==
    ASSUME ListInv, NEW t \in Threads, Start(t)
    PROVE  ListInv'
<1>0. TypeOK /\ Labelled /\ Shape /\ (\A u \in Threads : At(u)) /\ Attended
  BY DEF ListInv
<1>1. /\ pc[t] = "start" /\ pc' = [pc EXCEPT ![t] = "walk"]
      /\ t_node' = [t_node EXCEPT ![t] = HeadNode]
      /\ t_next' = [t_next EXCEPT ![t] = p_next[HeadNode]]
      /\ left_node_next' = [left_node_next EXCEPT ![t] = HeadNode]
      /\ UNCHANGED <<variant, listVars, callVars, cleanup, left_node, right_node_next,
                     returnVars, seen>>
  BY DEF Start, Goto
<1>2. /\ Shape' /\ Members' = Members /\ Reachable' = Reachable /\ Linked' = Linked /\ Frozen
      /\ p_next' = p_next /\ val' = val /\ n_nodes' = n_nodes
  BY <1>0, <1>1, QuietList DEF listVars
<1>3. /\ op' = op /\ key' = key /\ cleanup' = cleanup /\ left_node' = left_node
      /\ right_node_next' = right_node_next /\ result' = result /\ n_ops' = n_ops
      /\ seen' = seen /\ variant' = variant
  BY <1>1 DEF callVars, returnVars
<1>4. /\ pc'[t] = "walk" /\ t_node'[t] = HeadNode /\ t_next'[t] = p_next[HeadNode]
      /\ left_node_next'[t] = HeadNode
      /\ \A u \in Threads \ {t} : Same(u) /\ seen'[u] = seen[u]
  BY <1>0, <1>1, <1>3 DEF TypeOK, Same
<1>5. /\ HeadNode \in Linked /\ HeadNode \in Nodes /\ HeadNode \in Reachable
      /\ HeadNode # TailNode
  BY <1>0, Ends
<1>6. p_next[HeadNode].node \in Linked /\ ~p_next[HeadNode].mark
  BY <1>0, <1>5 DEF Shape
<1>7. TypeOK'
  <2>1. /\ pc' \in [Threads -> Labels]
        /\ t_node' \in [Threads -> Linked] /\ t_next' \in [Threads -> Links]
        /\ left_node_next' \in [Threads -> Linked]
    BY <1>0, <1>1, <1>5 DEF TypeOK, Labels
  <2> QED
    BY <2>1, <1>0, <1>2, <1>3 DEF TypeOK
<1>8. Labelled'
  BY <1>0, <1>1, <1>2, <1>3, <1>4, <1>6 DEF Labelled, Same
<1>9. key[t] \in Keys /\ val[HeadNode] < key[t]
  BY <1>0, <1>1, Numbers DEF Labelled, Shape
<1>10. At(t)'
  <2>1. SeenAt(t)
    BY <1>0, <1>1 DEF At
  <2>2. val[p_next[HeadNode].node] > key[t] => FALSE \in seen[t]
    BY <2>1, <1>0, <1>5, <1>9, Neighbours DEF SeenAt
  <2>3. MarkedPath(HeadNode, HeadNode)'
    BY <1>2, <1>5, PathHere, PathKept
  <2>4. MarkedPath(left_node_next[t], t_node[t])'
    BY <2>3, <1>4, PathAt
  <2>5. WalkAt(t)'
    BY <2>2, <2>4, <1>2, <1>3, <1>4, <1>6, <1>9 DEF WalkAt
  <2>6. SeenAt(t)'
    BY <2>1, <1>2, <1>3 DEF SeenAt
  <2> QED
    BY <2>5, <2>6, <1>4 DEF At, SearchOver
<1>11. \A u \in Threads \ {t} : At(u)'
  BY <1>0, <1>2, <1>4, OthersAt
<1>12. Attended'
  <2>1. ASSUME NEW n \in Reachable, Attends(t, n) PROVE Attends(t, n)'
    <3>1. cleanup[t] /\ key[t] = val[n]
      BY <2>1, <1>1 DEF Attends
    <3>2. val[p_next[HeadNode].node] <= key[t]
      BY <3>1, <1>0, <1>5, <1>9, Neighbours
    <3> QED
      BY <3>1, <3>2, <1>2, <1>3, <1>4 DEF Attends
  <2> QED
    BY <2>1, <1>0, <1>2, <1>4, StillAttended
<1> QED
  BY <1>2, <1>7, <1>8, <1>10, <1>11, <1>12 DEF ListInv

LEMMA WalkStep ==
    ASSUME ListInv, NEW t \in Threads, Walk(t)
    PROVE  ListInv'
<1>0. TypeOK /\ Labelled /\ Shape /\ (\A u \in Threads : At(u)) /\ Attended
  BY DEF ListInv
<1>1. PICK n \in Linked : n = t_next[t].node
  BY <1>0 DEF Labelled
<1>2. PICK c \in Linked : c = IF t_next[t].mark THEN left_node_next[t] ELSE n
  BY <1>0 DEF TypeOK
<1>3. PICK stop \in BOOLEAN : stop <=> (n = TailNode \/ (~p_next[n].mark /\ val[n] >= key[t]))
  OBVIOUS
<1>4. PICK l \in Linked : l = IF t_next[t].mark THEN left_node[t] ELSE t_node[t]
  BY <1>0 DEF TypeOK
<1>5. PICK next \in Links : next = IF n = TailNode THEN t_next[t] ELSE p_next[n]
  BY <1>0, Ends DEF TypeOK
<1>6. PICK label \in {"walk", "check", "unlink"} :
        label = IF ~stop THEN "walk" ELSE IF c = n THEN "check" ELSE "unlink"
  OBVIOUS
<1>7. /\ pc[t] = "walk" /\ pc' = [pc EXCEPT ![t] = label]
      /\ t_node' = [t_node EXCEPT ![t] = n]
      /\ t_next' = [t_next EXCEPT ![t] = next]
      /\ left_node' = [left_node EXCEPT ![t] = l]
      /\ left_node_next' = [left_node_next EXCEPT ![t] = c]
      /\ UNCHANGED <<variant, listVars, callVars, cleanup, right_node_next, returnVars, seen>>
  BY <1>1, <1>2, <1>3, <1>4, <1>5, <1>6 DEF Walk, Goto
<1>8. /\ Shape' /\ Members' = Members /\ Reachable' = Reachable /\ Linked' = Linked /\ Frozen
      /\ p_next' = p_next /\ val' = val /\ n_nodes' = n_nodes
  BY <1>0, <1>7, QuietList DEF listVars
<1>9. /\ op' = op /\ key' = key /\ cleanup' = cleanup
      /\ right_node_next' = right_node_next /\ result' = result /\ n_ops' = n_ops
      /\ seen' = seen /\ variant' = variant
  BY <1>7 DEF callVars, returnVars
<1>10. /\ pc'[t] = label /\ t_node'[t] = n /\ t_next'[t] = next
       /\ left_node'[t] = l /\ left_node_next'[t] = c
       /\ \A u \in Threads \ {t} : Same(u) /\ seen'[u] = seen[u]
  BY <1>0, <1>7, <1>9 DEF TypeOK, Same
<1>11. WalkAt(t) /\ SeenAt(t) /\ key[t] \in Keys /\ t_node[t] \in Linked
  BY <1>0, <1>7 DEF At, Labelled, TypeOK
<1>12. TypeOK'
  <2>1. /\ pc' \in [Threads -> Labels]
        /\ t_node' \in [Threads -> Linked] /\ t_next' \in [Threads -> Links]
        /\ left_node' \in [Threads -> Linked] /\ left_node_next' \in [Threads -> Linked]
    BY <1>0, <1>7 DEF TypeOK, Labels
  <2> QED
    BY <2>1, <1>0, <1>8, <1>9 DEF TypeOK
<1>13. next.node \in Linked
  BY <1>0, <1>1, <1>5 DEF Shape, Labelled
<1>14. Labelled'
  BY <1>0, <1>7, <1>8, <1>9, <1>10, <1>13 DEF Labelled, Same
<1>15. /\ key[t] \in Int /\ val[n] \in Int /\ val[TailNode] > key[t]
       /\ \A m \in Linked : val[m] \in Int
  BY <1>0, <1>11, Numbers DEF Shape
<1>16. val[l] < key[t]
  BY <1>4, <1>11 DEF WalkAt
<1>17. MarkedPath(c, n)
  <2>1. CASE t_next[t].mark
    <3>1. p_next[t_node[t]] = t_next[t] /\ MarkedPath(left_node_next[t], t_node[t])
      BY <2>1, <1>11 DEF WalkAt
    <3>2. t_node[t] # TailNode
      BY <2>1, <3>1, <1>0 DEF Shape, Link
    <3>3. MarkedPath(left_node_next[t], p_next[t_node[t]].node)
      BY <2>1, <3>1, <3>2, <1>0, <1>11, PathGrows
    <3> QED
      BY <2>1, <3>1, <3>3, <1>1, <1>2
  <2>2. CASE ~t_next[t].mark
    BY <2>2, <1>2, PathHere
  <2> QED
    BY <2>1, <2>2
<1>18. t_next[t].mark => c # n
  <2> SUFFICES ASSUME t_next[t].mark PROVE c # n
    OBVIOUS
  <2>1. p_next[t_node[t]] = t_next[t] /\ MarkedPath(c, t_node[t])
    BY <1>2, <1>11 DEF WalkAt
  <2>2. val[c] <= val[t_node[t]]
    BY <2>1, <1>0, <1>11, PathUp
  <2>3. val[t_node[t]] < val[n]
    BY <2>1, <1>0, <1>1, <1>11 DEF Shape, Link
  <2> QED
    BY <2>2, <2>3, <1>11, <1>15
\* What a link that the walk goes on with says of the key.
<1>19. ~stop /\ ~p_next[n].mark => n \in Reachable /\ val[n] < key[t]
  BY <1>0, <1>3, <1>15 DEF Shape
<1>20. stop => key[t] <= val[n]
  BY <1>3, <1>15
<1>21. At(t)'
  <2>1. ~stop => WalkAt(t)'
    <3> SUFFICES ASSUME ~stop PROVE WalkAt(t)'
      OBVIOUS
    <3>1. next = p_next[n]
      BY <1>3, <1>5
    <3>2. ~next.mark => val[n] < key[t] /\ (val[next.node] > key[t] => FALSE \in seen[t])
      BY <3>1, <1>0, <1>11, <1>19, Neighbours DEF SeenAt
    <3>3. MarkedPath(left_node_next[t], t_node[t])'
      BY <1>8, <1>10, <1>17, PathKept, PathAt
    <3> QED
      BY <3>1, <3>2, <3>3, <1>8, <1>9, <1>10, <1>16 DEF WalkAt
  <2>2. stop => FoundAt(t)'
    <3> SUFFICES ASSUME stop PROVE FoundAt(t)'
      OBVIOUS
    <3>1. label \in {"check", "unlink"} /\ (label = "check" => c = n)
      BY <1>6
    <3>2. label = "check" /\ val[n] > key[t] => FALSE \in seen[t]
      BY <3>1, <1>1, <1>11, <1>18 DEF WalkAt
    <3>3. MarkedPath(left_node_next[t], t_node[t])'
      BY <1>8, <1>10, <1>17, PathKept, PathAt
    <3> QED
      BY <3>1, <3>2, <3>3, <1>8, <1>9, <1>10, <1>16, <1>20 DEF FoundAt
  <2>3. SeenAt(t)'
    BY <1>8, <1>9, <1>11 DEF SeenAt
  <2> QED
    BY <2>1, <2>2, <2>3, <1>6, <1>10 DEF At, SearchOver
<1>22. \A u \in Threads \ {t} : At(u)'
  BY <1>0, <1>8, <1>10, OthersAt
<1>23. Attended'
  <2>1. ASSUME NEW m \in Reachable, p_next[m].mark, Attends(t, m) PROVE Attends(t, m)'
    <3>1. cleanup[t] /\ key[t] = val[m] /\ (t_next[t].mark \/ val[n] <= key[t])
      BY <2>1, <1>1, <1>7 DEF Attends
    <3>2. CASE ~stop
      <4>1. next = p_next[n] /\ label = "walk"
        BY <3>2, <1>3, <1>5, <1>6
      <4>2. next.mark \/ val[next.node] <= key[t]
        BY <3>1, <3>2, <4>1, <1>0, <1>11, <1>19, Neighbours
      <4> QED
        BY <3>1, <4>1, <4>2, <1>8, <1>9, <1>10 DEF Attends
    <3>3. CASE stop /\ c # n
      BY <3>1, <3>3, <1>6, <1>8, <1>9, <1>10 DEF Attends
    <3>4. CASE stop /\ c = n
      <4>1. val[n] = key[t] /\ n # TailNode
        BY <3>1, <3>4, <1>15, <1>18, <1>20
      <4>2. n \in Reachable
        BY <3>4, <4>1, <1>0, <1>3 DEF Shape
      <4>3. n = m
        BY <3>1, <4>1, <4>2, <1>0 DEF Shape
      <4> QED
        BY <3>1, <3>4, <4>3, <1>6, <1>8, <1>9, <1>10 DEF Attends
    <3> QED
      BY <3>2, <3>3, <3>4
  <2> QED
    BY <2>1, <1>0, <1>8, <1>10, StillAttended
<1> QED
  BY <1>8, <1>12, <1>14, <1>21, <1>22, <1>23 DEF ListInv

\* A CAS changes no marked link.
LEMMA CasFrozen ==
    ASSUME TypeOK, NEW l \in Linked, NEW x, ~p_next[l].mark,
           p_next' = [p_next EXCEPT ![l] = x], UNCHANGED <<val, n_nodes>>
    PROVE  Frozen /\ Linked' = Linked
<1>1. Linked' = Linked /\ Linked \subseteq Nodes
  BY Ends DEF Linked
<1>2. \A n \in Linked : n # l => p_next'[n] = p_next[n]
  BY <1>1 DEF TypeOK
<1> QED
  BY <1>1, <1>2 DEF Frozen

\* A search that starts again; a remove may first turn to its second search.
LEMMA AgainStep ==
    ASSUME ListInv, NEW t \in Threads, pc[t] # "idle", pc' = [pc EXCEPT ![t] = "start"],
           UNCHANGED <<variant, listVars, callVars, walkVars, returnVars, seen>>,
           right_node_next' \in [Threads -> Linked], cleanup' \in [Threads -> BOOLEAN],
           \A u \in Threads \ {t} : right_node_next'[u] = right_node_next[u]
                                    /\ cleanup'[u] = cleanup[u],
           cleanup'[t] => op[t] = "remove",
           \A n \in Reachable : Attends(t, n) => cleanup'[t] /\ key[t] = val[n]
    PROVE  ListInv'
<1>0. TypeOK /\ Labelled /\ Shape /\ (\A u \in Threads : At(u)) /\ Attended
  BY DEF ListInv
<1>1. /\ Shape' /\ Members' = Members /\ Reachable' = Reachable /\ Linked' = Linked /\ Frozen
      /\ p_next' = p_next /\ val' = val /\ n_nodes' = n_nodes
  BY <1>0, QuietList DEF listVars
<1>2. /\ op' = op /\ key' = key /\ t_node' = t_node /\ t_next' = t_next
      /\ left_node' = left_node /\ left_node_next' = left_node_next
      /\ result' = result /\ n_ops' = n_ops /\ seen' = seen /\ variant' = variant
  BY DEF callVars, walkVars, returnVars
<1>3. pc'[t] = "start" /\ \A u \in Threads \ {t} : Same(u) /\ seen'[u] = seen[u]
  BY <1>0, <1>2 DEF TypeOK, Same
<1>4. TypeOK'
  <2>1. pc' \in [Threads -> Labels]
    BY <1>0 DEF TypeOK, Labels
  <2> QED
    BY <2>1, <1>0, <1>1, <1>2 DEF TypeOK
<1>5. Labelled'
  BY <1>0, <1>1, <1>2, <1>3 DEF Labelled, Same
<1>6. At(t)'
  BY <1>0, <1>1, <1>2, <1>3 DEF At, SeenAt, SearchOver
<1>7. \A u \in Threads \ {t} : At(u)'
  BY <1>0, <1>1, <1>3, OthersAt
<1>8. Attended'
  <2>1. ASSUME NEW n \in Reachable, Attends(t, n) PROVE Attends(t, n)'
    BY <2>1, <1>1, <1>2, <1>3 DEF Attends
  <2> QED
    BY <2>1, <1>0, <1>1, <1>3, StillAttended
<1> QED
  BY <1>1, <1>4, <1>5, <1>6, <1>7, <1>8 DEF ListInv

LEMMA UnlinkStep ==
    ASSUME ListInv, NEW t \in Threads, Unlink(t)
    PROVE  ListInv' /\ Members' = Members
<1>0. TypeOK /\ Labelled /\ Shape /\ (\A u \in Threads : At(u)) /\ Attended
  BY DEF ListInv
<1>1. /\ pc[t] = "unlink" /\ Stay /\ UNCHANGED <<variant, val, n_nodes, n_ops, seen>>
      /\ op' = op /\ key' = key /\ cleanup' = cleanup /\ t_node' = t_node /\ t_next' = t_next
      /\ left_node' = left_node /\ left_node_next' = left_node_next
      /\ right_node_next' = right_node_next /\ result' = result
  BY DEF Unlink, Stay, callVars, walkVars
<1>2. FoundAt(t) /\ SeenAt(t) /\ key[t] \in Keys
  BY <1>0, <1>1 DEF At, SearchOver, Labelled
<1>3. PICK l \in Linked : l = UnlinkTarget(t) /\ val[l] < key[t]
  <2>1. HeadNode \in Linked /\ val[HeadNode] < key[t]
    BY <1>0, <1>2, Ends, Numbers DEF Shape
  <2>2. left_node[t] \in Linked /\ val[left_node[t]] < key[t]
    BY <1>0, <1>2 DEF FoundAt, TypeOK
  <2> QED
    BY <2>1, <2>2 DEF UnlinkTarget
<1>4. PICK a \in Linked : a = left_node_next[t]
  BY <1>0 DEF TypeOK
<1>5. PICK b \in Linked : b = t_node[t]
  BY <1>0 DEF TypeOK
<1>6. MarkedPath(a, b) /\ key[t] <= val[b]
  BY <1>1, <1>2, <1>4, <1>5 DEF FoundAt
<1>7. /\ key[t] \in Int /\ \A n \in Linked : val[n] \in Int
      /\ l \in Nodes /\ b \in Nodes
  BY <1>0, <1>2, Numbers, Ends
<1>8. CASE p_next[l] = Link(a, FALSE)
  <2>1. p_next' = [p_next EXCEPT ![l] = Link(b, FALSE)] /\ pc' = [pc EXCEPT ![t] = "check"]
    BY <1>3, <1>4, <1>5, <1>8 DEF Unlink, Goto
  <2>2. /\ Shape' /\ Members' = Members
        /\ l \in Reachable' /\ b \in Reachable' /\ Reachable' \subseteq Reachable
        /\ \A n \in Reachable' : val[n] <= val[l] \/ val[b] <= val[n]
    <3>1. val[l] < val[b]
      BY <1>3, <1>6, <1>7
    <3> QED
      BY <2>1, <3>1, <1>0, <1>1, <1>6, <1>8, SwingList
  <2>3. ~p_next[l].mark
    BY <1>8 DEF Link
  <2>4. Frozen /\ Linked' = Linked
    BY <2>1, <2>3, <1>0, <1>1, CasFrozen
  <2>5. pc'[t] = "check" /\ \A u \in Threads \ {t} : Same(u) /\ seen'[u] = seen[u]
    BY <2>1, <1>0, <1>1 DEF TypeOK, Same
  <2>6. TypeOK'
    <3>1. Link(b, FALSE) \in Links
      BY <1>7 DEF Link, Links
    <3>2. p_next' \in [Nodes -> Links] /\ pc' \in [Threads -> Labels]
      BY <2>1, <3>1, <1>0, <1>7 DEF TypeOK, Labels
    <3> QED
      BY <3>2, <2>4, <1>0, <1>1 DEF TypeOK
  <2>7. Labelled'
    BY <2>4, <2>5, <1>0, <1>1 DEF Labelled, Same
  <2>8. At(t)'
    <3>1. val[b] > key[t] => FALSE \in seen[t]
      <4> SUFFICES ASSUME val[b] > key[t], FALSE \notin seen[t] PROVE FALSE
        OBVIOUS
      <4>1. key[t] \in Members'
        BY <2>2, <1>2 DEF SeenAt
      <4>2. PICK n \in Linked' : ~p_next'[n].mark /\ val'[n] = key[t]
        BY <4>1 DEF Members
      <4>3. n \in Reachable' /\ val[n] = key[t]
        BY <4>2, <2>2, <1>1 DEF Shape
      <4> QED
        BY <4>3, <2>2, <1>3, <1>7
    <3>2. FoundAt(t)'
      BY <3>1, <2>5, <1>1, <1>2, <1>5 DEF FoundAt
    <3>3. SeenAt(t)'
      BY <2>2, <1>1, <1>2 DEF SeenAt
    <3> QED
      BY <3>2, <3>3, <2>5 DEF At, SearchOver
  <2>9. \A u \in Threads \ {t} : At(u)'
    BY <2>2, <2>4, <2>5, <1>0, OthersAt
  <2>10. Attended'
    <3>1. ASSUME NEW n \in Reachable', p_next'[n].mark, Attends(t, n) PROVE Attends(t, n)'
      <4>1. cleanup[t] /\ key[t] = val[n]
        BY <3>1, <1>1 DEF Attends
      <4>2. n \in Linked
        BY <2>2, <1>0, Ends
      <4>3. val[n] = val[b]
        BY <4>1, <4>2, <2>2, <1>3, <1>6, <1>7
      <4>4. n = b
        BY <4>3, <2>2, <1>1 DEF Shape
      <4> QED
        BY <4>1, <4>4, <2>5, <1>1, <1>5 DEF Attends
    <3>2. \A n \in Reachable' : p_next'[n].mark => n \in Reachable /\ p_next[n].mark
      <4>1. \A n \in Linked : n # l => p_next'[n] = p_next[n]
        BY <2>1, <1>0, Ends DEF TypeOK
      <4>2. ~p_next'[l].mark
        BY <2>1, <1>0, <1>7 DEF TypeOK, Link
      <4>3. Reachable' \subseteq Linked
        BY <2>2, <1>0, Ends
      <4> QED
        BY <4>1, <4>2, <4>3, <2>2
    <3> QED
      BY <3>1, <3>2, <2>4, <2>5, <1>0, StillAttended
  <2> QED
    BY <2>2, <2>6, <2>7, <2>8, <2>9, <2>10 DEF ListInv
<1>9. CASE p_next[l] # Link(a, FALSE)
  <2>1. UNCHANGED listVars /\ pc' = [pc EXCEPT ![t] = "start"]
    BY <1>1, <1>3, <1>4, <1>9 DEF Unlink, Goto, listVars
  <2>2. UNCHANGED <<variant, listVars, callVars, walkVars, returnVars, seen>>
    BY <2>1, <1>1 DEF callVars, walkVars, returnVars
  <2>3. \A n \in Reachable : Attends(t, n) => cleanup[t] /\ key[t] = val[n]
    BY <1>1 DEF Attends
  <2> QED
    BY <2>1, <2>2, <2>3, <1>0, <1>1, AgainStep, QuietList DEF TypeOK, Labelled
<1> QED
  BY <1>8, <1>9

\* The end of an operation.
LEMMA ReturnLocals ==
    ASSUME TypeOK, NEW t \in Threads, NEW r \in BOOLEAN, Return(t, r), Linked \subseteq Linked'
    PROVE  /\ pc' \in [Threads -> Labels]
           /\ op' \in [Threads -> {"contains", "add", "remove"}]
           /\ key' \in [Threads -> Keys \cup {LIST_VAL_MIN}]
           /\ cleanup' \in [Threads -> BOOLEAN]
           /\ t_node' \in [Threads -> Linked'] /\ t_next' \in [Threads -> Links]
           /\ left_node' \in [Threads -> Linked'] /\ left_node_next' \in [Threads -> Linked']
           /\ right_node_next' \in [Threads -> Linked']
           /\ result' \in [Threads -> BOOLEAN]
           /\ pc'[t] = "idle" /\ ~cleanup'[t] /\ t_next'[t].node \in Linked'
           /\ \A u \in Threads \ {t} : Same(u)
<1>1. HeadNode \in Linked /\ HeadNode \in Linked' /\ HeadNode \in Nodes
  BY Ends
<1>2. Link(HeadNode, FALSE) \in Links /\ Link(HeadNode, FALSE).node = HeadNode
  BY <1>1 DEF Link, Links
<1>3. /\ t_next \in [Threads -> Links]
      /\ t_next' = [t_next EXCEPT ![t] = Link(HeadNode, FALSE)]
  BY DEF TypeOK, Return
<1>4. t_next' \in [Threads -> Links] /\ t_next'[t].node \in Linked'
  BY <1>1, <1>2, <1>3
<1>5. /\ t_node' \in [Threads -> Linked'] /\ left_node' \in [Threads -> Linked']
      /\ left_node_next' \in [Threads -> Linked'] /\ right_node_next' \in [Threads -> Linked']
  BY <1>1 DEF TypeOK, Return
<1>6. /\ pc' \in [Threads -> Labels]
      /\ op' \in [Threads -> {"contains", "add", "remove"}]
      /\ key' \in [Threads -> Keys \cup {LIST_VAL_MIN}]
      /\ cleanup' \in [Threads -> BOOLEAN]
      /\ result' \in [Threads -> BOOLEAN]
      /\ pc'[t] = "idle" /\ ~cleanup'[t]
  BY DEF TypeOK, Return, Goto, Labels
<1>7. \A u \in Threads \ {t} : Same(u)
  BY DEF TypeOK, Return, Goto, Same
<1> QED
  BY <1>4, <1>5, <1>6, <1>7

LEMMA AnswerStep ==
    ASSUME ListInv, NEW t \in Threads, NEW r \in BOOLEAN, Return(t, r),
           UNCHANGED <<variant, listVars, n_ops>>, seen' = [seen EXCEPT ![t] = {}],
           \A n \in Reachable : p_next[n].mark => ~Attends(t, n)
    PROVE  ListInv'
<1>0. TypeOK /\ Labelled /\ Shape /\ (\A u \in Threads : At(u)) /\ Attended
  BY DEF ListInv
<1>1. /\ Shape' /\ Members' = Members /\ Reachable' = Reachable /\ Linked' = Linked /\ Frozen
      /\ p_next' = p_next /\ val' = val /\ n_nodes' = n_nodes
  BY <1>0, QuietList DEF listVars
<1>2. seen' \in [Threads -> SUBSET BOOLEAN] /\ seen'[t] = {}
      /\ \A u \in Threads \ {t} : seen'[u] = seen[u]
  BY <1>0 DEF TypeOK
<1>3. TypeOK'
  BY <1>0, <1>1, <1>2, ReturnLocals DEF TypeOK
<1>4. pc'[t] = "idle" /\ ~cleanup'[t] /\ t_next'[t].node \in Linked'
      /\ \A u \in Threads \ {t} : Same(u)
  BY <1>0, <1>1, ReturnLocals
<1>5. Labelled'
  BY <1>0, <1>1, <1>2, <1>4 DEF Labelled, Same
<1>6. At(t)'
  BY <1>4 DEF At, SearchOver
<1>7. \A u \in Threads \ {t} : At(u)'
  BY <1>0, <1>1, <1>2, <1>4, OthersAt
<1>8. Attended'
  BY <1>0, <1>1, <1>4, StillAttended
<1> QED
  BY <1>1, <1>3, <1>5, <1>6, <1>7, <1>8 DEF ListInv

\* An operation that goes on with what its search found.
LEMMA GoOnStep ==
    ASSUME ListInv, NEW t \in Threads,
           NEW label \in {"insert", "read_next"}, pc[t] = "check",
           pc' = [pc EXCEPT ![t] = label], ~cleanup[t],
           label = "insert" => op[t] = "add" /\ val[t_node[t]] # key[t],
           label = "read_next" => op[t] = "remove" /\ val[t_node[t]] = key[t],
           UNCHANGED <<variant, listVars, n_ops, seen>>, Stay
    PROVE  ListInv'
<1>0. TypeOK /\ Labelled /\ Shape /\ (\A u \in Threads : At(u)) /\ Attended
  BY DEF ListInv
<1>1. /\ Shape' /\ Members' = Members /\ Reachable' = Reachable /\ Linked' = Linked /\ Frozen
      /\ p_next' = p_next /\ val' = val /\ n_nodes' = n_nodes
  BY <1>0, QuietList DEF listVars
<1>2. /\ op' = op /\ key' = key /\ cleanup' = cleanup /\ t_node' = t_node /\ t_next' = t_next
      /\ left_node' = left_node /\ left_node_next' = left_node_next
      /\ right_node_next' = right_node_next /\ result' = result
      /\ n_ops' = n_ops /\ seen' = seen /\ variant' = variant
  BY DEF Stay, callVars, walkVars
<1>3. pc'[t] = label /\ \A u \in Threads \ {t} : Same(u) /\ seen'[u] = seen[u]
  BY <1>0, <1>2 DEF TypeOK, Same
<1>4. TypeOK'
  <2>1. pc' \in [Threads -> Labels]
    BY <1>0 DEF TypeOK, Labels
  <2> QED
    BY <2>1, <1>0, <1>1, <1>2 DEF TypeOK
<1>5. Labelled'
  BY <1>0, <1>1, <1>2, <1>3 DEF Labelled, Same
<1>6. At(t)'
  <2>1. FoundAt(t) /\ SeenAt(t) /\ key[t] \in Int /\ val[t_node[t]] \in Int
    BY <1>0, Numbers DEF At, SearchOver, Labelled, TypeOK
  <2>2. val[left_node[t]] < key[t] /\ key[t] <= val[t_node[t]]
    BY <2>1 DEF FoundAt
  <2>3. label = "insert" => key[t] < val[t_node[t]]
    BY <2>1, <2>2
  <2>4. FoundAt(t)'
    <3>1. CASE label = "insert"
      BY <2>2, <2>3, <3>1, <1>1, <1>2, <1>3 DEF FoundAt
    <3>2. CASE label = "read_next"
      BY <2>2, <3>2, <1>1, <1>2, <1>3 DEF FoundAt
    <3> QED
      BY <3>1, <3>2
  <2>5. SeenAt(t)'
    BY <2>1, <1>1, <1>2 DEF SeenAt
  <2> QED
    BY <2>4, <2>5, <1>3 DEF At, SearchOver
<1>7. \A u \in Threads \ {t} : At(u)'
  BY <1>0, <1>1, <1>3, OthersAt
<1>8. Attended'
  <2>1. \A n : ~Attends(t, n)
    BY DEF Attends
  <2> QED
    BY <2>1, <1>0, <1>1, <1>3, StillAttended
<1> QED
  BY <1>1, <1>4, <1>5, <1>6, <1>7, <1>8 DEF ListInv

\* A node that is not marked is in the list, and nobody attends to it.
LEMMA CheckAttends ==
    ASSUME ListInv, NEW t \in Threads, pc[t] = "check",
           t_node[t] = TailNode \/ ~p_next[t_node[t]].mark
    PROVE  ~p_next[t_node[t]].mark /\ \A n \in Reachable : p_next[n].mark => ~Attends(t, n)
<1>1. ~p_next[TailNode].mark
  BY DEF ListInv, Shape, Link
<1> QED
  BY <1>1 DEF Attends

LEMMA CheckStep ==
    ASSUME ListInv, NEW t \in Threads, Check(t)
    PROVE  ListInv'
<1>0. TypeOK /\ Labelled
  BY DEF ListInv
<1>1. PICK again \in BOOLEAN : again <=> (t_node[t] # TailNode /\ p_next[t_node[t]].mark)
  OBVIOUS
<1>2. /\ pc[t] = "check" /\ UNCHANGED <<variant, listVars, n_ops>>
      /\ \/ again /\ Goto(t, "start") /\ Stay
         \/ ~again /\ Found(t)
      /\ seen' = [seen EXCEPT ![t] = IF pc'[t] = "idle" THEN {} ELSE @]
  BY <1>1 DEF Check
<1>3. ASSUME NEW label \in {"start", "insert", "read_next"}, pc' = [pc EXCEPT ![t] = label]
      PROVE  seen' = seen
  <2>1. pc'[t] = label
    BY <1>0, <1>3 DEF TypeOK
  <2> QED
    BY <2>1, <1>0, <1>2, <1>3 DEF TypeOK
<1>4. CASE again /\ Goto(t, "start") /\ Stay
  <2>1. pc' = [pc EXCEPT ![t] = "start"]
    BY <1>4 DEF Goto
  <2>2. seen' = seen
    BY <2>1, <1>3
  <2>3. /\ UNCHANGED <<variant, listVars, callVars, walkVars, returnVars, seen>>
        /\ right_node_next' = right_node_next /\ cleanup' = cleanup
    BY <2>2, <1>2, <1>4 DEF Stay, returnVars
  <2>4. \A n \in Reachable : Attends(t, n) => cleanup[t] /\ key[t] = val[n]
    BY <1>2 DEF Attends
  <2> QED
    BY <2>1, <2>3, <2>4, <1>0, <1>2, AgainStep DEF TypeOK, Labelled
<1>5. CASE ~again /\ Found(t)
  <2>1. \A n \in Reachable : p_next[n].mark => ~Attends(t, n)
    BY <1>1, <1>2, <1>5, CheckAttends
  <2>2. ASSUME NEW r \in BOOLEAN, Return(t, r) PROVE ListInv'
    <3>1. pc'[t] = "idle"
      BY <2>2, <1>0 DEF Return, Goto, TypeOK
    <3>2. seen' = [seen EXCEPT ![t] = {}]
      BY <3>1, <1>2
    <3> QED
      BY <2>1, <2>2, <3>2, <1>2, AnswerStep
  <2>3. ASSUME NEW label \in {"insert", "read_next"}, Goto(t, label), Stay, ~cleanup[t],
               label = "insert" => op[t] = "add" /\ val[t_node[t]] # key[t],
               label = "read_next" => op[t] = "remove" /\ val[t_node[t]] = key[t]
        PROVE  ListInv'
    <3>1. pc' = [pc EXCEPT ![t] = label]
      BY <2>3 DEF Goto
    <3>2. seen' = seen
      BY <3>1, <1>3
    <3>3. UNCHANGED <<variant, listVars, n_ops, seen>>
      BY <3>2, <1>2
    <3> QED
      BY <2>3, <3>1, <3>3, <1>2, GoOnStep
  <2>4. cleanup[t] => op[t] = "remove"
    BY <1>0 DEF Labelled
  <2>5. CASE op[t] = "contains" /\ Return(t, t_node[t] # TailNode /\ val[t_node[t]] = key[t])
    BY <2>2, <2>5
  <2>6. CASE \/ cleanup[t] /\ Return(t, TRUE)
             \/ op[t] = "add" /\ val[t_node[t]] = key[t] /\ Return(t, FALSE)
             \/ op[t] = "remove" /\ ~cleanup[t] /\ val[t_node[t]] # key[t] /\ Return(t, FALSE)
    BY <2>2, <2>6
  <2>7. CASE op[t] = "add" /\ val[t_node[t]] # key[t] /\ Goto(t, "insert") /\ Stay
    BY <2>3, <2>4, <2>7
  <2>8. CASE op[t] = "remove" /\ ~cleanup[t] /\ val[t_node[t]] = key[t]
             /\ Goto(t, "read_next") /\ Stay
    BY <2>3, <2>8
  <2> QED
    BY <1>5, <2>5, <2>6, <2>7, <2>8 DEF Found
<1> QED
  BY <1>2, <1>4, <1>5

LEMMA ReadNextStep ==
    ASSUME ListInv, NEW t \in Threads, ReadNext(t)
    PROVE  ListInv'
<1>0. TypeOK /\ Labelled /\ Shape /\ (\A u \in Threads : At(u)) /\ Attended
  BY DEF ListInv
<1>1. PICK n \in Links : n = p_next[t_node[t]]
  BY <1>0, Ends DEF TypeOK
<1>2. /\ pc[t] = "read_next" /\ right_node_next' = [right_node_next EXCEPT ![t] = n.node]
      /\ pc' = [pc EXCEPT ![t] = IF n.mark THEN "start" ELSE "mark"]
      /\ UNCHANGED <<variant, listVars, callVars, cleanup, walkVars, returnVars, seen>>
  BY <1>1 DEF ReadNext, Goto
<1>3. n.node \in Linked
  BY <1>0, <1>1 DEF Shape, TypeOK, Link
<1>4. /\ right_node_next' \in [Threads -> Linked]
      /\ \A u \in Threads \ {t} : right_node_next'[u] = right_node_next[u]
  BY <1>0, <1>2, <1>3 DEF TypeOK
<1>5. ~cleanup[t] /\ \A m : ~Attends(t, m)
  BY <1>0, <1>2 DEF Attends, Labelled
<1>6. CASE n.mark
  <2>1. pc' = [pc EXCEPT ![t] = "start"] /\ cleanup' = cleanup
    BY <1>2, <1>6
  <2>2. UNCHANGED <<variant, listVars, callVars, walkVars, returnVars, seen>>
    BY <1>2
  <2>3. cleanup \in [Threads -> BOOLEAN]
    BY <1>0 DEF TypeOK
  <2>4. /\ cleanup' \in [Threads -> BOOLEAN] /\ ~cleanup'[t]
        /\ \A u \in Threads \ {t} : right_node_next'[u] = right_node_next[u]
                                     /\ cleanup'[u] = cleanup[u]
    BY <2>1, <2>3, <1>4, <1>5
  <2>5. pc[t] # "idle"
    BY <1>2
  <2> QED
    BY <2>1, <2>2, <2>4, <2>5, <1>4, <1>5, AgainStep
<1>7. CASE ~n.mark
  <2>1. pc' = [pc EXCEPT ![t] = "mark"]
    BY <1>2, <1>7
  <2>2. /\ Shape' /\ Members' = Members /\ Reachable' = Reachable /\ Linked' = Linked /\ Frozen
        /\ p_next' = p_next /\ val' = val /\ n_nodes' = n_nodes
    BY <1>0, <1>2, QuietList DEF listVars
  <2>3. /\ op' = op /\ key' = key /\ cleanup' = cleanup /\ t_node' = t_node /\ t_next' = t_next
        /\ left_node' = left_node /\ left_node_next' = left_node_next
        /\ result' = result /\ n_ops' = n_ops /\ seen' = seen /\ variant' = variant
    BY <1>2 DEF callVars, walkVars, returnVars
  <2>4. pc'[t] = "mark" /\ \A u \in Threads \ {t} : Same(u) /\ seen'[u] = seen[u]
    BY <2>1, <2>3, <1>0, <1>4 DEF TypeOK, Same
  <2>5. TypeOK'
    <3>1. pc' \in [Threads -> Labels]
      BY <2>1, <1>0 DEF TypeOK, Labels
    <3> QED
      BY <3>1, <2>2, <2>3, <1>0, <1>4 DEF TypeOK
  <2>6. Labelled'
    BY <2>2, <2>3, <2>4, <1>0, <1>2 DEF Labelled, Same
  <2>7. At(t)'
    <3>1. FoundAt(t) /\ SeenAt(t)
      BY <1>0, <1>2 DEF At, SearchOver
    <3>2. FoundAt(t)'
      BY <3>1, <2>2, <2>3, <2>4, <1>2 DEF FoundAt
    <3>3. SeenAt(t)'
      BY <3>1, <2>2, <2>3 DEF SeenAt
    <3> QED
      BY <3>2, <3>3, <2>4 DEF At, SearchOver
  <2>8. \A u \in Threads \ {t} : At(u)'
    BY <2>2, <2>4, <1>0, OthersAt
  <2>9. Attended'
    BY <2>2, <2>4, <1>0, <1>5, StillAttended
  <2> QED
    BY <2>2, <2>5, <2>6, <2>7, <2>8, <2>9 DEF ListInv
<1> QED
  BY <1>6, <1>7

LEMMA InsertStep ==
    ASSUME ListInv, NEW t \in Threads, Insert(t)
    PROVE  ListInv'
<1>0. TypeOK /\ Labelled /\ Shape /\ (\A u \in Threads : At(u)) /\ Attended
  BY DEF ListInv
<1>1. pc[t] = "insert" /\ UNCHANGED <<variant, n_ops>>
  BY DEF Insert
<1>2. PICK l \in Linked : l = left_node[t]
  BY <1>0 DEF TypeOK
<1>3. PICK b \in Linked : b = t_node[t]
  BY <1>0 DEF TypeOK
<1>4. PICK k \in Keys : k = key[t]
  BY <1>0, <1>1 DEF Labelled
<1>5. val[l] < k /\ k < val[b]
  BY <1>0, <1>1, <1>2, <1>3, <1>4 DEF At, SearchOver, FoundAt
<1>6. ~cleanup[t] /\ \A n : ~Attends(t, n)
  BY <1>0, <1>1 DEF Attends, Labelled
<1>7. CASE p_next[l] = Link(b, FALSE)
  <2>1. /\ n_nodes < MaxNodes
        /\ val' = [val EXCEPT ![n_nodes] = k]
        /\ p_next' = [p_next EXCEPT ![n_nodes] = Link(b, FALSE), ![l] = Link(n_nodes, FALSE)]
        /\ n_nodes' = n_nodes + 1
        /\ Return(t, TRUE) /\ Notice(t, k, TRUE)
    BY <1>2, <1>3, <1>4, <1>7 DEF Insert
  <2>2. /\ Shape' /\ Members' = Members \cup {k}
        /\ Linked' = Linked \cup {n_nodes} /\ n_nodes \in Nodes \ Linked
        /\ Reachable' = Reachable \cup {n_nodes}
    BY <2>1, <1>0, <1>5, <1>7, InsertList
  <2>3. /\ \A n \in Linked : n # l => p_next'[n] = p_next[n]
        /\ \A n \in Linked : val'[n] = val[n]
        /\ p_next'[n_nodes] = Link(b, FALSE) /\ p_next'[l] = Link(n_nodes, FALSE)
    BY <2>1, <2>2, <1>0, Ends DEF TypeOK
  <2>4. ~p_next[l].mark /\ ~p_next'[n_nodes].mark /\ ~p_next'[l].mark
    BY <2>3, <1>7 DEF Link
  <2>5. Frozen
    BY <2>2, <2>3, <2>4 DEF Frozen
  <2>6. /\ pc'[t] = "idle" /\ ~cleanup'[t] /\ t_next'[t].node \in Linked'
        /\ \A u \in Threads \ {t} : Same(u)
    BY <2>1, <2>2, <1>0, ReturnLocals
  <2>7. /\ seen'[t] = {} /\ seen' \in [Threads -> SUBSET BOOLEAN]
    BY <2>1, <2>6, <1>0 DEF Notice, TypeOK
  <2>8. TypeOK'
    <3>1. n_nodes' \in 2 .. MaxNodes
      BY <2>1, <1>0, InitialAssumption DEF TypeOK
    <3>2. Link(b, FALSE) \in Links /\ Link(n_nodes, FALSE) \in Links
      BY <2>2, <1>0, Ends DEF Link, Links
    <3>3. p_next' \in [Nodes -> Links] /\ val' \in [Nodes -> Vals]
      BY <2>1, <3>2, <1>0 DEF TypeOK, Vals
    <3>4. variant' \in Variants /\ n_ops' \in [Threads -> 0 .. MaxOps]
      BY <1>0, <1>1 DEF TypeOK
    <3> QED
      BY <3>1, <3>3, <3>4, <2>1, <2>2, <2>7, <1>0, ReturnLocals DEF TypeOK
  <2>9. Labelled'
    <3>1. \A u \in Threads \ {t} : pc[u] = "idle" => seen'[u] = seen[u]
      BY <2>1 DEF Notice
    <3> QED
      BY <3>1, <2>2, <2>6, <2>7, <1>0 DEF Labelled, Same
  <2>10. At(t)'
    BY <2>6 DEF At, SearchOver
  <2>11. \A u \in Threads \ {t} : At(u)'
    <3>1. \A j : j # k => ((j \in Members') <=> (j \in Members))
      BY <2>2
    <3>2. TRUE = (k \in Members')
      BY <2>2
    <3> QED
      BY <3>1, <3>2, <2>1, <2>5, <2>6, <1>0, OthersNotice
  <2>12. Attended'
    <3>1. \A n \in Reachable' : p_next'[n].mark => n \in Reachable /\ p_next[n].mark
      BY <2>2, <2>3, <2>4, <1>0, Ends
    <3> QED
      BY <3>1, <2>5, <2>6, <1>0, <1>6, StillAttended
  <2> QED
    BY <2>2, <2>8, <2>9, <2>10, <2>11, <2>12 DEF ListInv
<1>8. CASE p_next[l] # Link(b, FALSE)
  <2>1. pc' = [pc EXCEPT ![t] = "start"] /\ Stay /\ UNCHANGED <<listVars, seen>>
    BY <1>2, <1>3, <1>8 DEF Insert, Goto
  <2>2. /\ UNCHANGED <<variant, listVars, callVars, walkVars, returnVars, seen>>
        /\ right_node_next' = right_node_next /\ cleanup' = cleanup
    BY <2>1, <1>1 DEF Stay, returnVars
  <2> QED
    BY <2>1, <2>2, <1>0, <1>1, <1>6, AgainStep DEF TypeOK
<1> QED
  BY <1>7, <1>8

LEMMA MarkStep ==
    ASSUME ListInv, NEW t \in Threads, Mark(t)
    PROVE  ListInv'
<1>0. TypeOK /\ Labelled /\ Shape /\ (\A u \in Threads : At(u)) /\ Attended
  BY DEF ListInv
<1>1. /\ pc[t] = "mark" /\ UNCHANGED <<variant, val, n_nodes, n_ops>>
      /\ op' = op /\ key' = key /\ cleanup' = cleanup /\ t_node' = t_node /\ t_next' = t_next
      /\ left_node' = left_node /\ left_node_next' = left_node_next
      /\ right_node_next' = right_node_next /\ result' = result
  BY DEF Mark, Stay, callVars, walkVars
<1>2. PICK r \in Linked : r = t_node[t]
  BY <1>0 DEF TypeOK
<1>3. PICK b \in Linked : b = right_node_next[t]
  BY <1>0 DEF TypeOK
<1>4. PICK k \in Keys : k = key[t]
  BY <1>0, <1>1 DEF Labelled
<1>5. FoundAt(t) /\ val[r] = k
  BY <1>0, <1>1, <1>2, <1>4 DEF At, SearchOver, FoundAt
<1>6. ~cleanup[t] /\ op[t] = "remove" /\ \A n : ~Attends(t, n)
  BY <1>0, <1>1 DEF Attends, Labelled
<1>7. CASE p_next[r] = Link(b, FALSE)
  <2>1. p_next[r].node = b /\ ~p_next[r].mark
    BY <1>7 DEF Link
  <2>2. /\ p_next' = [p_next EXCEPT ![r] = Link(b, TRUE)]
        /\ pc' = [pc EXCEPT ![t] = "splice"] /\ Notice(t, k, FALSE)
    BY <1>2, <1>3, <1>4, <1>7 DEF Mark, Goto
  <2>3. r # HeadNode /\ r # TailNode
    BY <1>0, <1>5, Numbers DEF Shape
  <2>4. Shape' /\ Reachable' = Reachable /\ Members' = Members \ {k}
    BY <2>1, <2>2, <2>3, <1>0, <1>1, <1>5, MarkList
  <2>5. Frozen /\ Linked' = Linked
    BY <2>1, <2>2, <1>0, <1>1, CasFrozen
  <2>6. pc'[t] = "splice" /\ \A u \in Threads \ {t} : Same(u)
    BY <2>2, <1>0, <1>1 DEF TypeOK, Same
  <2>7. seen'[t] = seen[t] \cup {FALSE} /\ seen' \in [Threads -> SUBSET BOOLEAN]
    BY <2>2, <2>6, <1>0 DEF Notice, TypeOK
  <2>8. TypeOK'
    <3>1. Link(b, TRUE) \in Links
      BY <1>0, Ends DEF Link, Links
    <3>2. p_next' \in [Nodes -> Links] /\ pc' \in [Threads -> Labels]
      BY <2>2, <3>1, <1>0, Ends DEF TypeOK, Labels
    <3> QED
      BY <3>2, <2>5, <2>7, <1>0, <1>1 DEF TypeOK
  <2>9. Labelled'
    <3>1. \A u \in Threads \ {t} : pc[u] = "idle" => seen'[u] = seen[u]
      BY <2>2 DEF Notice
    <3> QED
      BY <3>1, <2>5, <2>6, <1>0, <1>1, <1>6 DEF Labelled, Same
  <2>10. At(t)'
    <3>1. p_next'[t_node[t]] = Link(b, TRUE)
      BY <2>2, <1>0, <1>2, Ends DEF TypeOK
    <3>2. FoundAt(t)'
      BY <3>1, <2>6, <1>1, <1>2, <1>3, <1>4, <1>5 DEF FoundAt
    <3>3. SeenAt(t)'
      BY <2>4, <2>7, <1>1, <1>4 DEF SeenAt
    <3> QED
      BY <3>2, <3>3, <2>6 DEF At, SearchOver
  <2>11. \A u \in Threads \ {t} : At(u)'
    <3>1. \A j : j # k => ((j \in Members') <=> (j \in Members))
      BY <2>4
    <3>2. FALSE = (k \in Members')
      BY <2>4
    <3> QED
      BY <3>1, <3>2, <2>2, <2>5, <2>6, <1>0, OthersNotice
  <2>12. Attended'
    <3>1. Attends(t, r)'
      BY <2>6, <1>1, <1>2 DEF Attends
    <3>2. \A n \in Linked : n # r => p_next'[n] = p_next[n]
      BY <2>2, <1>0, Ends DEF TypeOK
    <3> QED
      BY <3>1, <3>2, <2>4, <2>5, <2>6, <1>0, <1>6, Ends, StillAttended
  <2> QED
    BY <2>4, <2>8, <2>9, <2>10, <2>11, <2>12 DEF ListInv
<1>8. CASE p_next[r] # Link(b, FALSE)
  <2>1. pc' = [pc EXCEPT ![t] = "start"] /\ UNCHANGED <<p_next, seen>>
    BY <1>2, <1>3, <1>8 DEF Mark, Goto
  <2>2. UNCHANGED <<variant, listVars, callVars, walkVars, returnVars, seen>>
    BY <2>1, <1>1 DEF listVars, callVars, walkVars, returnVars
  <2> QED
    BY <2>1, <2>2, <1>0, <1>1, <1>6, AgainStep DEF TypeOK
<1> QED
  BY <1>7, <1>8

LEMMA SpliceStep ==
    ASSUME ListInv, NEW t \in Threads, Splice(t)
    PROVE  ListInv' /\ Members' = Members
<1>0. TypeOK /\ Labelled /\ Shape /\ (\A u \in Threads : At(u)) /\ Attended
  BY DEF ListInv
<1>1. pc[t] = "splice" /\ UNCHANGED <<variant, val, n_nodes, n_ops>>
  BY DEF Splice
<1>2. PICK l \in Linked : l = left_node[t]
  BY <1>0 DEF TypeOK
<1>3. PICK r \in Linked : r = t_node[t]
  BY <1>0 DEF TypeOK
<1>4. PICK b \in Linked : b = right_node_next[t]
  BY <1>0 DEF TypeOK
<1>5. PICK k \in Keys : k = key[t]
  BY <1>0, <1>1 DEF Labelled
<1>6. val[l] < k /\ val[r] = k /\ p_next[r] = Link(b, TRUE)
  BY <1>0, <1>1, <1>2, <1>3, <1>4, <1>5 DEF At, SearchOver, FoundAt
<1>7. ~cleanup[t] /\ op[t] = "remove" /\ \A n : Attends(t, n) => n = r
  BY <1>0, <1>1, <1>3 DEF Attends, Labelled
<1>8. p_next[r].node = b /\ p_next[r].mark
  BY <1>6 DEF Link
<1>9. CASE p_next[l] = Link(r, FALSE)
  <2>1. /\ p_next' = [p_next EXCEPT ![l] = Link(b, FALSE)]
        /\ Return(t, TRUE) /\ seen' = [seen EXCEPT ![t] = {}]
    BY <1>2, <1>3, <1>4, <1>9 DEF Splice
  <2>2. r # TailNode /\ val[r] < val[b]
    <3>1. r # TailNode
      BY <1>0, <1>6, Numbers DEF Shape
    <3> QED
      BY <3>1, <1>0, <1>8 DEF Shape
  <2>3. MarkedPath(r, b)
    <3>1. MarkedPath(r, r)
      BY PathHere
    <3> QED
      BY <3>1, <2>2, <1>0, <1>8, PathGrows
  <2>4. val[l] < val[r] /\ val[l] < val[b] /\ \A n \in Linked : val[n] \in Int
    BY <2>2, <1>0, <1>6, Numbers
  <2>5. /\ Shape' /\ Members' = Members /\ Reachable' \subseteq Reachable
        /\ \A n \in Reachable' : val[n] <= val[l] \/ val[b] <= val[n]
    BY <2>1, <2>3, <2>4, <1>0, <1>1, <1>9, SwingList
  <2>6. ~p_next[l].mark
    BY <1>9 DEF Link
  <2>7. Frozen /\ Linked' = Linked
    BY <2>1, <2>6, <1>0, <1>1, CasFrozen
  <2>8. /\ pc'[t] = "idle" /\ ~cleanup'[t] /\ t_next'[t].node \in Linked'
        /\ \A u \in Threads \ {t} : Same(u)
    BY <2>1, <2>7, <1>0, ReturnLocals
  <2>9. /\ seen' \in [Threads -> SUBSET BOOLEAN] /\ seen'[t] = {}
        /\ \A u \in Threads \ {t} : seen'[u] = seen[u]
    BY <2>1, <1>0 DEF TypeOK
  <2>10. TypeOK'
    <3>1. Link(b, FALSE) \in Links
      BY <1>0, Ends DEF Link, Links
    <3>2. p_next' \in [Nodes -> Links]
      BY <2>1, <3>1, <1>0 DEF TypeOK
    <3> QED
      BY <3>2, <2>1, <2>7, <2>9, <1>0, <1>1, ReturnLocals DEF TypeOK
  <2>11. Labelled'
    BY <2>7, <2>8, <2>9, <1>0 DEF Labelled, Same
  <2>12. At(t)'
    BY <2>8 DEF At, SearchOver
  <2>13. \A u \in Threads \ {t} : At(u)'
    BY <2>5, <2>7, <2>8, <2>9, <1>0, OthersAt
  <2>14. Attended'
    <3>1. r \notin Reachable'
      BY <2>2, <2>4, <2>5
    <3>2. \A n \in Reachable' : p_next'[n].mark => n \in Reachable /\ p_next[n].mark
      <4>1. \A n \in Linked : n # l => p_next'[n] = p_next[n]
        BY <2>1, <1>0, Ends DEF TypeOK
      <4>2. ~p_next'[l].mark
        BY <2>1, <1>0, Ends DEF TypeOK, Link
      <4> QED
        BY <4>1, <4>2, <2>5, <1>0, Ends
    <3> QED
      BY <3>1, <3>2, <2>7, <2>8, <1>0, <1>7, StillAttended
  <2> QED
    BY <2>5, <2>10, <2>11, <2>12, <2>13, <2>14 DEF ListInv
<1>10. CASE p_next[l] # Link(r, FALSE)
  <2>1. /\ pc' = [pc EXCEPT ![t] = "start"] /\ cleanup' = [cleanup EXCEPT ![t] = TRUE]
        /\ UNCHANGED <<p_next, callVars, walkVars, right_node_next, result, seen>>
    BY <1>2, <1>3, <1>10 DEF Splice, Goto
  <2>2. /\ UNCHANGED <<variant, listVars, callVars, walkVars, returnVars, seen>>
        /\ right_node_next' = right_node_next
    BY <2>1, <1>1 DEF listVars, returnVars
  <2>3. cleanup' \in [Threads -> BOOLEAN] /\ cleanup'[t]
        /\ \A u \in Threads \ {t} : cleanup'[u] = cleanup[u]
    BY <2>1, <1>0 DEF TypeOK
  <2> QED
    BY <2>1, <2>2, <2>3, <1>0, <1>1, <1>5, <1>6, <1>7, AgainStep, QuietList DEF TypeOK
<1> QED
  BY <1>9, <1>10

LEMMA StutterStep ==
    ASSUME ListInv, UNCHANGED vars
    PROVE  ListInv'
<1>0. TypeOK /\ Labelled /\ Shape /\ (\A u \in Threads : At(u)) /\ Attended
  BY DEF ListInv
<1>1. /\ UNCHANGED listVars /\ variant' = variant
      /\ pc' = pc /\ op' = op /\ key' = key /\ cleanup' = cleanup
      /\ t_node' = t_node /\ t_next' = t_next /\ left_node' = left_node
      /\ left_node_next' = left_node_next /\ right_node_next' = right_node_next
      /\ result' = result /\ n_ops' = n_ops /\ seen' = seen
  BY DEF vars, callVars, walkVars, returnVars
<1>2. /\ Shape' /\ Members' = Members /\ Reachable' = Reachable /\ Linked' = Linked /\ Frozen
      /\ p_next' = p_next /\ val' = val /\ n_nodes' = n_nodes
  BY <1>0, <1>1, QuietList DEF listVars
<1>3. TypeOK' /\ Labelled'
  BY <1>0, <1>1, <1>2 DEF TypeOK, Labelled
<1>4. \A u \in Threads : Same(u) /\ seen'[u] = seen[u]
  BY <1>1 DEF Same
<1>5. \A u \in Threads : At(u)'
  <2> SUFFICES ASSUME NEW u \in Threads PROVE At(u)'
    OBVIOUS
  <2>1. pc[u] # "idle" => SeenAt(u)'
    BY <1>0, <1>1, <1>2 DEF At, SeenAt
  <2> QED
    BY <2>1, <1>0, <1>2, <1>4, OtherAt
<1>6. Attended'
  BY <1>0, <1>1, <1>2 DEF Attended, Attends
<1> QED
  BY <1>2, <1>3, <1>5, <1>6 DEF ListInv

LEMMA NextStep ==
    ASSUME ListInv, [Next]_vars
    PROVE  ListInv'
<1>1. CASE \E t \in Threads : Call(t) \/ Step(t)
  BY <1>1, CallStep, StartStep, WalkStep, UnlinkStep, CheckStep, InsertStep, ReadNextStep,
     MarkStep, SpliceStep DEF Step
<1>2. CASE UNCHANGED vars
  BY <1>2, StutterStep
<1> QED
  BY <1>1, <1>2 DEF Next, Terminated

-----------------------------------------------------------------------------
(* The list at the start *)

\* Induction over an interval: the counterexamples up to u, each moved down by
\* one, would be as many, and u would not be among them.
LEMMA Upwards ==
    ASSUME NEW n \in Nat, NEW S, n >= 1 => 1 \in S, \A i \in 1 .. n - 1 : i \in S => i + 1 \in S
    PROVE  1 .. n \subseteq S
<1>1. SUFFICES ASSUME NEW u \in 1 .. n, u \notin S PROVE FALSE
  OBVIOUS
<1> DEFINE W == (1 .. u) \ S
           f == [x \in W |-> x - 1]
<1>2. \A x \in W : x - 1 \in W \ {u}
  <2> SUFFICES ASSUME NEW x \in W PROVE x - 1 \in W \ {u}
    OBVIOUS
  <2>1. x \in 1 .. u /\ x \notin S /\ u \in Int /\ n >= u
    BY <1>1
  <2>2. x # 1
    BY <2>1
  <2>3. x - 1 \in 1 .. n - 1 /\ x - 1 \in 1 .. u /\ x - 1 # u /\ (x - 1) + 1 = x
    BY <2>1, <2>2
  <2> QED
    BY <2>1, <2>3
<1>3. f \in [W -> W \ {u}]
  BY <1>2
<1>4. IsFiniteSet(1 .. u)
  BY FS_Interval
<1>5. IsFiniteSet(W) /\ u \in W
  BY <1>1, <1>4, FS_Subset
<1>6. /\ IsFiniteSet(W \ {u}) /\ Cardinality(W) \in Nat
      /\ Cardinality(W \ {u}) = Cardinality(W) - 1
  BY <1>5, FS_RemoveElement, FS_CardinalityType
<1>7. \A x, y \in W : x # y => f[x] # f[y]
  OBVIOUS
<1> DEFINE V == W \ {u}
<1>8. Cardinality(V) < Cardinality(W) /\ IsFiniteSet(V)
  BY <1>6
<1> HIDE DEF W, V, f
<1>9. \E x, y \in W : x # y /\ f[x] = f[y]
  <2>1. f \in [W -> V]
    BY <1>3 DEF V
  <2> QED
    BY <2>1, <1>5, <1>8, FS_PigeonHole
<1> QED
  BY <1>7, <1>9

LEMMA InitialList ==
    ASSUME Init
    PROVE  /\ val \in [Nodes -> Vals] /\ p_next \in [Nodes -> Links]
           /\ n_nodes \in 2 .. MaxNodes /\ Shape
<1> DEFINE N == Len(Initial)
<1>1. /\ N \in Nat /\ N + 2 <= MaxNodes /\ MaxNodes \in Nat
      /\ DOMAIN Initial = 1 .. N
      /\ \A i \in 1 .. N : Initial[i] \in Keys
      /\ \A i, j \in 1 .. N : i < j => Initial[i] < Initial[j]
      /\ Initial = <<>> <=> N = 0
  BY InitialAssumption
<1>2. /\ val = [n \in Nodes |-> InitialVal(n)]
      /\ p_next = [n \in Nodes |-> Link(InitialNext(n), FALSE)]
      /\ n_nodes = 2 + N
  BY DEF Init
<1>3. Nodes = 0 .. MaxNodes - 1 /\ Linked = 0 .. N + 1 /\ Linked \subseteq Nodes
  BY <1>1, <1>2 DEF Nodes, Linked
<1>4. /\ InitialVal(0) = LIST_VAL_MIN /\ InitialVal(1) = LIST_VAL_MAX
      /\ \A i \in 1 .. N : InitialVal(i + 1) = Initial[i]
      /\ \A n \in Nodes : InitialVal(n) \in Vals
  BY <1>1, <1>3 DEF InitialVal, HeadNode, TailNode, Vals
<1>5. /\ InitialNext(0) = IF N = 0 THEN 1 ELSE 2
      /\ InitialNext(1) = 1
      /\ \A i \in 1 .. N : InitialNext(i + 1) = IF i = N THEN 1 ELSE i + 2
      /\ \A n \in Nodes : InitialNext(n) \in Nodes
  BY <1>1, <1>3 DEF InitialNext, HeadNode, TailNode
<1>6. \A n \in Nodes : Link(n, FALSE) \in Links /\ Link(n, FALSE).node = n
                       /\ ~Link(n, FALSE).mark
  BY DEF Link, Links
<1>7. val \in [Nodes -> Vals] /\ p_next \in [Nodes -> Links] /\ n_nodes \in 2 .. MaxNodes
  <2>1. \A n \in Nodes : Link(InitialNext(n), FALSE) \in Links
    BY <1>5, <1>6
  <2>2. val \in [Nodes -> Vals] /\ p_next \in [Nodes -> Links]
    BY <2>1, <1>2, <1>4
  <2>3. n_nodes \in 2 .. MaxNodes
    BY <1>1, <1>2
  <2> QED
    BY <2>2, <2>3
<1> HIDE DEF N
<1>8. /\ \A n \in Linked : p_next[n].node = InitialNext(n) /\ ~p_next[n].mark /\ val[n] = InitialVal(n)
      /\ p_next[1] = Link(1, FALSE)
  <2>1. 1 \in Nodes
    BY <1>1, <1>3
  <2> QED
    BY <2>1, <1>2, <1>3, <1>5, <1>6
<1>9. \A n \in Linked : n = 0 \/ n = 1 \/ (n - 1 \in 1 .. N /\ (n - 1) + 1 = n)
  BY <1>1, <1>3
<1>10. /\ val[0] = LIST_VAL_MIN /\ val[1] = LIST_VAL_MAX
       /\ \A i \in 1 .. N : i + 1 \in Linked /\ val[i + 1] = Initial[i]
       /\ p_next[0].node = IF N = 0 THEN 1 ELSE 2
       /\ p_next[1].node = 1
       /\ \A i \in 1 .. N : p_next[i + 1].node = IF i = N THEN 1 ELSE i + 2
  <2>1. 0 \in Linked /\ 1 \in Linked /\ \A i \in 1 .. N : i + 1 \in Linked
    BY <1>1, <1>3
  <2>2. \A i \in 1 .. N : /\ val[i + 1] = Initial[i]
                          /\ p_next[i + 1].node = IF i = N THEN 1 ELSE i + 2
    BY <2>1, <1>4, <1>5, <1>8
  <2>3. /\ val[0] = LIST_VAL_MIN /\ val[1] = LIST_VAL_MAX
        /\ p_next[0].node = IF N = 0 THEN 1 ELSE 2
        /\ p_next[1].node = 1
    BY <2>1, <1>4, <1>5, <1>8
  <2> QED
    BY <2>1, <2>2, <2>3
<1>11. /\ LIST_VAL_MIN \in Int /\ LIST_VAL_MAX \in Int /\ LIST_VAL_MIN < LIST_VAL_MAX
       /\ \A i \in 1 .. N : /\ Initial[i] \in Int /\ LIST_VAL_MIN < Initial[i]
                            /\ Initial[i] < LIST_VAL_MAX
  BY <1>1, KeysAssumption
<1>12. Linked \subseteq Reachable
  <2>1. SUFFICES ASSUME NEW S \in SUBSET Linked, 0 \in S, \A n \in S : p_next[n].node \in S
                 PROVE  Linked \subseteq S
    <3> SUFFICES ASSUME NEW m \in Linked, m \notin Reachable PROVE FALSE
      OBVIOUS
    <3>1. PICK S \in SUBSET (Linked \ {m}) : 0 \in S /\ \A n \in S : p_next[n].node \in S
      BY DEF Reachable, HeadNode
    <3> QED
      BY <2>1, <3>1
  <2> DEFINE T == {i \in 1 .. N : i + 1 \in S}
  <2>2. N >= 1 => 1 \in T
    BY <2>1, <1>1, <1>10
  <2>3. \A i \in 1 .. N - 1 : i \in T => i + 1 \in T
    <3> SUFFICES ASSUME NEW i \in 1 .. N - 1, i \in T PROVE i + 1 \in T
      OBVIOUS
    <3>1. i \in 1 .. N /\ i # N /\ i + 1 \in 1 .. N /\ (i + 1) + 1 = i + 2
      BY <1>1
    <3>2. p_next[i + 1].node = i + 2
      BY <3>1, <1>10
    <3>3. p_next[i + 1].node \in S
      BY <2>1
    <3> QED
      BY <3>1, <3>2, <3>3
  <2> HIDE DEF T
  <2>4. 1 .. N \subseteq T
    BY <2>2, <2>3, <1>1, Upwards
  <2>5. \A i \in 1 .. N : i + 1 \in S
    BY <2>4 DEF T
  <2>6. 1 \in S
    <3>1. CASE N = 0
      BY <3>1, <2>1, <1>10
    <3>2. CASE N # 0
      <4>1. N \in 1 .. N /\ p_next[N + 1].node = 1
        BY <3>2, <1>1, <1>10
      <4> QED
        BY <4>1, <2>1, <2>5
    <3> QED
      BY <3>1, <3>2
  <2> QED
    BY <2>1, <2>5, <2>6, <1>9
<1>13. Shape
  <2>1. /\ val[HeadNode] = LIST_VAL_MIN /\ ~p_next[HeadNode].mark
        /\ val[TailNode] = LIST_VAL_MAX /\ p_next[TailNode] = Link(TailNode, FALSE)
    BY <1>1, <1>3, <1>8, <1>10 DEF HeadNode, TailNode
  <2>2. \A n \in Linked \ {HeadNode, TailNode} : val[n] \in Keys
    BY <1>1, <1>9, <1>10 DEF HeadNode, TailNode
  <2>3. \A n \in Linked \ {TailNode} :
          p_next[n].node \in Linked /\ val[n] < val[p_next[n].node]
    <3>1. p_next[0].node \in Linked /\ val[0] < val[p_next[0].node]
      BY <1>1, <1>3, <1>10, <1>11
    <3>2. ASSUME NEW i \in 1 .. N
          PROVE  p_next[i + 1].node \in Linked /\ val[i + 1] < val[p_next[i + 1].node]
      <4>1. CASE i = N
        BY <4>1, <1>1, <1>3, <1>10, <1>11
      <4>2. CASE i # N
        <5>1. i + 1 \in 1 .. N /\ i < i + 1 /\ (i + 1) + 1 = i + 2
          BY <4>2, <1>1
        <5>2. p_next[i + 1].node = i + 2 /\ val[i + 2] = Initial[i + 1] /\ i + 2 \in Linked
          BY <4>2, <5>1, <1>10
        <5> QED
          BY <5>1, <5>2, <1>1, <1>10
      <4> QED
        BY <4>1, <4>2
    <3> QED
      BY <3>1, <3>2, <1>9 DEF TailNode
  <2>4. \A n \in Linked : ~p_next[n].mark => n \in Reachable
    BY <1>12
  <2>5. Reachable \subseteq Linked
    BY DEF Reachable
  \* The order of the nodes by their values: 0, then 2 upwards, then 1.
  <2>6. \A i, j \in 1 .. N : (val[i + 1] < val[j + 1] => i < j)
                             /\ (val[i + 1] = val[j + 1] => i = j)
    BY <1>1, <1>10, <1>11
  <2>7. \A m, n \in Reachable : val[m] = val[n] => m = n
    <3> SUFFICES ASSUME NEW m \in Linked, NEW n \in Linked, val[m] = val[n] PROVE m = n
      BY <2>5
    <3>1. CASE m \in {0, 1} \/ n \in {0, 1}
      BY <3>1, <1>9, <1>10, <1>11
    <3>2. CASE m \notin {0, 1} /\ n \notin {0, 1}
      BY <3>2, <2>6, <1>9
    <3> QED
      BY <3>1, <3>2
  <2>8. \A m \in Reachable \ {TailNode}, n \in Reachable :
          ~(val[m] < val[n] /\ val[n] < val[p_next[m].node])
    <3> SUFFICES ASSUME NEW m \in Linked \ {1}, NEW n \in Linked,
                        val[m] < val[n], val[n] < val[p_next[m].node]
                 PROVE  FALSE
      BY <2>5 DEF TailNode
    <3>1. val[n] # LIST_VAL_MIN /\ val[n] # LIST_VAL_MAX
      <4>1. p_next[m].node \in Linked
        BY <2>3 DEF TailNode
      <4>2. \A x \in Linked : val[x] \in Int /\ LIST_VAL_MIN <= val[x] /\ val[x] <= LIST_VAL_MAX
        BY <1>9, <1>10, <1>11
      <4> QED
        BY <4>1, <4>2, <1>11
    <3>2. PICK j \in 1 .. N : n = j + 1
      BY <3>1, <1>9, <1>10
    <3>3. CASE m = 0
      <4>1. p_next[m].node = 2 /\ val[2] = Initial[1] /\ 1 \in 1 .. N
        BY <3>2, <3>3, <1>1, <1>10
      <4>2. val[n] = Initial[j] /\ (1 < j => Initial[1] < Initial[j]) /\ j >= 1
        BY <3>2, <4>1, <1>1, <1>10
      <4>3. j = 1 \/ 1 < j
        BY <4>2
      <4> QED
        BY <4>1, <4>2, <4>3, <1>11
    <3>4. CASE m # 0
      <4>1. PICK i \in 1 .. N : m = i + 1
        BY <3>4, <1>9
      <4>2. i < j
        BY <2>6, <3>2, <4>1
      <4>3. i # N /\ i + 1 \in 1 .. N /\ (i + 1) + 1 = i + 2
        BY <4>2, <1>1
      <4>4. p_next[m].node = i + 2
        BY <4>1, <4>3, <1>10
      <4>5. j < i + 1
        BY <2>6, <3>2, <4>3, <4>4
      <4> QED
        BY <4>2, <4>5
    <3> QED
      BY <3>3, <3>4
  <2> QED
    BY <2>1, <2>2, <2>3, <2>4, <2>7, <2>8 DEF Shape
<1> QED
  BY <1>7, <1>13

LEMMA InitInv == Init => ListInv
<1> SUFFICES ASSUME Init PROVE ListInv
  OBVIOUS
<1>1. /\ val \in [Nodes -> Vals] /\ p_next \in [Nodes -> Links]
      /\ n_nodes \in 2 .. MaxNodes /\ Shape
  BY InitialList
<1>2. HeadNode \in Linked /\ HeadNode \in Nodes
  BY <1>1, InitialAssumption DEF Linked, Nodes, HeadNode
<1>3. Link(HeadNode, FALSE) \in Links /\ Link(HeadNode, FALSE).node = HeadNode
  BY <1>2 DEF Link, Links
<1>4. TypeOK
  <2>1. /\ variant \in Variants /\ pc \in [Threads -> Labels]
        /\ op \in [Threads -> {"contains", "add", "remove"}]
        /\ key \in [Threads -> Keys \cup {LIST_VAL_MIN}]
        /\ cleanup \in [Threads -> BOOLEAN] /\ result \in [Threads -> BOOLEAN]
        /\ seen \in [Threads -> SUBSET BOOLEAN]
    BY DEF Init, Labels
  <2>2. n_ops \in [Threads -> 0 .. MaxOps]
    BY InitialAssumption DEF Init
  <2>3. t_next \in [Threads -> Links]
    BY <1>3 DEF Init
  <2>4. /\ t_node \in [Threads -> Linked] /\ left_node \in [Threads -> Linked]
        /\ left_node_next \in [Threads -> Linked] /\ right_node_next \in [Threads -> Linked]
    BY <1>2 DEF Init
  <2> QED
    BY <2>1, <2>2, <2>3, <2>4, <1>1 DEF TypeOK
<1>5. \A t \in Threads : pc[t] = "idle" /\ ~cleanup[t] /\ seen[t] = {} /\ t_next[t].node = HeadNode
  BY <1>3 DEF Init
<1>6. Labelled
  BY <1>2, <1>5 DEF Labelled
<1>7. \A t \in Threads : At(t)
  BY <1>5 DEF At, SearchOver
<1>8. Attended
  <2>1. \A n \in Linked : ~p_next[n].mark
    <3>1. Linked \subseteq Nodes
      BY <1>4, Ends
    <3> QED
      BY <3>1 DEF Init, Link
  <2> QED
    BY <2>1, <1>4, Ends DEF Attended
<1> QED
  BY <1>1, <1>4, <1>6, <1>7, <1>8 DEF ListInv

-----------------------------------------------------------------------------
(* The theorems *)

\* The inductive invariant holds whichever accesses to p_next the searches, adds
\* and removes of hash-list.c make in between each other's.
THEOREM ListInvariant == Spec => []ListInv
<1>1. Init => ListInv
  BY InitInv
<1>2. ListInv /\ [Next]_vars => ListInv'
  BY NextStep
<1> QED
  BY <1>1, <1>2, PTL DEF Spec

\* The pointers that harris_list_* and hp_harris_list_* keep in their locals are
\* always to nodes that were linked.
THEOREM TypeCorrect == Spec => []TypeOK
<1>1. ListInv => TypeOK
  BY DEF ListInv
<1> QED
  BY <1>1, ListInvariant, PTL

\* No add is lost and no key doubled by the CAS of another add, remove or search:
\* keys go up along every link, and the head leads to all that is not marked.
THEOREM Sorted == Spec => []ListSorted
<1>1. ListInv => ListSorted
  BY DEF ListInv, Shape, ListSorted
<1> QED
  BY <1>1, ListInvariant, PTL

\* Each remove that marked its node sees it out of the list, by its own CAS or in
\* one more search: when all calls have returned, no marked node is left.
THEOREM NothingMarkedLeft == Spec => []NoMarkedLeft
<1>1. ListInv => NoMarkedLeft
  <2> SUFFICES ASSUME ListInv, \A t \in Threads : pc[t] = "idle",
                      NEW n \in Reachable, p_next[n].mark
               PROVE  FALSE
    BY DEF NoMarkedLeft
  <2>1. PICK t \in Threads : Attends(t, n)
    BY DEF ListInv, Attended
  <2>2. ~cleanup[t]
    BY DEF ListInv, Labelled
  <2> QED
    BY <2>1, <2>2 DEF Attends
<1> QED
  BY <1>1, ListInvariant, PTL

-----------------------------------------------------------------------------
(* The list implements a set *)

Calling == [t \in Threads |-> IF pc[t] = "idle" THEN NULL
                              ELSE [op |-> op[t], key |-> key[t]]]

TookEffect(t) == pc[t] = "splice" \/ cleanup[t]

Updated == [t \in Threads |-> pc[t] = "splice" \/ cleanup[t]]

LEMMA CallingAt ==
    ASSUME ListInv, NEW t \in Threads
    PROVE  /\ Calling[t] = NULL <=> pc[t] = "idle"
           /\ pc[t] # "idle" => Calling[t].op = op[t] /\ Calling[t].key = key[t]
<1>1. CASE pc[t] = "idle"
  BY <1>1 DEF Calling
<1>2. CASE pc[t] # "idle"
  <2>1. Calling[t] = [op |-> op[t], key |-> key[t]]
    BY <1>2 DEF Calling
  <2>2. op[t] \in {"contains", "add", "remove"} /\ key[t] \in Keys
    BY <1>2 DEF ListInv, TypeOK, Labelled
  <2>3. NULL \notin [op : {"contains", "add", "remove"}, key : Keys]
    BY KeysAssumption
  <2> QED
    BY <1>2, <2>1, <2>2, <2>3
<1> QED
  BY <1>1, <1>2

LEMMA CallingTo ==
    ASSUME NEW t \in Threads, NEW c,
           c = IF pc'[t] = "idle" THEN NULL ELSE [op |-> op'[t], key |-> key'[t]],
           \A u \in Threads \ {t} : Same(u)
    PROVE  Calling' = [Calling EXCEPT ![t] = c]
<1>1. \A u \in Threads \ {t} : Calling'[u] = Calling[u]
  BY DEF Calling, Same
<1>2. Calling'[t] = c
  BY DEF Calling
<1>3. Calling = [u \in Threads |-> Calling[u]] /\ Calling' = [u \in Threads |-> Calling'[u]]
  BY DEF Calling
<1> QED
  BY <1>1, <1>2, <1>3

LEMMA UpdatedTo ==
    ASSUME NEW t \in Threads, NEW b \in BOOLEAN, TookEffect(t)' <=> b,
           \A u \in Threads \ {t} : Same(u)
    PROVE  Updated' = [Updated EXCEPT ![t] = b]
<1>1. \A u \in Threads \ {t} : Updated'[u] = Updated[u]
  BY DEF Updated, Same
<1>2. Updated'[t] = b
  BY DEF Updated, TookEffect
<1>3. Updated = [u \in Threads |-> Updated[u]] /\ Updated' = [u \in Threads |-> Updated'[u]]
  BY DEF Updated
<1> QED
  BY <1>1, <1>2, <1>3

LEMMA UpdatedAt ==
    ASSUME NEW t \in Threads
    PROVE  Updated[t] <=> TookEffect(t)
BY DEF Updated, TookEffect

SetVars == <<Members, Calling, Updated, seen, result>>

\* A step that moves an operation on, and no more.
LEMMA SetVarsKept ==
    ASSUME NEW t \in Threads, UNCHANGED <<callVars, seen, result>>, Members' = Members,
           pc'[t] = "idle" <=> pc[t] = "idle", TookEffect(t)' <=> TookEffect(t),
           \A u \in Threads \ {t} : Same(u)
    PROVE  UNCHANGED Set!vars
<1>0. op' = op /\ key' = key
  BY DEF callVars
<1>1. \A u \in Threads : Calling'[u] = Calling[u]
  BY <1>0 DEF Calling, Same
<1>2. Calling' = Calling
  BY <1>1 DEF Calling
<1>3. \A u \in Threads : TookEffect(u)' <=> TookEffect(u)
  BY DEF TookEffect, Same
<1>4. \A u \in Threads : Updated'[u] = Updated[u]
  BY <1>3 DEF Updated, TookEffect
<1>5. Updated' = Updated
  BY <1>4 DEF Updated
<1>6. UNCHANGED SetVars
  BY <1>2, <1>5 DEF SetVars
<1> QED
  BY <1>6 DEF SetVars, Calling, Updated, Set!vars

LEMMA CallSim ==
    ASSUME ListInv, NEW t \in Threads, Call(t)
    PROVE  Set!Next
<1>1. PICK o \in {"contains", "add", "remove"}, k \in Keys :
        /\ op' = [op EXCEPT ![t] = o]
        /\ key' = [key EXCEPT ![t] = k]
        /\ seen' = [seen EXCEPT ![t] = {(k \in Members)}]
  BY DEF Call
<1>2. /\ TypeOK /\ Labelled /\ Shape
      /\ pc[t] = "idle" /\ pc' = [pc EXCEPT ![t] = "start"]
      /\ UNCHANGED <<listVars, cleanup, walkVars, right_node_next, result>>
  BY DEF ListInv, Call, Goto
<1>3. Members' = Members
  BY <1>2, QuietList
<1>4. /\ pc'[t] = "start" /\ op'[t] = o /\ key'[t] = k
      /\ \A u \in Threads \ {t} : Same(u)
  BY <1>1, <1>2 DEF TypeOK, walkVars, Same
<1>5. Calling' = [Calling EXCEPT ![t] = [op |-> o, key |-> k]] /\ Calling[t] = NULL
  BY <1>2, <1>4, CallingTo, CallingAt
<1>6. Updated' = Updated
  <2>1. ~TookEffect(t) /\ ~TookEffect(t)'
    BY <1>2, <1>4 DEF TookEffect, Labelled
  <2>2. \A u \in Threads : Updated'[u] = Updated[u]
    BY <2>1, <1>4 DEF Updated, TookEffect, Same
  <2> QED
    BY <2>2 DEF Updated
<1>7. Set!Call(t)
  BY <1>1, <1>2, <1>3, <1>5, <1>6, Zenon DEF Set!Call, Updated, Calling
<1> QED
  BY <1>7 DEF Set!Next

\* The end of a call answers what its history allows.
LEMMA ReturnSim ==
    ASSUME ListInv, NEW t \in Threads, NEW r \in BOOLEAN, Return(t, r), pc[t] # "idle",
           Members' = Members, seen' = [seen EXCEPT ![t] = {}], Linked \subseteq Linked',
           \/ TookEffect(t) /\ r = TRUE
           \/ op[t] = "contains" /\ r \in seen[t]
           \/ op[t] = "add" /\ ~TookEffect(t) /\ TRUE \in seen[t] /\ r = FALSE
           \/ op[t] = "remove" /\ ~TookEffect(t) /\ FALSE \in seen[t] /\ r = FALSE
    PROVE  Set!Next
<1>1. pc'[t] = "idle" /\ ~cleanup'[t] /\ \A u \in Threads \ {t} : Same(u)
  BY ReturnLocals DEF ListInv
<1>2. Calling' = [Calling EXCEPT ![t] = NULL]
  BY <1>1, CallingTo
<1>3. Updated' = [Updated EXCEPT ![t] = FALSE]
  BY <1>1, UpdatedTo DEF TookEffect
<1>4. Calling[t] # NULL /\ Calling[t].op = op[t]
  BY CallingAt
<1>5. Set!Return(t, r)
  BY <1>2, <1>3 DEF Return, Set!Return, Calling, Updated
<1>6. CASE TookEffect(t) /\ r = TRUE
  <2>1. Set!Return(t, TRUE) /\ Updated[t]
    BY <1>5, <1>6, UpdatedAt
  <2> QED
    BY <2>1 DEF Set!Next, Set!Answer, Updated
<1>7. CASE op[t] = "contains" /\ r \in seen[t]
  <2>1. Set!Calls(t, "contains")
    BY <1>4, <1>7 DEF Set!Calls, Calling
  <2> QED
    BY <2>1, <1>5, <1>7 DEF Set!Next, Set!Answer
<1>8. CASE op[t] = "add" /\ ~TookEffect(t) /\ TRUE \in seen[t] /\ r = FALSE
  <2>1. Set!Calls(t, "add") /\ Set!Return(t, FALSE) /\ ~Updated[t]
    BY <1>4, <1>5, <1>8, UpdatedAt DEF Set!Calls, Calling
  <2> QED
    BY <2>1, <1>8 DEF Set!Next, Set!Answer, Updated
<1>9. CASE op[t] = "remove" /\ ~TookEffect(t) /\ FALSE \in seen[t] /\ r = FALSE
  <2>1. Set!Calls(t, "remove") /\ Set!Return(t, FALSE) /\ ~Updated[t]
    BY <1>4, <1>5, <1>9, UpdatedAt DEF Set!Calls, Calling
  <2> QED
    BY <2>1, <1>9 DEF Set!Next, Set!Answer, Updated
<1> QED
  BY <1>6, <1>7, <1>8, <1>9

LEMMA WalkSim ==
    ASSUME ListInv, NEW t \in Threads, Start(t) \/ Walk(t) \/ Unlink(t) \/ ReadNext(t)
    PROVE  UNCHANGED Set!vars
<1>1. TypeOK /\ Labelled /\ Shape
  BY DEF ListInv
<1>2. Members' = Members
  <2>1. CASE UNCHANGED listVars
    BY <1>1, <2>1, QuietList
  <2>2. CASE Unlink(t)
    BY <2>2, UnlinkStep
  <2> QED
    BY <2>1, <2>2 DEF Start, Walk, ReadNext
<1>3. /\ UNCHANGED <<callVars, seen, result, cleanup>>
      /\ pc[t] \notin {"idle", "splice"}
  BY DEF Start, Walk, Unlink, ReadNext, Stay, returnVars
<1>4. PICK label \in {"walk", "check", "unlink", "start", "mark"} : pc' = [pc EXCEPT ![t] = label]
  BY DEF Start, Walk, Unlink, ReadNext, Goto
<1>5. pc'[t] = label
  BY <1>1, <1>4 DEF TypeOK
<1>6. \A u \in Threads \ {t} : Same(u)
  <2> SUFFICES ASSUME NEW u \in Threads, u # t PROVE Same(u)
    OBVIOUS
  <2>1. pc'[u] = pc[u] /\ op'[u] = op[u] /\ key'[u] = key[u] /\ cleanup'[u] = cleanup[u]
    BY <1>1, <1>3, <1>4 DEF TypeOK, callVars
  <2>2. CASE Start(t)
    BY <2>1, <2>2, <1>1 DEF Start, Same, TypeOK
  <2>3. CASE Walk(t)
    BY <2>1, <2>3, <1>1 DEF Walk, Same, TypeOK
  <2>4. CASE Unlink(t)
    BY <2>1, <2>4, <1>1 DEF Unlink, Stay, walkVars, Same, TypeOK
  <2>5. CASE ReadNext(t)
    BY <2>1, <2>5, <1>1 DEF ReadNext, walkVars, Same, TypeOK
  <2> QED
    BY <2>2, <2>3, <2>4, <2>5
<1>7. TookEffect(t)' <=> TookEffect(t)
  BY <1>3, <1>5 DEF TookEffect
<1> QED
  BY <1>2, <1>3, <1>5, <1>6, <1>7, SetVarsKept

\* Steps that leave all but the label, and perhaps cleanup, as it is.
LEMMA StaySim ==
    ASSUME ListInv, NEW t \in Threads, NEW label \in Labels \ {"idle"},
           pc' = [pc EXCEPT ![t] = label],
           UNCHANGED <<listVars, callVars, walkVars, right_node_next, result, seen>>,
           pc[t] # "idle", TookEffect(t)' <=> TookEffect(t),
           \A u \in Threads \ {t} : cleanup'[u] = cleanup[u]
    PROVE  UNCHANGED Set!vars
<1>1. TypeOK /\ Shape
  BY DEF ListInv
<1>2. Members' = Members
  BY <1>1, QuietList
<1>3. pc'[t] = label /\ \A u \in Threads \ {t} : Same(u)
  BY <1>1 DEF TypeOK, callVars, walkVars, Same
<1> QED
  BY <1>2, <1>3, SetVarsKept

LEMMA CheckSim ==
    ASSUME ListInv, NEW t \in Threads, Check(t)
    PROVE  Set!Next \/ UNCHANGED Set!vars
<1>0. TypeOK /\ Labelled /\ Shape /\ At(t)
  BY DEF ListInv
<1>1. PICK again \in BOOLEAN : again <=> (t_node[t] # TailNode /\ p_next[t_node[t]].mark)
  OBVIOUS
<1>2. /\ pc[t] = "check" /\ UNCHANGED <<variant, listVars, n_ops>>
      /\ \/ again /\ Goto(t, "start") /\ Stay
         \/ ~again /\ Found(t)
      /\ seen' = [seen EXCEPT ![t] = IF pc'[t] = "idle" THEN {} ELSE @]
  BY <1>1 DEF Check
<1>3. Members' = Members /\ Linked' = Linked
  BY <1>0, <1>2, QuietList
<1>4. ASSUME NEW label \in {"start", "insert", "read_next"}, Goto(t, label), Stay
      PROVE  UNCHANGED Set!vars
  <2>1. pc' = [pc EXCEPT ![t] = label] /\ pc'[t] = label
    BY <1>0, <1>4 DEF Goto, TypeOK
  <2>2. seen' = seen
    BY <2>1, <1>0, <1>2, <1>4 DEF TypeOK
  <2>3. /\ UNCHANGED <<listVars, callVars, walkVars, right_node_next, result, seen>>
        /\ cleanup' = cleanup
    BY <2>2, <1>2, <1>4 DEF Stay
  <2>4. TookEffect(t)' <=> TookEffect(t)
    BY <2>1, <2>3, <1>2 DEF TookEffect
  <2>5. label \in Labels \ {"idle"}
    BY DEF Labels
  <2> QED
    BY <2>1, <2>3, <2>4, <2>5, <1>2, StaySim
<1>5. /\ FoundAt(t) /\ SeenAt(t) /\ key[t] \in Keys /\ key[t] \in Int
      /\ t_node[t] \in Linked /\ val[t_node[t]] \in Int
      /\ val[TailNode] > key[t]
  BY <1>0, <1>2, Numbers DEF At, SearchOver, Labelled, TypeOK, Shape
\* What a search that is over tells.
<1>6. ASSUME ~again, val[t_node[t]] = key[t] PROVE t_node[t] # TailNode /\ TRUE \in seen[t]
  <2>1. t_node[t] # TailNode
    BY <1>5, <1>6
  <2>2. t_node[t] \in Reachable /\ ~p_next[t_node[t]].mark
    BY <2>1, <1>0, <1>1, <1>5, <1>6 DEF Shape
  <2>3. key[t] \in Members
    BY <2>2, <1>0, <1>5, <1>6, Member
  <2> QED
    BY <2>1, <2>3, <1>5 DEF SeenAt
<1>7. ASSUME val[t_node[t]] # key[t] PROVE FALSE \in seen[t]
  <2>1. /\ key[t] <= val[t_node[t]]
        /\ val[t_node[t]] > key[t] => FALSE \in seen[t]
    BY <1>2, <1>5 DEF FoundAt
  <2>2. val[t_node[t]] > key[t]
    BY <2>1, <1>5, <1>7
  <2> QED
    BY <2>1, <2>2
<1>8. TookEffect(t) <=> cleanup[t]
  BY <1>2 DEF TookEffect
<1>9. CASE again /\ Goto(t, "start") /\ Stay
  BY <1>4, <1>9
<1>10. CASE ~again /\ Found(t)
  <2>1. ASSUME NEW r \in BOOLEAN, Return(t, r),
               \/ TookEffect(t) /\ r = TRUE
               \/ op[t] = "contains" /\ r \in seen[t]
               \/ op[t] = "add" /\ ~TookEffect(t) /\ TRUE \in seen[t] /\ r = FALSE
               \/ op[t] = "remove" /\ ~TookEffect(t) /\ FALSE \in seen[t] /\ r = FALSE
        PROVE  Set!Next
    <3>1. pc'[t] = "idle"
      BY <2>1, <1>0 DEF Return, Goto, TypeOK
    <3>2. seen' = [seen EXCEPT ![t] = {}]
      BY <3>1, <1>2
    <3> QED
      BY <2>1, <3>2, <1>2, <1>3, ReturnSim
  <2>2. cleanup[t] => op[t] = "remove"
    BY <1>0 DEF Labelled
  <2>3. CASE cleanup[t] /\ Return(t, TRUE)
    BY <2>1, <2>3, <1>8
  <2>4. CASE op[t] = "contains" /\ Return(t, t_node[t] # TailNode /\ val[t_node[t]] = key[t])
    <3>1. PICK r \in BOOLEAN : r = (t_node[t] # TailNode /\ val[t_node[t]] = key[t])
      OBVIOUS
    <3>2. Return(t, r)
      BY <2>4, <3>1
    <3>3. r \in seen[t]
      <4>1. CASE val[t_node[t]] = key[t]
        <5>1. r = TRUE
          BY <4>1, <3>1, <1>6, <1>10
        <5> QED
          BY <4>1, <5>1, <1>6, <1>10
      <4>2. CASE val[t_node[t]] # key[t]
        <5>1. r = FALSE
          BY <4>2, <3>1
        <5> QED
          BY <4>2, <5>1, <1>7
      <4> QED
        BY <4>1, <4>2
    <3> QED
      BY <2>1, <2>4, <3>2, <3>3
  <2>5. CASE op[t] = "add" /\ val[t_node[t]] = key[t] /\ Return(t, FALSE)
    BY <2>1, <2>2, <2>5, <1>6, <1>8, <1>10
  <2>6. CASE op[t] = "remove" /\ ~cleanup[t] /\ val[t_node[t]] # key[t] /\ Return(t, FALSE)
    BY <2>1, <2>6, <1>7, <1>8
  <2>7. CASE \/ op[t] = "add" /\ val[t_node[t]] # key[t] /\ Goto(t, "insert") /\ Stay
             \/ op[t] = "remove" /\ ~cleanup[t] /\ val[t_node[t]] = key[t]
                /\ Goto(t, "read_next") /\ Stay
    BY <2>7, <1>4
  <2> QED
    BY <1>10, <2>3, <2>4, <2>5, <2>6, <2>7 DEF Found
<1> QED
  BY <1>2, <1>9, <1>10

LEMMA InsertSim ==
    ASSUME ListInv, NEW t \in Threads, Insert(t)
    PROVE  Set!Next \/ UNCHANGED Set!vars
<1>0. TypeOK /\ Labelled /\ Shape /\ At(t)
  BY DEF ListInv
<1>1. pc[t] = "insert" /\ op[t] = "add" /\ ~cleanup[t]
  BY <1>0 DEF Insert, Labelled
<1>2. PICK l \in Linked : l = left_node[t]
  BY <1>0 DEF TypeOK
<1>3. PICK b \in Linked : b = t_node[t]
  BY <1>0 DEF TypeOK
<1>4. PICK k \in Keys : k = key[t]
  BY <1>0, <1>1 DEF Labelled
<1>5. val[l] < k /\ k < val[b]
  BY <1>0, <1>1, <1>2, <1>3, <1>4 DEF At, SearchOver, FoundAt
<1>6. ~TookEffect(t)
  BY <1>1 DEF TookEffect
<1>7. CASE p_next[l] = Link(b, FALSE)
  <2>1. /\ n_nodes < MaxNodes
        /\ val' = [val EXCEPT ![n_nodes] = k]
        /\ p_next' = [p_next EXCEPT ![n_nodes] = Link(b, FALSE), ![l] = Link(n_nodes, FALSE)]
        /\ n_nodes' = n_nodes + 1
        /\ Return(t, TRUE) /\ Notice(t, k, TRUE)
    BY <1>2, <1>3, <1>4, <1>7 DEF Insert
  <2>2. k \notin Members /\ Members' = Members \cup {k} /\ Linked \subseteq Linked'
    BY <2>1, <1>0, <1>5, <1>7, InsertList
  <2>3. pc'[t] = "idle" /\ ~cleanup'[t] /\ \A u \in Threads \ {t} : Same(u)
    BY <2>1, <2>2, <1>0, ReturnLocals
  <2>4. Calling' = [Calling EXCEPT ![t] = NULL]
    BY <2>3, CallingTo
  <2>5. Updated' = [Updated EXCEPT ![t] = FALSE] /\ ~Updated[t]
    BY <2>3, <1>6, UpdatedTo, UpdatedAt DEF TookEffect
  <2>6. Calling[t] # NULL /\ Calling[t].op = "add" /\ Calling[t].key = k
    BY <1>1, <1>4, CallingAt
  <2>7. Set!Return(t, TRUE)
    BY <2>1, <2>4, <2>5 DEF Return, Set!Return, Calling, Updated
  <2>8. seen' = [u \in Threads |-> IF Calling[u] # NULL /\ Calling[u].key = k /\ Calling'[u] # NULL
                                   THEN seen[u] \cup {TRUE}
                                   ELSE IF Calling'[u] = NULL THEN {} ELSE seen[u]]
    <3>1. \A u \in Threads \ {t} : Calling'[u] = Calling[u] /\ Calling'[t] = NULL
      BY <2>4 DEF Calling
    <3>2. Calling'[t] = NULL
      BY <2>3 DEF Calling
    <3>3. seen' = [u \in Threads |-> seen'[u]]
      BY <2>1 DEF Notice
    <3>4. ASSUME NEW u \in Threads
          PROVE  seen'[u] = IF Calling[u] # NULL /\ Calling[u].key = k /\ Calling'[u] # NULL
                            THEN seen[u] \cup {TRUE}
                            ELSE IF Calling'[u] = NULL THEN {} ELSE seen[u]
      <4>1. CASE u = t
        BY <4>1, <3>2, <2>1, <2>3 DEF Notice
      <4>2. CASE u # t /\ pc[u] = "idle"
        <5>1. Calling[u] = NULL /\ seen[u] = {}
          BY <4>2, <1>0, CallingAt DEF Labelled
        <5> QED
          BY <4>2, <5>1, <3>1, <2>1 DEF Notice
      <4>3. CASE u # t /\ pc[u] # "idle"
        <5>1. Calling[u] # NULL /\ Calling[u].key = key[u]
          BY <4>3, CallingAt
        <5> QED
          BY <4>3, <5>1, <3>1, <2>1 DEF Notice
      <4> QED
        BY <4>1, <4>2, <4>3
    <3> QED
      BY <3>3, <3>4
  <2>9. Set!Notice(k, TRUE)
    BY <2>8 DEF Set!Notice, Calling
  <2>10. Set!Add(t)
    <3>1. Set!Calls(t, "add")
      BY <2>6 DEF Set!Calls, Calling
    <3>2. Set!Notice(Calling[t].key, TRUE)
      BY <2>6, <2>9
    <3> QED
      BY <3>1, <3>2, <2>2, <2>5, <2>6, <2>7 DEF Set!Add, Calling, Updated
  <2> QED
    BY <2>10 DEF Set!Next
<1>8. CASE p_next[l] # Link(b, FALSE)
  <2>1. pc' = [pc EXCEPT ![t] = "start"] /\ Stay /\ UNCHANGED <<listVars, seen>>
    BY <1>2, <1>3, <1>8 DEF Insert, Goto
  <2>2. UNCHANGED <<listVars, callVars, walkVars, right_node_next, result, seen>> /\ cleanup' = cleanup
    BY <2>1 DEF Stay
  <2>3. TookEffect(t)' <=> TookEffect(t)
    BY <2>1, <2>2, <1>0, <1>1 DEF TookEffect, TypeOK
  <2>4. "start" \in Labels \ {"idle"}
    BY DEF Labels
  <2> QED
    BY <2>1, <2>2, <2>3, <2>4, <1>1, StaySim
<1> QED
  BY <1>7, <1>8

LEMMA MarkSim ==
    ASSUME ListInv, NEW t \in Threads, Mark(t)
    PROVE  Set!Next \/ UNCHANGED Set!vars
<1>0. TypeOK /\ Labelled /\ Shape /\ At(t)
  BY DEF ListInv
<1>1. /\ pc[t] = "mark" /\ op[t] = "remove" /\ ~cleanup[t]
      /\ Stay /\ UNCHANGED <<val, n_nodes>>
  BY <1>0 DEF Mark, Labelled
<1>2. PICK r \in Linked : r = t_node[t]
  BY <1>0 DEF TypeOK
<1>3. PICK b \in Linked : b = right_node_next[t]
  BY <1>0 DEF TypeOK
<1>4. PICK k \in Keys : k = key[t]
  BY <1>0, <1>1 DEF Labelled
<1>5. val[r] = k
  BY <1>0, <1>1, <1>2, <1>4 DEF At, SearchOver, FoundAt
<1>6. CASE p_next[r] = Link(b, FALSE)
  <2>1. p_next[r].node = b /\ ~p_next[r].mark
    BY <1>6 DEF Link
  <2>2. /\ p_next' = [p_next EXCEPT ![r] = Link(b, TRUE)]
        /\ pc' = [pc EXCEPT ![t] = "splice"] /\ Notice(t, k, FALSE)
    BY <1>2, <1>3, <1>4, <1>6 DEF Mark, Goto
  <2>3. r # HeadNode /\ r # TailNode
    BY <1>0, <1>5, Numbers DEF Shape
  <2>4. k \in Members /\ Members' = Members \ {k}
    BY <2>1, <2>2, <2>3, <1>0, <1>1, <1>5, MarkList
  <2>5. pc'[t] = "splice" /\ \A u \in Threads \ {t} : Same(u)
    BY <2>2, <1>0, <1>1 DEF TypeOK, Stay, callVars, walkVars, Same
  <2>6. /\ op' = op /\ key' = key /\ result' = result
    BY <1>1 DEF Stay, callVars
  <2>7. Calling' = Calling
    <3>1. \A u \in Threads : Calling'[u] = Calling[u]
      BY <2>5, <2>6, <1>1 DEF Calling, Same
    <3> QED
      BY <3>1 DEF Calling
  <2>8. Updated' = [Updated EXCEPT ![t] = TRUE]
    BY <2>5, UpdatedTo DEF TookEffect
  <2>9. ~Updated[t]
    BY <1>1, UpdatedAt DEF TookEffect
  <2>10. Calling[t] # NULL /\ Calling[t].op = "remove" /\ Calling[t].key = k
    BY <1>1, <1>4, CallingAt
  <2>11. seen' = [u \in Threads |-> IF Calling[u] # NULL /\ Calling[u].key = k /\ Calling'[u] # NULL
                                    THEN seen[u] \cup {FALSE}
                                    ELSE IF Calling'[u] = NULL THEN {} ELSE seen[u]]
    <3>1. seen' = [u \in Threads |-> seen'[u]]
      BY <2>2 DEF Notice
    <3>2. ASSUME NEW u \in Threads
          PROVE  seen'[u] = IF Calling[u] # NULL /\ Calling[u].key = k /\ Calling'[u] # NULL
                            THEN seen[u] \cup {FALSE}
                            ELSE IF Calling'[u] = NULL THEN {} ELSE seen[u]
      <4>1. CASE u = t
        BY <4>1, <2>2, <2>5, <2>7, <2>10 DEF Notice
      <4>2. CASE u # t /\ pc[u] = "idle"
        <5>1. Calling[u] = NULL /\ seen[u] = {}
          BY <4>2, <1>0, CallingAt DEF Labelled
        <5> QED
          BY <4>2, <5>1, <2>2, <2>7 DEF Notice
      <4>3. CASE u # t /\ pc[u] # "idle"
        <5>1. Calling[u] # NULL /\ Calling[u].key = key[u]
          BY <4>3, CallingAt
        <5> QED
          BY <4>3, <5>1, <2>2, <2>7 DEF Notice
      <4> QED
        BY <4>1, <4>2, <4>3
    <3> QED
      BY <3>1, <3>2
  <2>12. Set!Notice(k, FALSE)
    BY <2>11 DEF Set!Notice, Calling
  <2>13. Set!Delete(t)
    <3>1. Set!Calls(t, "remove")
      BY <2>10 DEF Set!Calls, Calling
    <3>2. Set!Notice(Calling[t].key, FALSE)
      BY <2>10, <2>12
    <3> QED
      BY <3>1, <3>2, <2>4, <2>6, <2>7, <2>8, <2>9, <2>10 DEF Set!Delete, Calling, Updated
  <2> QED
    BY <2>13 DEF Set!Next
<1>7. CASE p_next[r] # Link(b, FALSE)
  <2>1. pc' = [pc EXCEPT ![t] = "start"] /\ UNCHANGED <<p_next, seen>>
    BY <1>2, <1>3, <1>7 DEF Mark, Goto
  <2>2. UNCHANGED <<listVars, callVars, walkVars, right_node_next, result, seen>> /\ cleanup' = cleanup
    BY <2>1, <1>1 DEF Stay, listVars
  <2>3. TookEffect(t)' <=> TookEffect(t)
    BY <2>1, <2>2, <1>0, <1>1 DEF TookEffect, TypeOK
  <2>4. "start" \in Labels \ {"idle"}
    BY DEF Labels
  <2> QED
    BY <2>1, <2>2, <2>3, <2>4, <1>1, StaySim
<1> QED
  BY <1>6, <1>7

LEMMA SpliceSim ==
    ASSUME ListInv, NEW t \in Threads, Splice(t)
    PROVE  Set!Next \/ UNCHANGED Set!vars
<1>0. TypeOK /\ Members' = Members
  BY SpliceStep DEF ListInv
<1>1. pc[t] = "splice" /\ UNCHANGED <<val, n_nodes>> /\ TookEffect(t)
  BY DEF Splice, TookEffect
<1>2. CASE Return(t, TRUE) /\ seen' = [seen EXCEPT ![t] = {}]
  <2>1. Linked' = Linked
    BY <1>1 DEF Linked
  <2> QED
    BY <2>1, <1>0, <1>1, <1>2, ReturnSim
<1>3. CASE /\ Goto(t, "start") /\ cleanup' = [cleanup EXCEPT ![t] = TRUE]
           /\ UNCHANGED <<p_next, callVars, walkVars, right_node_next, result, seen>>
  <2>1. /\ pc' = [pc EXCEPT ![t] = "start"] /\ cleanup'[t]
        /\ \A u \in Threads \ {t} : cleanup'[u] = cleanup[u]
    BY <1>0, <1>3 DEF Goto, TypeOK
  <2>2. UNCHANGED <<listVars, callVars, walkVars, right_node_next, result, seen>>
    BY <1>1, <1>3 DEF listVars
  <2>3. TookEffect(t)' <=> TookEffect(t)
    BY <2>1, <1>1 DEF TookEffect
  <2>4. "start" \in Labels \ {"idle"}
    BY DEF Labels
  <2> QED
    BY <2>1, <2>2, <2>3, <2>4, <1>1, StaySim
<1> QED
  BY <1>2, <1>3 DEF Splice

LEMMA InitSim == Init => Set!Init
<1> SUFFICES ASSUME Init PROVE Set!Init
  OBVIOUS
<1>1. Members \in SUBSET Keys
  BY InitInv, MembersAreKeys DEF ListInv
<1>2. \A t \in Threads : pc[t] = "idle" /\ cleanup[t] = FALSE
  BY DEF Init
<1>3. Calling = [t \in Threads |-> NULL]
  BY <1>2 DEF Calling
<1>4. Updated = [t \in Threads |-> FALSE]
  <2>1. \A t \in Threads : Updated[t] = FALSE
    BY <1>2 DEF Updated
  <2> QED
    BY <2>1 DEF Updated
<1> QED
  BY <1>1, <1>3, <1>4 DEF Init, Set!Init, Calling, Updated

LEMMA StutterSim ==
    ASSUME ListInv, UNCHANGED vars
    PROVE  UNCHANGED Set!vars
<1>1. /\ UNCHANGED listVars /\ pc' = pc /\ op' = op /\ key' = key /\ cleanup' = cleanup
      /\ seen' = seen /\ result' = result
  BY DEF vars, callVars, returnVars
<1>2. Members' = Members
  BY <1>1, QuietList DEF ListInv
<1>3. Calling' = Calling /\ Updated' = Updated
  BY <1>1 DEF Calling, Updated
<1>4. UNCHANGED SetVars
  BY <1>1, <1>2, <1>3 DEF SetVars
<1> QED
  BY <1>4 DEF SetVars, Calling, Updated, Set!vars

LEMMA NextSim ==
    ASSUME ListInv, [Next]_vars
    PROVE  [Set!Next]_(Set!vars)
<1>1. CASE \E t \in Threads : Call(t) \/ Step(t)
  BY <1>1, CallSim, WalkSim, CheckSim, InsertSim, MarkSim, SpliceSim DEF Step
<1>2. CASE UNCHANGED vars
  BY <1>2, StutterSim
<1> QED
  BY <1>1, <1>2 DEF Next, Terminated

\* Each contains, add and remove of either variant answers what was true of the
\* set at an instant of the call, and updates it at one such instant.
THEOREM Linearizable == Spec => ImplementsSet
<1>1. Init => Set!Init
  BY InitSim
<1>2. ListInv /\ [Next]_vars => [Set!Next]_(Set!vars)
  BY NextSim
<1> QED
  BY <1>1, <1>2, ListInvariant, PTL DEF Spec, ImplementsSet, Set!Spec
=============================================================================
