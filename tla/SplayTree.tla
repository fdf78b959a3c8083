----------------------------- MODULE SplayTree -----------------------------
(***************************************************************************)
(* The splay tree of coherence/stree.c, in which coherence keeps a         *)
(* processor's states (a block it has no node for is INVALID).  A node is  *)
(* named by its key; `tree` holds the pointers of the nodes and the root,  *)
(* `nodes` the nodes that are allocated.  An operation searches, and an    *)
(* insertion or removal then splays, one action per turn of that loop:     *)
(* `op` is the operation that waits for its loop to end, for node `x`.     *)
(*                                                                         *)
(* A pointer is followed by applying a function whose domain is Keys, so   *)
(* following NULL is an error that ends a run of TLC.                      *)
(***************************************************************************)
EXTENDS Integers, FiniteSets

CONSTANTS Keys, Records, NULL

ASSUME KeysAssumption == Keys \subseteq Int
ASSUME NullAssumption == \A S \in {Records, Keys, BOOLEAN} : NULL \notin S

VARIABLES tree, nodes, record, node_count, op, x, result

vars == <<tree, nodes, record, node_count, op, x, result>>

Pointer == Keys \cup {NULL}
Tree == [root : Pointer, left : [Keys -> Pointer], right : [Keys -> Pointer],
         parent : [Keys -> Pointer]]

\* Pointers lead to keys, and an operation is one of the two that loop.
TypeOK ==
  /\ tree \in Tree
  /\ nodes \subseteq Keys
  /\ record \in [Keys -> Records \cup {NULL}]
  /\ node_count \in Nat
  /\ op \in {"none", "insert", "remove"}
  /\ x \in Pointer
  /\ result \in Records \cup {NULL, TRUE}

-----------------------------------------------------------------------------
(***************************************************************************)
(* Pointers.                                                               *)
(***************************************************************************)
\* replace: what leads to u leads to v.
replace(t, u, v) ==
  LET p == t.parent[u]
      placed == CASE p = NULL -> [t EXCEPT !.root = v]
                  [] p # NULL /\ u = t.left[p] -> [t EXCEPT !.left[p] = v]
                  [] p # NULL /\ u # t.left[p] -> [t EXCEPT !.right[p] = v]
  IN IF v = NULL THEN placed ELSE [placed EXCEPT !.parent[v] = p]

\* A pointer of u, left or right, is set to v, and v's parent to u.
HangLeft(t, u, v) ==
  LET hung == [t EXCEPT !.left[u] = v]
  IN IF v = NULL THEN hung ELSE [hung EXCEPT !.parent[v] = u]

HangRight(t, u, v) ==
  LET hung == [t EXCEPT !.right[u] = v]
  IN IF v = NULL THEN hung ELSE [hung EXCEPT !.parent[v] = u]

\* Mutant of left_rotate: the subtree between the two nodes is dropped.
left_rotate_Drops(t, u) ==
  LET y == t.right[u]
  IN HangLeft(replace(HangRight(t, u, NULL), u, y), y, u)

\* left_rotate: u's right child y takes its place, and u becomes y's left.
left_rotate(t, u) ==
  LET y == t.right[u]
  IN HangLeft(replace(HangRight(t, u, t.left[y]), u, y), y, u)

right_rotate(t, u) ==
  LET y == t.left[u]
  IN HangRight(replace(HangLeft(t, u, t.right[y]), u, y), y, u)

\* Mutant of splay_turn: the zig-zag turns the grandparent first.
splay_turn_Straight(t, n) ==
  LET p == t.parent[n]
  IN IF t.left[p] = n THEN right_rotate(t, p) ELSE left_rotate(t, p)

\* Mutant of splay_turn: the second rotation undoes the first.
splay_turn_Undone(t, n) ==
  LET p == t.parent[n]
  IN IF t.left[p] = n THEN left_rotate(right_rotate(t, p), n)
     ELSE right_rotate(left_rotate(t, p), n)

\* splay: one turn of its loop, for a node n that has a parent.
splay_turn(t, n) ==
  LET p == t.parent[n]
      g == t.parent[p]
  IN CASE g = NULL /\ t.left[p] = n -> right_rotate(t, p)
       [] g = NULL /\ t.left[p] # n -> left_rotate(t, p)
       [] g # NULL /\ t.left[p] = n /\ t.left[g] = p ->
            right_rotate(right_rotate(t, g), p)
       [] g # NULL /\ t.left[p] # n /\ t.right[g] = p ->
            left_rotate(left_rotate(t, g), p)
       [] g # NULL /\ t.left[p] = n /\ t.left[g] # p ->
            left_rotate(right_rotate(t, p), g)
       [] g # NULL /\ t.left[p] # n /\ t.right[g] # p ->
            right_rotate(left_rotate(t, p), g)

\* subtree_minimum.
subtree_minimum(t, u) ==
  LET min[n \in Keys] == IF t.left[n] = NULL THEN n ELSE min[t.left[n]]
  IN min[u]

\* Where a search for k that has come to node n goes on.
Below(t, n, k) == IF k > n THEN t.right[n] ELSE t.left[n]

\* The node with key k, or NULL.
Search(t, k) ==
  LET from[n \in Pointer] ==
        IF n = NULL \/ n = k THEN n ELSE from[Below(t, n, k)]
  IN from[t.root]

\* The last node that the search for an absent k sees, or NULL.
LastSeen(t, k) ==
  LET from[n \in Keys] ==
        IF Below(t, n, k) = NULL THEN n ELSE from[Below(t, n, k)]
  IN IF t.root = NULL THEN NULL ELSE from[t.root]

\* The node that tree_find_nearest ends with: `best` is the best one so far.
Nearest(t, k) ==
  LET from[n \in Pointer] == [best \in Pointer |->
        IF n = NULL THEN best
        ELSE IF n = k THEN n
        ELSE IF n < k
             THEN from[t.right[n]][IF best = NULL \/ best < n THEN n ELSE best]
        ELSE from[t.left[n]][best]]
  IN from[t.root][NULL]

\* Mutant of Unlinked: the successor's right subtree is not handed on.
Unlinked_LosesRight(t, z) ==
  LET y == subtree_minimum(t, t.right[z])
  IN CASE t.left[z] = NULL -> replace(t, z, t.right[z])
       [] t.left[z] # NULL /\ t.right[z] = NULL -> replace(t, z, t.left[z])
       [] t.left[z] # NULL /\ t.right[z] # NULL ->
            HangLeft(replace(t, z, y), y, t.left[z])

\* The tree without z: its one subtree, or the least node of the right one,
\* takes its place.
Unlinked(t, z) ==
  LET y == subtree_minimum(t, t.right[z])
      freed == IF t.parent[y] = z THEN t
               ELSE HangRight(replace(t, y, t.right[y]), y, t.right[z])
  IN CASE t.left[z] = NULL -> replace(t, z, t.right[z])
       [] t.left[z] # NULL /\ t.right[z] = NULL -> replace(t, z, t.left[z])
       [] t.left[z] # NULL /\ t.right[z] # NULL ->
            HangLeft(replace(freed, z, y), y, t.left[z])

-----------------------------------------------------------------------------
tree_new ==
  [root |-> NULL, left |-> [k \in Keys |-> NULL],
   right |-> [k \in Keys |-> NULL], parent |-> [k \in Keys |-> NULL]]

Init ==
  /\ tree = tree_new
  /\ nodes = {} /\ record = [k \in Keys |-> NULL] /\ node_count = 0
  /\ op = "none" /\ x = NULL /\ result = NULL

\* tree_insert of a key that has a node: its record is replaced.
Update(k, r) ==
  /\ op = "none"
  /\ Search(tree, k) # NULL
  /\ record' = [record EXCEPT ![k] = r]
  /\ result' = TRUE
  /\ UNCHANGED <<tree, nodes, node_count, op, x>>

\* tree_insert of a new key, up to its call of splay.
Insert(k, r) ==
  LET p == LastSeen(tree, k)
      t == [tree EXCEPT !.left[k] = NULL, !.right[k] = NULL, !.parent[k] = p]
  IN /\ op = "none"
     /\ Search(tree, k) = NULL
     /\ nodes' = nodes \cup {k}
     /\ record' = [record EXCEPT ![k] = r]
     /\ tree' = CASE p = NULL -> [t EXCEPT !.root = k]
                  [] p # NULL /\ p < k -> [t EXCEPT !.right[p] = k]
                  [] p # NULL /\ p > k -> [t EXCEPT !.left[p] = k]
     /\ op' = "insert" /\ x' = k /\ result' = TRUE
     /\ UNCHANGED node_count

\* tree_remove of an absent key.
RemoveNothing(k) ==
  /\ op = "none"
  /\ Search(tree, k) = NULL
  /\ result' = NULL
  /\ UNCHANGED <<tree, nodes, record, node_count, op, x>>

\* tree_remove, up to its call of splay.
Remove(k) ==
  /\ op = "none"
  /\ Search(tree, k) # NULL
  /\ op' = "remove" /\ x' = k
  /\ UNCHANGED <<tree, nodes, record, node_count, result>>

Splay ==
  /\ op # "none"
  /\ tree.parent[x] # NULL
  /\ tree' = splay_turn(tree, x)
  /\ UNCHANGED <<nodes, record, node_count, op, x, result>>

\* tree_insert after splay.
Inserted ==
  /\ op = "insert"
  /\ tree.parent[x] = NULL
  /\ node_count' = node_count + 1
  /\ op' = "none" /\ x' = NULL
  /\ UNCHANGED <<tree, nodes, record, result>>

\* tree_remove after splay.
Removed ==
  /\ op = "remove"
  /\ tree.parent[x] = NULL
  /\ tree' = [Unlinked(tree, x) EXCEPT !.left[x] = NULL, !.right[x] = NULL,
                                       !.parent[x] = NULL]
  /\ nodes' = nodes \ {x}
  /\ record' = [record EXCEPT ![x] = NULL]
  /\ node_count' = node_count - 1
  /\ result' = record[x]
  /\ op' = "none" /\ x' = NULL

tree_find(k) ==
  LET n == Search(tree, k)
  IN /\ op = "none"
     /\ result' = IF n = NULL THEN NULL ELSE record[n]
     /\ UNCHANGED <<tree, nodes, record, node_count, op, x>>

tree_find_nearest(k) ==
  LET n == Nearest(tree, k)
  IN /\ op = "none"
     /\ result' = IF n = NULL THEN NULL ELSE record[n]
     /\ UNCHANGED <<tree, nodes, record, node_count, op, x>>

Loop == Splay \/ Inserted \/ Removed

Next ==
  \/ Loop
  \/ \E k \in Keys :
       \/ \E r \in Records : Update(k, r) \/ Insert(k, r)
       \/ RemoveNothing(k)
       \/ Remove(k)
       \/ tree_find(k)
       \/ tree_find_nearest(k)

Spec == Init /\ [][Next]_vars

\* An operation that has begun is run to its end.
FairSpec == Spec /\ WF_vars(Loop)

-----------------------------------------------------------------------------
\* The nodes in the subtree of each pointer.
Subtrees(t) ==
  LET sub[m \in Pointer] ==
        IF m = NULL THEN {} ELSE {m} \cup sub[t.left[m]] \cup sub[t.right[m]]
  IN sub

InSubtree(n) == Subtrees(tree)[n]

\* The tree is a search tree of all the nodes, also between the rotations of
\* a loop: every node is reached from the root, has the smaller keys to its
\* left and the larger to its right, and is the parent of its children.  When
\* no operation runs, node_count counts them.
SearchTree ==
  /\ TypeOK
  /\ InSubtree(tree.root) = nodes
  /\ tree.root # NULL => tree.parent[tree.root] = NULL
  /\ \A n \in nodes :
       /\ \A m \in InSubtree(tree.left[n]) : m < n
       /\ \A m \in InSubtree(tree.right[n]) : m > n
       /\ \A m \in {tree.left[n], tree.right[n]} \ {NULL} : tree.parent[m] = n
  /\ op = "none" => node_count = Cardinality(nodes)

\* The distance of a node from the root.
Depth(t, n) ==
  LET depth[m \in Keys] ==
        IF t.parent[m] = NULL THEN 0 ELSE 1 + depth[t.parent[m]]
  IN depth[n]

\* Every turn of splay's loop brings its node one or two links nearer to the
\* root (why the loop ends) and never makes another node more than two links
\* deeper (what the amortised bound rests on).
SplayClimbs ==
  [][ Splay => /\ Depth(tree', x) = Depth(tree, x)
                                    - (IF Depth(tree, x) > 1 THEN 2 ELSE 1)
               /\ \A n \in nodes : Depth(tree', n) <= Depth(tree, n) + 2 ]_vars

\* Every operation ends.
Completes == op # "none" ~> op = "none"

\* The tree is a map: what can be reached is what was inserted last and not
\* removed, and every operation returns what the map would.
Map == INSTANCE KeyedMap WITH
  map <- [k \in Keys |-> IF k \in InSubtree(tree.root) THEN record[k] ELSE NULL]

IsMap == Map!Spec
=============================================================================
