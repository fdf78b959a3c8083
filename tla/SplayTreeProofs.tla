-------------------------- MODULE SplayTreeProofs --------------------------
(***************************************************************************)
(* The splay tree is a search tree of its nodes in every state, between    *)
(* the rotations of a loop too; the loop climbs; and the tree implements   *)
(* the map.                                                                *)
(*                                                                         *)
(* What is below a pointer is defined by recursion.  The proofs of the     *)
(* operations never unfold it: they reason about Shape(t, N, S), in which  *)
(* S is any assignment of a set of nodes to every pointer that the         *)
(* pointers of t justify, and give for each operation the S of its result. *)
(* SubtreesAre says that there is one such S, the one the recursion        *)
(* defines.  Likewise the depth of a node is the number of nodes whose     *)
(* subtree it is in (DepthIs), which a rotation changes in a known way.    *)
(* What a search computes is proved by induction from a subtree to its     *)
(* parts (Lowest), where the search and its result agree below.            *)
(***************************************************************************)
EXTENDS SplayTree, FiniteSetTheorems, TLAPS

\* A set of numbers that is not empty has a least one.
LEMMA LeastOf ==
  ASSUME NEW I \in SUBSET Nat, I # {}
  PROVE  \E n \in I : \A i \in I : n <= i
<1> DEFINE less == {ss \in Nat \X Nat : ss[1] < ss[2]}
<1>1. IsWellFoundedOn(less, Nat)
  BY NatLessThanWellFounded, Zenon DEF OpToRel
<1>2. PICK n \in I : \A i \in I : ~(<<i, n>> \in less)
  BY <1>1, WFMin, Zenon
<1>3. ASSUME NEW i \in I PROVE n <= i
  <2>1. i \in Nat /\ n \in Nat
    OBVIOUS
  <2>2. ~(<<i, n>> \in less)
    BY <1>2
  <2>3. ~(i < n)
    BY <2>1, <2>2
  <2> QED
    BY <2>1, <2>3
<1> QED
  BY <1>3

\* S gives the nodes in the subtree of each pointer.
Covers(t, S) ==
  /\ S \in [Pointer -> SUBSET Keys]
  /\ S[NULL] = {}
  /\ \A m \in Keys : S[m] = {m} \cup S[t.left[m]] \cup S[t.right[m]]

\* Smaller keys are to the left, larger ones to the right.
Ordered(t, S) ==
  \A m \in Keys : /\ \A i \in S[t.left[m]] : i < m
                  /\ \A i \in S[t.right[m]] : i > m

\* The pointers of children and parents agree.
Linked(t) ==
  \A m \in Keys :
    /\ t.left[m] # NULL => t.parent[t.left[m]] = m
    /\ t.right[m] # NULL => t.parent[t.right[m]] = m
    /\ t.parent[m] # NULL => \/ t.left[t.parent[m]] = m
                             \/ t.right[t.parent[m]] = m

\* The nodes are those below the root, the one node without a parent.
Rooted(t, N, S) ==
  /\ S[t.root] = N
  /\ t.root # NULL => t.parent[t.root] = NULL
  /\ \A m \in N : t.parent[m] = NULL => m = t.root

\* No pointer leads from a node to what is none, or from there anywhere.
Apart(t, N, S) ==
  /\ \A m \in N : S[m] \subseteq N
  /\ \A m \in Keys \ N :
       t.left[m] = NULL /\ t.right[m] = NULL /\ t.parent[m] = NULL

\* t is a search tree of the nodes N, with the subtrees S.
Shape(t, N, S) ==
  /\ t \in Tree /\ N \in SUBSET Keys /\ IsFiniteSet(N)
  /\ Covers(t, S) /\ Ordered(t, S) /\ Linked(t) /\ Rooted(t, N, S)
  /\ Apart(t, N, S)

\* NULL names no node.
LEMMA NullIsNoKey == NULL \notin Keys
BY NullAssumption

\* What every leaf below needs to know of the pointers.
LEMMA Pointers ==
  ASSUME NEW t, NEW N, NEW S, Shape(t, N, S)
  PROVE  /\ \A m \in Keys : /\ t.left[m] \in Pointer /\ t.right[m] \in Pointer
                            /\ t.parent[m] \in Pointer
                            /\ m \in S[m] /\ m \in Int
                            /\ S[t.left[m]] \subseteq S[m]
                            /\ S[t.right[m]] \subseteq S[m]
                            /\ m \notin S[t.left[m]] /\ m \notin S[t.right[m]]
         /\ t.root \in Pointer
         /\ \A m \in Pointer : S[m] \in SUBSET Keys
         /\ \A m \in N : /\ m \in Keys /\ t.left[m] \in N \cup {NULL}
                         /\ t.right[m] \in N \cup {NULL}
                         /\ t.parent[m] \in N \cup {NULL}
<1> USE NullIsNoKey, KeysAssumption
<1>1. /\ \A m \in Keys : /\ t.left[m] \in Pointer /\ t.right[m] \in Pointer
                         /\ t.parent[m] \in Pointer
      /\ t.root \in Pointer
  BY DEF Shape, Tree
<1>2. \A m \in Pointer : S[m] \in SUBSET Keys
  BY DEF Shape, Covers
<1>3. \A m \in Keys : /\ m \in S[m] /\ m \in Int
                      /\ S[t.left[m]] \subseteq S[m]
                      /\ S[t.right[m]] \subseteq S[m]
  BY <1>1, <1>2 DEF Shape, Covers
<1>4. \A m \in Keys : m \notin S[t.left[m]] /\ m \notin S[t.right[m]]
  BY <1>1, <1>2, <1>3 DEF Shape, Ordered
<1>5. \A m \in N : m \in Keys
  BY DEF Shape
<1>6. ASSUME NEW m \in N
      PROVE  /\ t.left[m] \in N \cup {NULL} /\ t.right[m] \in N \cup {NULL}
             /\ t.parent[m] \in N \cup {NULL}
  <2>1. /\ t.left[m] # NULL => t.left[m] \in Keys /\ t.parent[t.left[m]] = m
        /\ t.right[m] # NULL => t.right[m] \in Keys /\ t.parent[t.right[m]] = m
        /\ t.parent[m] # NULL => /\ t.parent[m] \in Keys
                                 /\ m \in {t.left[t.parent[m]],
                                          t.right[t.parent[m]]}
    BY <1>1, <1>5 DEF Shape, Linked, Pointer
  <2>2. \A j \in Keys \ N :
          t.left[j] = NULL /\ t.right[j] = NULL /\ t.parent[j] = NULL
    BY DEF Shape, Apart
  <2>3. m \in Keys /\ m # NULL
    BY <1>5
  <2>4. t.left[m] \in N \cup {NULL}
    BY <2>1, <2>2, <2>3
  <2>5. t.right[m] \in N \cup {NULL}
    BY <2>1, <2>2, <2>3
  <2>6. t.parent[m] \in N \cup {NULL}
    BY <2>1, <2>2, <2>3
  <2> QED
    BY <2>4, <2>5, <2>6
<1> QED
  BY <1>1, <1>2, <1>3, <1>4, <1>5, <1>6

\* Structural induction: of some nodes there is one with no child among them.
LEMMA Lowest ==
  ASSUME NEW t, NEW N, NEW S, Shape(t, N, S), NEW D \in SUBSET Keys, D # {}
  PROVE  \E d \in D : t.left[d] \notin D /\ t.right[d] \notin D
<1> USE NullIsNoKey
<1>1. ASSUME NEW m \in Keys
      PROVE  IsFiniteSet(S[m]) /\ Cardinality(S[m]) \in Nat
  <2>1. S[m] \subseteq N \cup {m}
    <3>1. CASE m \in N
      BY <3>1 DEF Shape, Apart
    <3>2. CASE m \notin N
      BY <3>2 DEF Shape, Apart, Covers
    <3> QED
      BY <3>1, <3>2
  <2>2. IsFiniteSet(N \cup {m})
    BY FS_AddElement DEF Shape
  <2> QED
    BY <2>1, <2>2, FS_Subset, FS_CardinalityType
<1>2. ASSUME NEW m \in Keys, NEW c \in Keys,
             c = t.left[m] \/ c = t.right[m]
      PROVE  Cardinality(S[c]) < Cardinality(S[m])
  <2>1. S[c] \subseteq S[m] \ {m} /\ m \in S[m]
    BY <1>2, Pointers
  <2>2. /\ IsFiniteSet(S[m] \ {m})
        /\ Cardinality(S[m] \ {m}) = Cardinality(S[m]) - 1
    BY <1>1, <2>1, FS_RemoveElement
  <2>3. Cardinality(S[c]) <= Cardinality(S[m] \ {m})
    BY <2>1, <2>2, FS_Subset
  <2> QED
    BY <1>1, <2>2, <2>3
<1> DEFINE sizes == {Cardinality(S[d]) : d \in D}
<1>3. PICK n \in sizes : \A i \in sizes : n <= i
  <2>1. sizes \in SUBSET Nat /\ sizes # {}
    BY <1>1
  <2> HIDE DEF sizes
  <2> QED
    BY <2>1, LeastOf
<1>4. PICK d \in D : n = Cardinality(S[d])
  OBVIOUS
<1>5. ASSUME NEW c \in D, c = t.left[d] \/ c = t.right[d]
      PROVE  FALSE
  <2>1. Cardinality(S[d]) <= Cardinality(S[c])
    BY <1>3, <1>4
  <2>2. Cardinality(S[c]) < Cardinality(S[d])
    BY <1>2, <1>5
  <2> QED
    BY <1>1, <2>1, <2>2
<1> QED
  BY <1>5

\* The subtrees of the nodes below a node are within its own.
LEMMA Within ==
  ASSUME NEW t, NEW N, NEW S, Shape(t, N, S), NEW a \in Keys, NEW m \in S[a]
  PROVE  S[m] \subseteq S[a]
<1> USE NullIsNoKey
<1> DEFINE D == {d \in Keys : \E i \in S[d] : ~(S[i] \subseteq S[d])}
<1>1. ASSUME D # {} PROVE FALSE
  <2>1. PICK d \in D : t.left[d] \notin D /\ t.right[d] \notin D
    <3>1. D \in SUBSET Keys
      OBVIOUS
    <3> HIDE DEF D
    <3> QED
      BY <1>1, <3>1, Lowest
  <2>2. PICK i \in S[d] : ~(S[i] \subseteq S[d])
    OBVIOUS
  <2>3. i \in S[t.left[d]] \/ i \in S[t.right[d]]
    BY <2>2 DEF Shape, Covers
  <2>4. /\ t.left[d] \in Pointer /\ t.right[d] \in Pointer
        /\ S[t.left[d]] \subseteq S[d] /\ S[t.right[d]] \subseteq S[d]
        /\ S[NULL] = {}
    BY Pointers DEF Shape, Covers
  <2>5. CASE i \in S[t.left[d]]
    <3>1. t.left[d] \in Keys
      BY <2>4, <2>5 DEF Pointer
    <3> QED
      BY <2>1, <2>2, <2>4, <2>5, <3>1
  <2>6. CASE i \in S[t.right[d]]
    <3>1. t.right[d] \in Keys
      BY <2>4, <2>6 DEF Pointer
    <3> QED
      BY <2>1, <2>2, <2>4, <2>6, <3>1
  <2> QED
    BY <2>3, <2>5, <2>6
<1> QED
  BY <1>1

\* A node that is not the top of a subtree has its parent there too.
LEMMA ParentWithin ==
  ASSUME NEW t, NEW N, NEW S, Shape(t, N, S), NEW a \in Keys, NEW m \in S[a],
         m # a
  PROVE  t.parent[m] \in S[a]
<1> USE NullIsNoKey
<1> DEFINE D == {d \in Keys : \E i \in S[d] : i # d /\ t.parent[i] \notin S[d]}
<1>1. ASSUME D # {} PROVE FALSE
  <2>1. PICK d \in D : t.left[d] \notin D /\ t.right[d] \notin D
    <3>1. D \in SUBSET Keys
      OBVIOUS
    <3> HIDE DEF D
    <3> QED
      BY <1>1, <3>1, Lowest
  <2>2. PICK i \in S[d] : i # d /\ t.parent[i] \notin S[d]
    OBVIOUS
  <2>3. i \in S[t.left[d]] \/ i \in S[t.right[d]]
    BY <2>2 DEF Shape, Covers
  <2>4. /\ t.left[d] \in Pointer /\ t.right[d] \in Pointer
        /\ S[t.left[d]] \subseteq S[d] /\ S[t.right[d]] \subseteq S[d]
        /\ S[NULL] = {} /\ d \in S[d]
    BY Pointers DEF Shape, Covers
  <2>5. CASE i \in S[t.left[d]]
    <3>1. t.left[d] \in Keys /\ t.parent[t.left[d]] = d
      BY <2>4, <2>5 DEF Pointer, Shape, Linked
    <3> QED
      BY <2>1, <2>2, <2>4, <2>5, <3>1
  <2>6. CASE i \in S[t.right[d]]
    <3>1. t.right[d] \in Keys /\ t.parent[t.right[d]] = d
      BY <2>4, <2>6 DEF Pointer, Shape, Linked
    <3> QED
      BY <2>1, <2>2, <2>4, <2>6, <3>1
  <2> QED
    BY <2>3, <2>5, <2>6
<1> QED
  BY <1>1

\* The two subtrees of a node share nothing, and no two nodes are below one
\* another.
LEMMA Sides ==
  ASSUME NEW t, NEW N, NEW S, Shape(t, N, S), NEW m \in Keys
  PROVE  /\ \A i \in S[t.left[m]] : i \notin S[t.right[m]]
         /\ \A a \in S[m] : m \in S[a] => a = m
<1> USE NullIsNoKey
<1>1. /\ t.left[m] \in Pointer /\ t.right[m] \in Pointer
      /\ S[t.left[m]] \in SUBSET Keys /\ S[t.right[m]] \in SUBSET Keys
      /\ m \notin S[t.left[m]] /\ m \notin S[t.right[m]] /\ S[NULL] = {}
  BY Pointers DEF Shape, Covers
<1>2. ASSUME NEW i \in S[t.left[m]], i \in S[t.right[m]] PROVE FALSE
  <2>1. i < m /\ i > m
    BY <1>2 DEF Shape, Ordered
  <2>2. i \in Int /\ m \in Int
    BY <1>1, KeysAssumption
  <2> QED
    BY <2>1, <2>2
<1>3. ASSUME NEW a \in S[m], m \in S[a], a # m PROVE FALSE
  <2>1. a \in S[t.left[m]] \/ a \in S[t.right[m]]
    BY <1>3 DEF Shape, Covers
  <2>2. CASE a \in S[t.left[m]]
    <3>1. t.left[m] \in Keys
      BY <1>1, <2>2 DEF Pointer
    <3> QED
      BY <1>1, <1>3, <2>2, <3>1, Within
  <2>3. CASE a \in S[t.right[m]]
    <3>1. t.right[m] \in Keys
      BY <1>1, <2>3 DEF Pointer
    <3> QED
      BY <1>1, <1>3, <2>3, <3>1, Within
  <2> QED
    BY <2>1, <2>2, <2>3
<1> QED
  BY <1>2, <1>3

\* The recursive definition has one solution, so S is what it defines.
LEMMA SubtreesAre ==
  ASSUME NEW t, NEW N, NEW S, Shape(t, N, S)
  PROVE  Subtrees(t) = S
<1> USE NullIsNoKey
<1> DEFINE Solves(f) ==
      f = [m \in Pointer |-> IF m = NULL THEN {}
                             ELSE {m} \cup f[t.left[m]] \cup f[t.right[m]]]
           sub == CHOOSE f : Solves(f)
<1>1. Subtrees(t) = sub
  BY DEF Subtrees
<1>2. Solves(S)
  <2>1. S = [m \in Pointer |-> S[m]]
    BY DEF Shape, Covers
  <2>2. \A m \in Pointer : S[m] = IF m = NULL THEN {}
                                  ELSE {m} \cup S[t.left[m]] \cup S[t.right[m]]
    BY DEF Shape, Covers, Pointer
  <2> QED
    BY <2>1, <2>2
<1>3. Solves(sub)
  <2> HIDE DEF Solves
  <2> QED
    BY <1>2
<1> HIDE DEF sub
<1>4. /\ sub = [m \in Pointer |-> sub[m]]
      /\ \A m \in Pointer : sub[m] = IF m = NULL THEN {}
                            ELSE {m} \cup sub[t.left[m]] \cup sub[t.right[m]]
  BY <1>3
<1> HIDE DEF Solves
<1> DEFINE D == {d \in Keys : sub[d] # S[d]}
<1>5. ASSUME D # {} PROVE FALSE
  <2>1. PICK d \in D : t.left[d] \notin D /\ t.right[d] \notin D
    <3>1. D \in SUBSET Keys
      OBVIOUS
    <3> HIDE DEF D
    <3> QED
      BY <1>5, <3>1, Lowest
  <2>2. t.left[d] \in Pointer /\ t.right[d] \in Pointer
    BY Pointers
  <2>3. sub[t.left[d]] = S[t.left[d]] /\ sub[t.right[d]] = S[t.right[d]]
    BY <1>4, <2>1, <2>2 DEF Pointer, Shape, Covers
  <2>4. sub[d] = {d} \cup sub[t.left[d]] \cup sub[t.right[d]]
    BY <1>4 DEF Pointer
  <2>5. S[d] = {d} \cup S[t.left[d]] \cup S[t.right[d]]
    BY DEF Shape, Covers
  <2> QED
    BY <2>3, <2>4, <2>5
<1>6. \A m \in Pointer : sub[m] = S[m]
  BY <1>4, <1>5 DEF Pointer, Shape, Covers
<1>7. S = [m \in Pointer |-> S[m]]
  BY DEF Shape, Covers
<1> QED
  BY <1>1, <1>4, <1>6, <1>7

\* The pointers that HangLeft sets.
LEMMA HangLeftIs ==
  ASSUME NEW t \in Tree, NEW u \in Keys, NEW v \in Pointer
  PROVE  LET h == HangLeft(t, u, v)
         IN /\ h \in Tree /\ h.root = t.root
            /\ \A m \in Keys :
                 /\ h.left[m] = IF m = u THEN v ELSE t.left[m]
                 /\ h.right[m] = t.right[m]
                 /\ h.parent[m] = IF m = v THEN u ELSE t.parent[m]
<1> USE NullIsNoKey
<1> DEFINE hung == [t EXCEPT !.left[u] = v]
           both == [hung EXCEPT !.parent[v] = u]
<1>1. /\ hung \in Tree /\ hung.root = t.root
      /\ hung.right = t.right /\ hung.parent = t.parent
      /\ \A m \in Keys : hung.left[m] = IF m = u THEN v ELSE t.left[m]
  BY DEF Tree
<1> HIDE DEF hung
<1>2. ASSUME v # NULL
      PROVE  /\ both \in Tree /\ both.root = hung.root
             /\ both.right = hung.right /\ both.left = hung.left
             /\ \A m \in Keys :
                  both.parent[m] = IF m = v THEN u ELSE hung.parent[m]
  <2>1. v \in Keys /\ u \in Pointer
    BY <1>2 DEF Pointer
  <2> QED
    BY <1>1, <2>1 DEF Tree
<1>3. HangLeft(t, u, v) = IF v = NULL THEN hung ELSE both
  BY DEF HangLeft, hung
<1> HIDE DEF both
<1>4. CASE v = NULL
  BY <1>1, <1>3, <1>4
<1>5. CASE v # NULL
  BY <1>1, <1>2, <1>3, <1>5
<1> QED
  BY <1>4, <1>5

\* The pointers that HangRight sets.
LEMMA HangRightIs ==
  ASSUME NEW t \in Tree, NEW u \in Keys, NEW v \in Pointer
  PROVE  LET h == HangRight(t, u, v)
         IN /\ h \in Tree /\ h.root = t.root
            /\ \A m \in Keys :
                 /\ h.right[m] = IF m = u THEN v ELSE t.right[m]
                 /\ h.left[m] = t.left[m]
                 /\ h.parent[m] = IF m = v THEN u ELSE t.parent[m]
<1> USE NullIsNoKey
<1> DEFINE hung == [t EXCEPT !.right[u] = v]
           both == [hung EXCEPT !.parent[v] = u]
<1>1. /\ hung \in Tree /\ hung.root = t.root
      /\ hung.left = t.left /\ hung.parent = t.parent
      /\ \A m \in Keys : hung.right[m] = IF m = u THEN v ELSE t.right[m]
  BY DEF Tree
<1> HIDE DEF hung
<1>2. ASSUME v # NULL
      PROVE  /\ both \in Tree /\ both.root = hung.root
             /\ both.left = hung.left /\ both.right = hung.right
             /\ \A m \in Keys :
                  both.parent[m] = IF m = v THEN u ELSE hung.parent[m]
  <2>1. v \in Keys /\ u \in Pointer
    BY <1>2 DEF Pointer
  <2> QED
    BY <1>1, <2>1 DEF Tree
<1>3. HangRight(t, u, v) = IF v = NULL THEN hung ELSE both
  BY DEF HangRight, hung
<1> HIDE DEF both
<1>4. CASE v = NULL
  BY <1>1, <1>3, <1>4
<1>5. CASE v # NULL
  BY <1>1, <1>2, <1>3, <1>5
<1> QED
  BY <1>4, <1>5

\* The pointers that replace sets.
LEMMA ReplaceIs ==
  ASSUME NEW t \in Tree, NEW u \in Keys, NEW v \in Pointer
  PROVE  LET p == t.parent[u]
             r == replace(t, u, v)
         IN /\ r \in Tree /\ r.root = IF p = NULL THEN v ELSE t.root
            /\ \A m \in Keys :
                 /\ r.left[m] = IF m = p /\ t.left[p] = u THEN v ELSE t.left[m]
                 /\ r.right[m] = IF m = p /\ t.left[p] # u THEN v
                                 ELSE t.right[m]
                 /\ r.parent[m] = IF m = v THEN p ELSE t.parent[m]
<1> USE NullIsNoKey
<1> DEFINE p == t.parent[u]
           placed == CASE p = NULL -> [t EXCEPT !.root = v]
                       [] p # NULL /\ u = t.left[p] -> [t EXCEPT !.left[p] = v]
                       [] p # NULL /\ u # t.left[p] -> [t EXCEPT !.right[p] = v]
           both == [placed EXCEPT !.parent[v] = p]
<1>1. p \in Pointer
  BY DEF Tree
<1>2. /\ placed \in Tree
      /\ placed.root = IF p = NULL THEN v ELSE t.root
      /\ placed.parent = t.parent
      /\ \A m \in Keys :
           /\ placed.left[m] = IF m = p /\ t.left[p] = u THEN v ELSE t.left[m]
           /\ placed.right[m] = IF m = p /\ t.left[p] # u THEN v ELSE t.right[m]
  <2>1. CASE p = NULL
    <3>1. placed = [t EXCEPT !.root = v]
      BY <2>1
    <3> HIDE DEF placed
    <3> QED
      BY <2>1, <3>1 DEF Tree
  <2>2. CASE p # NULL /\ u = t.left[p]
    <3>1. placed = [t EXCEPT !.left[p] = v] /\ p \in Keys
      BY <1>1, <2>2 DEF Pointer
    <3> HIDE DEF placed, p
    <3> QED
      BY <2>2, <3>1 DEF Tree
  <2>3. CASE p # NULL /\ u # t.left[p]
    <3>1. placed = [t EXCEPT !.right[p] = v] /\ p \in Keys
      BY <1>1, <2>3 DEF Pointer
    <3> HIDE DEF placed, p
    <3> QED
      BY <2>3, <3>1 DEF Tree
  <2> QED
    BY <2>1, <2>2, <2>3
<1> HIDE DEF placed
<1>3. ASSUME v # NULL
      PROVE  /\ both \in Tree /\ both.root = placed.root
             /\ both.right = placed.right /\ both.left = placed.left
             /\ \A m \in Keys :
                  both.parent[m] = IF m = v THEN p ELSE placed.parent[m]
  <2>1. v \in Keys
    BY <1>3 DEF Pointer
  <2> HIDE DEF p
  <2> QED
    BY <1>1, <1>2, <2>1 DEF Tree
<1>4. replace(t, u, v) = IF v = NULL THEN placed ELSE both
  BY Zenon DEF replace, placed
<1> HIDE DEF both, p
<1>5. CASE v = NULL
  BY <1>2, <1>4, <1>5 DEF p
<1>6. CASE v # NULL
  BY <1>2, <1>3, <1>4, <1>6 DEF p
<1> QED
  BY <1>5, <1>6

\* The pointers after left_rotate.
LEMMA LeftRotated ==
  ASSUME NEW t, NEW N, NEW S, Shape(t, N, S), NEW u \in N, t.right[u] # NULL
  PROVE  LET y == t.right[u]
             r == left_rotate(t, u)
         IN /\ r \in Tree /\ r.root = IF t.root = u THEN y ELSE t.root
            /\ \A m \in Keys :
                 /\ r.left[m] = IF m = y THEN u
                                ELSE IF t.left[m] = u THEN y ELSE t.left[m]
                 /\ r.right[m] = IF m = u THEN t.left[y]
                                 ELSE IF t.right[m] = u THEN y ELSE t.right[m]
                 /\ r.parent[m] = IF m = u THEN y
                                  ELSE IF m = y THEN t.parent[u]
                                  ELSE IF m = t.left[y] THEN u
                                  ELSE t.parent[m]
<1> USE NullIsNoKey
<1> DEFINE y == t.right[u]
           c == t.left[y]
           p == t.parent[u]
           h == HangRight(t, u, c)
           r == replace(h, u, y)
           z == HangLeft(r, y, u)
<1>1. /\ u \in Keys /\ y \in Keys /\ c \in Pointer /\ p \in Pointer /\ t \in Tree
      /\ \A m \in Keys : t.left[m] \in Pointer /\ t.right[m] \in Pointer
  <2>1. u \in Keys /\ t \in Tree
    BY DEF Shape
  <2>2. y \in Keys
    BY <2>1 DEF Tree, Pointer
  <2> QED
    BY <2>1, <2>2 DEF Tree
<1>2. /\ t.parent[y] = u
      /\ c # NULL => t.parent[c] = y
      /\ p # NULL => t.left[p] = u \/ t.right[p] = u
      /\ \A m \in Keys : t.left[m] = u \/ t.right[m] = u => m = p
      /\ \A m \in Keys : ~(t.left[m] = u /\ t.right[m] = u)
  <2>1. ASSUME NEW m \in Keys, t.left[m] = u, t.right[m] = u PROVE FALSE
    <3>1. u \in S[t.left[m]] /\ u \in S[t.right[m]]
      BY <1>1, <2>1, Pointers
    <3> QED
      BY <3>1, Sides
  <2> QED
    BY <1>1, <2>1 DEF Shape, Linked, Pointer
<1>3. /\ t.root = u => p = NULL
      /\ p = NULL => t.root = u
  BY <1>1 DEF Shape, Rooted
<1>4. u # y /\ c # u /\ c # y /\ p # u /\ p # y
  <2>1. \A m \in Keys : t.left[m] # m /\ t.right[m] # m
    BY <1>1, Pointers
  <2>2. y \in S[u] /\ u \notin S[y]
    <3>1. y \in S[u]
      BY <1>1, Pointers
    <3> QED
      BY <1>1, <2>1, <3>1, Sides
  <2>3. t.left[y] # u /\ t.right[y] # u
    BY <1>1, <2>2, Pointers
  <2>4. p # y /\ p # u
    BY <1>1, <1>2, <2>1, <2>3
  <2> QED
    BY <1>1, <2>1, <2>3, <2>4
<1>5. /\ h \in Tree /\ h.root = t.root
      /\ \A m \in Keys :
           /\ h.right[m] = IF m = u THEN c ELSE t.right[m]
           /\ h.left[m] = t.left[m]
           /\ h.parent[m] = IF m = c THEN u ELSE t.parent[m]
  <2> HIDE DEF c
  <2> QED
    BY <1>1, HangRightIs
<1>6. left_rotate(t, u) = z
  BY Zenon DEF left_rotate
<1> HIDE DEF h
<1>7. h.parent[u] = p
  BY <1>1, <1>4, <1>5
<1>8. p # NULL => (h.left[p] = u <=> t.left[p] = u)
  BY <1>1, <1>2, <1>4, <1>5 DEF Pointer
<1>9. /\ r \in Tree /\ r.root = IF p = NULL THEN y ELSE t.root
      /\ \A m \in Keys :
           /\ r.left[m] = IF m = p /\ h.left[p] = u THEN y ELSE h.left[m]
           /\ r.right[m] = IF m = p /\ h.left[p] # u THEN y ELSE h.right[m]
           /\ r.parent[m] = IF m = y THEN p ELSE h.parent[m]
  <2> HIDE DEF y, p, r
  <2>1. y \in Pointer
    BY <1>1 DEF Pointer
  <2>2. /\ r \in Tree /\ r.root = IF h.parent[u] = NULL THEN y ELSE h.root
        /\ \A m \in Keys :
             /\ r.left[m] = IF m = h.parent[u] /\ h.left[h.parent[u]] = u THEN y
                            ELSE h.left[m]
             /\ r.right[m] = IF m = h.parent[u] /\ h.left[h.parent[u]] # u THEN y
                             ELSE h.right[m]
             /\ r.parent[m] = IF m = y THEN h.parent[u] ELSE h.parent[m]
    BY <1>1, <1>5, <2>1, ReplaceIs DEF r
  <2> QED
    BY <1>5, <1>7, <2>2, Zenon
<1> HIDE DEF r
<1>10. /\ z \in Tree /\ z.root = r.root
       /\ \A m \in Keys :
            /\ z.left[m] = IF m = y THEN u ELSE r.left[m]
            /\ z.right[m] = r.right[m]
            /\ z.parent[m] = IF m = u THEN y ELSE r.parent[m]
  <2> HIDE DEF y, p
  <2>1. u \in Pointer
    BY <1>1 DEF Pointer
  <2> QED
    BY <1>1, <1>9, <2>1, HangLeftIs
<1> HIDE DEF z, y, c, p
<1>11. z.root = IF t.root = u THEN y ELSE t.root
  BY <1>3, <1>9, <1>10
<1>12. ASSUME NEW m \in Keys
       PROVE  /\ z.left[m] = IF m = y THEN u
                             ELSE IF t.left[m] = u THEN y ELSE t.left[m]
              /\ z.parent[m] = IF m = u THEN y ELSE IF m = y THEN p
                               ELSE IF m = c THEN u ELSE t.parent[m]
  BY <1>1, <1>2, <1>4, <1>5, <1>8, <1>9, <1>10
<1>13. ASSUME NEW m \in Keys
       PROVE  z.right[m] = IF m = u THEN c
                           ELSE IF t.right[m] = u THEN y ELSE t.right[m]
  BY <1>1, <1>2, <1>4, <1>5, <1>8, <1>9, <1>10
<1> QED
  BY <1>6, <1>10, <1>11, <1>12, <1>13 DEF y, c, p

\* The pointers after right_rotate.
LEMMA RightRotated ==
  ASSUME NEW t, NEW N, NEW S, Shape(t, N, S), NEW u \in N, t.left[u] # NULL
  PROVE  LET y == t.left[u]
             r == right_rotate(t, u)
         IN /\ r \in Tree /\ r.root = IF t.root = u THEN y ELSE t.root
            /\ \A m \in Keys :
                 /\ r.right[m] = IF m = y THEN u
                                ELSE IF t.right[m] = u THEN y ELSE t.right[m]
                 /\ r.left[m] = IF m = u THEN t.right[y]
                                 ELSE IF t.left[m] = u THEN y ELSE t.left[m]
                 /\ r.parent[m] = IF m = u THEN y
                                  ELSE IF m = y THEN t.parent[u]
                                  ELSE IF m = t.right[y] THEN u
                                  ELSE t.parent[m]
<1> USE NullIsNoKey
<1> DEFINE y == t.left[u]
           c == t.right[y]
           p == t.parent[u]
           h == HangLeft(t, u, c)
           r == replace(h, u, y)
           z == HangRight(r, y, u)
<1>1. /\ u \in Keys /\ y \in Keys /\ c \in Pointer /\ p \in Pointer /\ t \in Tree
      /\ \A m \in Keys : t.right[m] \in Pointer /\ t.left[m] \in Pointer
  <2>1. u \in Keys /\ t \in Tree
    BY DEF Shape
  <2>2. y \in Keys
    BY <2>1 DEF Tree, Pointer
  <2> QED
    BY <2>1, <2>2 DEF Tree
<1>2. /\ t.parent[y] = u
      /\ c # NULL => t.parent[c] = y
      /\ p # NULL => t.right[p] = u \/ t.left[p] = u
      /\ \A m \in Keys : t.right[m] = u \/ t.left[m] = u => m = p
      /\ \A m \in Keys : ~(t.right[m] = u /\ t.left[m] = u)
  <2>1. ASSUME NEW m \in Keys, t.right[m] = u, t.left[m] = u PROVE FALSE
    <3>1. u \in S[t.right[m]] /\ u \in S[t.left[m]]
      BY <1>1, <2>1, Pointers
    <3> QED
      BY <3>1, Sides
  <2> QED
    BY <1>1, <2>1 DEF Shape, Linked, Pointer
<1>3. /\ t.root = u => p = NULL
      /\ p = NULL => t.root = u
  BY <1>1 DEF Shape, Rooted
<1>4. u # y /\ c # u /\ c # y /\ p # u /\ p # y
  <2>1. \A m \in Keys : t.right[m] # m /\ t.left[m] # m
    BY <1>1, Pointers
  <2>2. y \in S[u] /\ u \notin S[y]
    <3>1. y \in S[u]
      BY <1>1, Pointers
    <3> QED
      BY <1>1, <2>1, <3>1, Sides
  <2>3. t.right[y] # u /\ t.left[y] # u
    BY <1>1, <2>2, Pointers
  <2>4. p # y /\ p # u
    BY <1>1, <1>2, <2>1, <2>3
  <2> QED
    BY <1>1, <2>1, <2>3, <2>4
<1>5. /\ h \in Tree /\ h.root = t.root
      /\ \A m \in Keys :
           /\ h.left[m] = IF m = u THEN c ELSE t.left[m]
           /\ h.right[m] = t.right[m]
           /\ h.parent[m] = IF m = c THEN u ELSE t.parent[m]
  <2> HIDE DEF c
  <2> QED
    BY <1>1, HangLeftIs
<1>6. right_rotate(t, u) = z
  BY Zenon DEF right_rotate
<1> HIDE DEF h
<1>7. h.parent[u] = p
  BY <1>1, <1>4, <1>5
<1>8. p # NULL => (h.left[p] = u <=> t.left[p] = u)
  BY <1>1, <1>2, <1>4, <1>5 DEF Pointer
<1>9. /\ r \in Tree /\ r.root = IF p = NULL THEN y ELSE t.root
      /\ \A m \in Keys :
           /\ r.left[m] = IF m = p /\ h.left[p] = u THEN y ELSE h.left[m]
           /\ r.right[m] = IF m = p /\ h.left[p] # u THEN y ELSE h.right[m]
           /\ r.parent[m] = IF m = y THEN p ELSE h.parent[m]
  <2> HIDE DEF y, p, r
  <2>1. y \in Pointer
    BY <1>1 DEF Pointer
  <2>2. /\ r \in Tree /\ r.root = IF h.parent[u] = NULL THEN y ELSE h.root
        /\ \A m \in Keys :
             /\ r.left[m] = IF m = h.parent[u] /\ h.left[h.parent[u]] = u THEN y
                            ELSE h.left[m]
             /\ r.right[m] = IF m = h.parent[u] /\ h.left[h.parent[u]] # u THEN y
                             ELSE h.right[m]
             /\ r.parent[m] = IF m = y THEN h.parent[u] ELSE h.parent[m]
    BY <1>1, <1>5, <2>1, ReplaceIs DEF r
  <2> QED
    BY <1>5, <1>7, <2>2, Zenon
<1> HIDE DEF r
<1>10. /\ z \in Tree /\ z.root = r.root
       /\ \A m \in Keys :
            /\ z.right[m] = IF m = y THEN u ELSE r.right[m]
            /\ z.left[m] = r.left[m]
            /\ z.parent[m] = IF m = u THEN y ELSE r.parent[m]
  <2> HIDE DEF y, p
  <2>1. u \in Pointer
    BY <1>1 DEF Pointer
  <2> QED
    BY <1>1, <1>9, <2>1, HangRightIs
<1> HIDE DEF z, y, c, p
<1>11. z.root = IF t.root = u THEN y ELSE t.root
  BY <1>3, <1>9, <1>10
<1>12. ASSUME NEW m \in Keys
       PROVE  /\ z.right[m] = IF m = y THEN u
                             ELSE IF t.right[m] = u THEN y ELSE t.right[m]
              /\ z.parent[m] = IF m = u THEN y ELSE IF m = y THEN p
                               ELSE IF m = c THEN u ELSE t.parent[m]
  BY <1>1, <1>2, <1>4, <1>5, <1>8, <1>9, <1>10
<1>13. ASSUME NEW m \in Keys
       PROVE  z.left[m] = IF m = u THEN c
                           ELSE IF t.left[m] = u THEN y ELSE t.left[m]
  BY <1>1, <1>2, <1>4, <1>5, <1>8, <1>9, <1>10
<1> QED
  BY <1>6, <1>10, <1>11, <1>12, <1>13 DEF y, c, p

\* The subtrees after left_rotate: u loses its right child y and what is
\* right of y, and y gains u's subtree.
LeftTurned(t, S, u) ==
  [m \in Pointer |->
     IF m = t.right[u] THEN S[u]
     ELSE IF m = u THEN {u} \cup S[t.left[u]] \cup S[t.left[t.right[u]]]
     ELSE S[m]]

\* left_rotate keeps the search tree.
LEMMA LeftRotationShape ==
  ASSUME NEW t, NEW N, NEW S, Shape(t, N, S), NEW u \in N, t.right[u] # NULL
  PROVE  Shape(left_rotate(t, u), N, LeftTurned(t, S, u))
<1> USE NullIsNoKey
<1> DEFINE y == t.right[u]
           r == left_rotate(t, u)
           R == LeftTurned(t, S, u)
<1>1. /\ u \in Keys /\ y \in Keys
      /\ \A m \in Keys : /\ t.left[m] \in Pointer /\ t.right[m] \in Pointer
                         /\ t.parent[m] \in Pointer
      /\ t.root \in Pointer
  <2>1. u \in Keys /\ u \in N
    BY DEF Shape
  <2> QED
    BY <2>1, Pointers DEF Pointer
<1>2. /\ r \in Tree /\ r.root = IF t.root = u THEN y ELSE t.root
      /\ \A m \in Keys :
           /\ r.left[m] = IF m = y THEN u
                          ELSE IF t.left[m] = u THEN y ELSE t.left[m]
           /\ r.right[m] = IF m = u THEN t.left[y]
                           ELSE IF t.right[m] = u THEN y ELSE t.right[m]
           /\ r.parent[m] = IF m = u THEN y ELSE IF m = y THEN t.parent[u]
                            ELSE IF m = t.left[y] THEN u ELSE t.parent[m]
  BY LeftRotated
<1>3. /\ \A m \in Pointer : S[m] \in SUBSET Keys
      /\ S[NULL] = {}
      /\ \A m \in Keys : S[m] = {m} \cup S[t.left[m]] \cup S[t.right[m]]
  BY DEF Shape, Covers
<1>4. /\ \A m \in Keys : /\ t.left[m] # NULL => t.parent[t.left[m]] = m
                         /\ t.right[m] # NULL => t.parent[t.right[m]] = m
      /\ \A m \in Keys : m \notin S[t.left[m]] /\ m \notin S[t.right[m]]
      /\ \A m \in Keys : t.left[m] # m /\ t.right[m] # m
      /\ \A m \in Keys : t.left[m] # NULL => t.left[m] # t.right[m]
  <2>1. ASSUME NEW m \in Keys, t.left[m] # NULL, t.left[m] = t.right[m]
        PROVE  FALSE
    <3>1. t.left[m] \in S[t.left[m]]
      BY <1>1, <2>1, Pointers DEF Pointer
    <3> QED
      BY <2>1, <3>1, Sides
  <2> QED
    BY <2>1, Pointers DEF Shape, Linked
<1>5. t.left[y] # u /\ t.right[y] # u /\ t.parent[y] = u
  <2>1. y \in S[u]
    BY <1>1, Pointers
  <2>2. u \notin S[y]
    BY <1>1, <1>4, <2>1, Sides
  <2> QED
    BY <1>1, <1>4, <2>2, Pointers
<1>6. /\ R \in [Pointer -> SUBSET Keys]
      /\ R[y] = S[u] /\ R[u] = {u} \cup S[t.left[u]] \cup S[t.left[y]]
      /\ \A m \in Pointer : m # y /\ m # u => R[m] = S[m]
  <2>1. u # y
    BY <1>1, <1>4
  <2>2. {u} \cup S[t.left[u]] \cup S[t.left[y]] \in SUBSET Keys
    BY <1>1, <1>3
  <2> QED
    BY <1>1, <1>3, <2>1, <2>2 DEF LeftTurned, Pointer
<1> HIDE DEF R, r
<1>7. /\ R[r.left[u]] = S[t.left[u]] /\ R[r.right[u]] = S[t.left[y]]
      /\ R[r.left[y]] = R[u] /\ R[r.right[y]] = S[t.right[y]]
  <2>1. r.left[u] = t.left[u] /\ r.right[u] = t.left[y] /\ r.left[y] = u
    BY <1>1, <1>2, <1>4
  <2>2. r.right[y] = t.right[y]
    BY <1>1, <1>2, <1>4, <1>5
  <2>3. t.left[u] # u /\ t.left[u] # y /\ t.left[y] # y /\ t.right[y] # y
    BY <1>1, <1>4
  <2> QED
    BY <1>1, <1>5, <1>6, <2>1, <2>2, <2>3
<1>8. ASSUME NEW m \in Keys, m # u, m # y
      PROVE  R[r.left[m]] = S[t.left[m]] /\ R[r.right[m]] = S[t.right[m]]
  <2>1. t.left[m] # y /\ t.right[m] # y
    BY <1>1, <1>4, <1>5, <1>8
  <2>2. CASE t.left[m] = u
    BY <1>1, <1>2, <1>4, <1>6, <1>8, <2>1, <2>2
  <2>3. CASE t.right[m] = u
    BY <1>1, <1>2, <1>4, <1>6, <1>8, <2>1, <2>3
  <2>4. CASE t.left[m] # u /\ t.right[m] # u
    BY <1>1, <1>2, <1>4, <1>6, <1>8, <2>1, <2>4
  <2> QED
    BY <2>2, <2>3, <2>4
<1>9. Covers(r, R)
  <2>1. R[NULL] = {}
    BY <1>1, <1>3, <1>6 DEF Pointer
  <2>2. ASSUME NEW m \in Keys
        PROVE  R[m] = {m} \cup R[r.left[m]] \cup R[r.right[m]]
    <3>1. CASE m = u
      BY <1>6, <1>7, <3>1
    <3>2. CASE m = y
      <4>1. S[u] = {u} \cup S[t.left[u]] \cup S[y]
        BY <1>1, <1>3
      <4>2. S[y] = {y} \cup S[t.left[y]] \cup S[t.right[y]]
        BY <1>1, <1>3
      <4> QED
        BY <1>6, <1>7, <3>2, <4>1, <4>2
    <3>3. CASE m # u /\ m # y
      BY <1>3, <1>6, <1>8, <3>3 DEF Pointer
    <3> QED
      BY <3>1, <3>2, <3>3
  <2> QED
    BY <1>6, <2>1, <2>2 DEF Covers
<1>10. Ordered(r, R)
  <2>1. \A m \in Keys : /\ \A i \in S[t.left[m]] : i < m
                        /\ \A i \in S[t.right[m]] : i > m
    BY DEF Shape, Ordered
  <2>2. ASSUME NEW m \in Keys
        PROVE  /\ \A i \in R[r.left[m]] : i < m
               /\ \A i \in R[r.right[m]] : i > m
    <3>1. CASE m = u
      BY <1>1, <1>3, <1>7, <2>1, <3>1
    <3>2. CASE m = y
      <4>1. u < y
        <5>1. y \in S[t.right[u]] /\ u \in Int /\ y \in Int
          BY <1>1, <1>3, KeysAssumption
        <5> QED
          BY <1>1, <2>1, <5>1
      <4>2. \A i \in S[t.left[u]] : i < u /\ i \in Int
        BY <1>1, <1>3, <2>1, KeysAssumption
      <4>3. ASSUME NEW i \in R[u] PROVE i < y
        <5>1. i = u \/ i \in S[t.left[u]] \/ i \in S[t.left[y]]
          BY <1>6
        <5>2. u \in Int /\ y \in Int
          BY <1>1, KeysAssumption
        <5> QED
          BY <1>1, <2>1, <4>1, <4>2, <5>1, <5>2
      <4> QED
        BY <1>1, <1>7, <2>1, <3>2, <4>3
    <3>3. CASE m # u /\ m # y
      BY <1>8, <2>1, <3>3
    <3> QED
      BY <3>1, <3>2, <3>3
  <2> QED
    BY <2>2 DEF Ordered
<1>11. Linked(r)
  <2>1. \A m \in Keys : t.parent[m] # NULL => \/ t.left[t.parent[m]] = m
                                              \/ t.right[t.parent[m]] = m
    BY DEF Shape, Linked
  <2>2. ASSUME NEW m \in Keys
        PROVE  r.left[m] # NULL => r.parent[r.left[m]] = m
    BY <1>1, <1>2, <1>4, <1>5 DEF Pointer
  <2>3. ASSUME NEW m \in Keys
        PROVE  r.right[m] # NULL => r.parent[r.right[m]] = m
    BY <1>1, <1>2, <1>4, <1>5 DEF Pointer
  <2>4. ASSUME NEW m \in Keys, r.parent[m] # NULL
        PROVE  r.left[r.parent[m]] = m \/ r.right[r.parent[m]] = m
    BY <1>1, <1>2, <1>4, <1>5, <2>1, <2>4 DEF Pointer
  <2> QED
    BY <2>2, <2>3, <2>4 DEF Linked
<1>12. Rooted(r, N, R)
  <2>1. /\ S[t.root] = N
        /\ t.root # NULL => t.parent[t.root] = NULL
        /\ \A m \in N : t.parent[m] = NULL => m = t.root
    BY DEF Shape, Rooted
  <2>2. y # t.root
    BY <1>1, <1>5, <2>1
  <2>3. R[r.root] = N
    BY <1>1, <1>2, <1>6, <2>1, <2>2
  <2>4. r.root # NULL => r.parent[r.root] = NULL
    <3>1. CASE t.root = u
      BY <1>1, <1>2, <1>4, <2>1, <3>1
    <3>2. CASE t.root # u
      <4>1. t.root # NULL => t.root # t.left[y]
        BY <1>1, <1>4, <2>1
      <4> QED
        BY <1>1, <1>2, <2>1, <2>2, <3>2, <4>1 DEF Pointer
    <3> QED
      BY <3>1, <3>2
  <2>5. ASSUME NEW m \in N, r.parent[m] = NULL PROVE m = r.root
    <3>1. m \in Keys
      BY DEF Shape
    <3> QED
      BY <1>1, <1>2, <2>1, <2>5, <3>1
  <2> QED
    BY <2>3, <2>4, <2>5 DEF Rooted
<1>13. Apart(r, N, R)
  <2>1. /\ N \in SUBSET Keys
        /\ \A m \in N : S[m] \subseteq N
        /\ \A m \in Keys \ N :
             t.left[m] = NULL /\ t.right[m] = NULL /\ t.parent[m] = NULL
    BY DEF Shape, Apart
  <2>2. y \in N
    BY <1>1, <2>1, Pointers
  <2>3. R[u] \subseteq N
    BY <1>1, <1>3, <1>6, <2>1, <2>2
  <2>4. ASSUME NEW m \in N PROVE R[m] \subseteq N
    BY <1>6, <2>1, <2>3 DEF Pointer
  <2>5. ASSUME NEW m \in Keys \ N
        PROVE  r.left[m] = NULL /\ r.right[m] = NULL /\ r.parent[m] = NULL
    <3>1. t.left[y] # m
      BY <1>1, <1>4, <2>1
    <3> QED
      BY <1>1, <1>2, <2>1, <2>2, <3>1
  <2> QED
    BY <2>4, <2>5 DEF Apart
<1> QED
  BY <1>2, <1>9, <1>10, <1>11, <1>12, <1>13 DEF Shape, R, r

\* The subtrees after right_rotate, likewise.
RightTurned(t, S, u) ==
  [m \in Pointer |->
     IF m = t.left[u] THEN S[u]
     ELSE IF m = u THEN {u} \cup S[t.right[u]] \cup S[t.right[t.left[u]]]
     ELSE S[m]]

\* right_rotate keeps the search tree.
LEMMA RightRotationShape ==
  ASSUME NEW t, NEW N, NEW S, Shape(t, N, S), NEW u \in N, t.left[u] # NULL
  PROVE  Shape(right_rotate(t, u), N, RightTurned(t, S, u))
<1> USE NullIsNoKey
<1> DEFINE y == t.left[u]
           r == right_rotate(t, u)
           R == RightTurned(t, S, u)
<1>1. /\ u \in Keys /\ y \in Keys
      /\ \A m \in Keys : /\ t.right[m] \in Pointer /\ t.left[m] \in Pointer
                         /\ t.parent[m] \in Pointer
      /\ t.root \in Pointer
  <2>1. u \in Keys /\ u \in N
    BY DEF Shape
  <2> QED
    BY <2>1, Pointers DEF Pointer
<1>2. /\ r \in Tree /\ r.root = IF t.root = u THEN y ELSE t.root
      /\ \A m \in Keys :
           /\ r.right[m] = IF m = y THEN u
                          ELSE IF t.right[m] = u THEN y ELSE t.right[m]
           /\ r.left[m] = IF m = u THEN t.right[y]
                           ELSE IF t.left[m] = u THEN y ELSE t.left[m]
           /\ r.parent[m] = IF m = u THEN y ELSE IF m = y THEN t.parent[u]
                            ELSE IF m = t.right[y] THEN u ELSE t.parent[m]
  BY RightRotated
<1>3. /\ \A m \in Pointer : S[m] \in SUBSET Keys
      /\ S[NULL] = {}
      /\ \A m \in Keys : S[m] = {m} \cup S[t.right[m]] \cup S[t.left[m]]
  BY DEF Shape, Covers
<1>4. /\ \A m \in Keys : /\ t.right[m] # NULL => t.parent[t.right[m]] = m
                         /\ t.left[m] # NULL => t.parent[t.left[m]] = m
      /\ \A m \in Keys : m \notin S[t.right[m]] /\ m \notin S[t.left[m]]
      /\ \A m \in Keys : t.right[m] # m /\ t.left[m] # m
      /\ \A m \in Keys : t.right[m] # NULL => t.right[m] # t.left[m]
  <2>1. ASSUME NEW m \in Keys, t.right[m] # NULL, t.right[m] = t.left[m]
        PROVE  FALSE
    <3>1. t.right[m] \in S[t.right[m]]
      BY <1>1, <2>1, Pointers DEF Pointer
    <3> QED
      BY <2>1, <3>1, Sides
  <2> QED
    BY <2>1, Pointers DEF Shape, Linked
<1>5. t.right[y] # u /\ t.left[y] # u /\ t.parent[y] = u
  <2>1. y \in S[u]
    BY <1>1, Pointers
  <2>2. u \notin S[y]
    BY <1>1, <1>4, <2>1, Sides
  <2> QED
    BY <1>1, <1>4, <2>2, Pointers
<1>6. /\ R \in [Pointer -> SUBSET Keys]
      /\ R[y] = S[u] /\ R[u] = {u} \cup S[t.right[u]] \cup S[t.right[y]]
      /\ \A m \in Pointer : m # y /\ m # u => R[m] = S[m]
  <2>1. u # y
    BY <1>1, <1>4
  <2>2. {u} \cup S[t.right[u]] \cup S[t.right[y]] \in SUBSET Keys
    BY <1>1, <1>3
  <2> QED
    BY <1>1, <1>3, <2>1, <2>2 DEF RightTurned, Pointer
<1> HIDE DEF R, r
<1>7. /\ R[r.right[u]] = S[t.right[u]] /\ R[r.left[u]] = S[t.right[y]]
      /\ R[r.right[y]] = R[u] /\ R[r.left[y]] = S[t.left[y]]
  <2>1. r.right[u] = t.right[u] /\ r.left[u] = t.right[y] /\ r.right[y] = u
    BY <1>1, <1>2, <1>4
  <2>2. r.left[y] = t.left[y]
    BY <1>1, <1>2, <1>4, <1>5
  <2>3. t.right[u] # u /\ t.right[u] # y /\ t.right[y] # y /\ t.left[y] # y
    BY <1>1, <1>4
  <2> QED
    BY <1>1, <1>5, <1>6, <2>1, <2>2, <2>3
<1>8. ASSUME NEW m \in Keys, m # u, m # y
      PROVE  R[r.right[m]] = S[t.right[m]] /\ R[r.left[m]] = S[t.left[m]]
  <2>1. t.right[m] # y /\ t.left[m] # y
    BY <1>1, <1>4, <1>5, <1>8
  <2>2. CASE t.right[m] = u
    BY <1>1, <1>2, <1>4, <1>6, <1>8, <2>1, <2>2
  <2>3. CASE t.left[m] = u
    BY <1>1, <1>2, <1>4, <1>6, <1>8, <2>1, <2>3
  <2>4. CASE t.right[m] # u /\ t.left[m] # u
    BY <1>1, <1>2, <1>4, <1>6, <1>8, <2>1, <2>4
  <2> QED
    BY <2>2, <2>3, <2>4
<1>9. Covers(r, R)
  <2>1. R[NULL] = {}
    BY <1>1, <1>3, <1>6 DEF Pointer
  <2>2. ASSUME NEW m \in Keys
        PROVE  R[m] = {m} \cup R[r.right[m]] \cup R[r.left[m]]
    <3>1. CASE m = u
      BY <1>6, <1>7, <3>1
    <3>2. CASE m = y
      <4>1. S[u] = {u} \cup S[t.right[u]] \cup S[y]
        BY <1>1, <1>3
      <4>2. S[y] = {y} \cup S[t.right[y]] \cup S[t.left[y]]
        BY <1>1, <1>3
      <4> QED
        BY <1>6, <1>7, <3>2, <4>1, <4>2
    <3>3. CASE m # u /\ m # y
      BY <1>3, <1>6, <1>8, <3>3 DEF Pointer
    <3> QED
      BY <3>1, <3>2, <3>3
  <2> QED
    BY <1>6, <2>1, <2>2 DEF Covers
<1>10. Ordered(r, R)
  <2>1. \A m \in Keys : /\ \A i \in S[t.right[m]] : i > m
                        /\ \A i \in S[t.left[m]] : i < m
    BY DEF Shape, Ordered
  <2>2. ASSUME NEW m \in Keys
        PROVE  /\ \A i \in R[r.right[m]] : i > m
               /\ \A i \in R[r.left[m]] : i < m
    <3>1. CASE m = u
      BY <1>1, <1>3, <1>7, <2>1, <3>1
    <3>2. CASE m = y
      <4>1. u > y
        <5>1. y \in S[t.left[u]] /\ u \in Int /\ y \in Int
          BY <1>1, <1>3, KeysAssumption
        <5> QED
          BY <1>1, <2>1, <5>1
      <4>2. \A i \in S[t.right[u]] : i > u /\ i \in Int
        BY <1>1, <1>3, <2>1, KeysAssumption
      <4>3. ASSUME NEW i \in R[u] PROVE i > y
        <5>1. i = u \/ i \in S[t.right[u]] \/ i \in S[t.right[y]]
          BY <1>6
        <5>2. u \in Int /\ y \in Int
          BY <1>1, KeysAssumption
        <5> QED
          BY <1>1, <2>1, <4>1, <4>2, <5>1, <5>2
      <4> QED
        BY <1>1, <1>7, <2>1, <3>2, <4>3
    <3>3. CASE m # u /\ m # y
      BY <1>8, <2>1, <3>3
    <3> QED
      BY <3>1, <3>2, <3>3
  <2> QED
    BY <2>2 DEF Ordered
<1>11. Linked(r)
  <2>1. \A m \in Keys : t.parent[m] # NULL => \/ t.right[t.parent[m]] = m
                                              \/ t.left[t.parent[m]] = m
    BY DEF Shape, Linked
  <2>2. ASSUME NEW m \in Keys
        PROVE  r.right[m] # NULL => r.parent[r.right[m]] = m
    BY <1>1, <1>2, <1>4, <1>5 DEF Pointer
  <2>3. ASSUME NEW m \in Keys
        PROVE  r.left[m] # NULL => r.parent[r.left[m]] = m
    BY <1>1, <1>2, <1>4, <1>5 DEF Pointer
  <2>4. ASSUME NEW m \in Keys, r.parent[m] # NULL
        PROVE  r.right[r.parent[m]] = m \/ r.left[r.parent[m]] = m
    BY <1>1, <1>2, <1>4, <1>5, <2>1, <2>4 DEF Pointer
  <2> QED
    BY <2>2, <2>3, <2>4 DEF Linked
<1>12. Rooted(r, N, R)
  <2>1. /\ S[t.root] = N
        /\ t.root # NULL => t.parent[t.root] = NULL
        /\ \A m \in N : t.parent[m] = NULL => m = t.root
    BY DEF Shape, Rooted
  <2>2. y # t.root
    BY <1>1, <1>5, <2>1
  <2>3. R[r.root] = N
    BY <1>1, <1>2, <1>6, <2>1, <2>2
  <2>4. r.root # NULL => r.parent[r.root] = NULL
    <3>1. CASE t.root = u
      BY <1>1, <1>2, <1>4, <2>1, <3>1
    <3>2. CASE t.root # u
      <4>1. t.root # NULL => t.root # t.right[y]
        BY <1>1, <1>4, <2>1
      <4> QED
        BY <1>1, <1>2, <2>1, <2>2, <3>2, <4>1 DEF Pointer
    <3> QED
      BY <3>1, <3>2
  <2>5. ASSUME NEW m \in N, r.parent[m] = NULL PROVE m = r.root
    <3>1. m \in Keys
      BY DEF Shape
    <3> QED
      BY <1>1, <1>2, <2>1, <2>5, <3>1
  <2> QED
    BY <2>3, <2>4, <2>5 DEF Rooted
<1>13. Apart(r, N, R)
  <2>1. /\ N \in SUBSET Keys
        /\ \A m \in N : S[m] \subseteq N
        /\ \A m \in Keys \ N :
             t.right[m] = NULL /\ t.left[m] = NULL /\ t.parent[m] = NULL
    BY DEF Shape, Apart
  <2>2. y \in N
    BY <1>1, <2>1, Pointers
  <2>3. R[u] \subseteq N
    BY <1>1, <1>3, <1>6, <2>1, <2>2
  <2>4. ASSUME NEW m \in N PROVE R[m] \subseteq N
    BY <1>6, <2>1, <2>3 DEF Pointer
  <2>5. ASSUME NEW m \in Keys \ N
        PROVE  r.right[m] = NULL /\ r.left[m] = NULL /\ r.parent[m] = NULL
    <3>1. t.right[y] # m
      BY <1>1, <1>4, <2>1
    <3> QED
      BY <1>1, <1>2, <2>1, <2>2, <3>1
  <2> QED
    BY <2>4, <2>5 DEF Apart
<1> QED
  BY <1>2, <1>9, <1>10, <1>11, <1>12, <1>13 DEF Shape, R, r

\* The nodes above n.
Ancestors(S, n) == {a \in Keys : n \in S[a]} \ {n}

\* How many nodes n is below.
Above(S, n) == Cardinality(Ancestors(S, n))

\* Above a node are its parent and what is above that.
LEMMA AboveIs ==
  ASSUME NEW t, NEW N, NEW S, Shape(t, N, S), NEW n \in Keys
  PROVE  /\ IsFiniteSet(Ancestors(S, n)) /\ Above(S, n) \in Nat
         /\ t.parent[n] = NULL => Above(S, n) = 0
         /\ t.parent[n] # NULL => Above(S, n) = 1 + Above(S, t.parent[n])
<1> USE NullIsNoKey
<1> DEFINE p == t.parent[n]
<1>1. ASSUME NEW m \in Keys
      PROVE  IsFiniteSet(Ancestors(S, m)) /\ Above(S, m) \in Nat
  <2>1. Ancestors(S, m) \subseteq N
    <3>1. ASSUME NEW a \in Keys \ N PROVE S[a] = {a}
      BY <3>1 DEF Shape, Apart, Covers
    <3> QED
      BY <3>1 DEF Ancestors
  <2>2. IsFiniteSet(N)
    BY DEF Shape
  <2> QED
    BY <2>1, <2>2, FS_Subset, FS_CardinalityType DEF Above
<1>2. ASSUME p = NULL PROVE Ancestors(S, n) = {}
  <2>1. ASSUME NEW a \in Ancestors(S, n) PROVE FALSE
    <3>1. a \in Keys /\ n \in S[a] /\ n # a
      BY DEF Ancestors
    <3>2. t.parent[n] \in S[a]
      BY <3>1, ParentWithin
    <3> QED
      BY <1>2, <3>1, <3>2 DEF Shape, Covers, Pointer
  <2> QED
    BY <2>1
<1>3. ASSUME p # NULL
      PROVE  Ancestors(S, n) = Ancestors(S, p) \cup {p} /\ p \in Keys
  <2>1. p \in Keys /\ n \in S[p] /\ n # p
    <3>1. p \in Keys
      BY <1>3, Pointers DEF Pointer
    <3>2. t.left[p] = n \/ t.right[p] = n
      BY <1>3 DEF Shape, Linked
    <3>3. n \in S[n]
      BY Pointers
    <3> QED
      BY <3>1, <3>2, <3>3, Pointers
  <2>2. ASSUME NEW a \in Ancestors(S, n)
        PROVE  a \in Ancestors(S, p) \cup {p}
    <3>1. a \in Keys /\ n \in S[a] /\ n # a
      BY DEF Ancestors
    <3>2. p \in S[a]
      BY <3>1, ParentWithin
    <3> QED
      BY <3>1, <3>2 DEF Ancestors
  <2>3. ASSUME NEW a \in Ancestors(S, p) PROVE a \in Ancestors(S, n)
    <3>1. a \in Keys /\ p \in S[a]
      BY DEF Ancestors
    <3>2. n \in S[a]
      BY <2>1, <3>1, Within
    <3>3. a # n
      BY <2>1, <3>1, Sides
    <3> QED
      BY <3>1, <3>2, <3>3 DEF Ancestors
  <2>4. p \in Ancestors(S, n)
    BY <2>1 DEF Ancestors
  <2> QED
    BY <2>1, <2>2, <2>3, <2>4
<1>4. p = NULL => Above(S, n) = 0
  BY <1>2, FS_EmptySet DEF Above
<1>5. ASSUME p # NULL PROVE Above(S, n) = 1 + Above(S, p)
  <2>1. p \notin Ancestors(S, p)
    BY DEF Ancestors
  <2>2. /\ IsFiniteSet(Ancestors(S, p)) /\ Above(S, p) \in Nat
        /\ Above(S, p) = Cardinality(Ancestors(S, p))
    BY <1>1, <1>3, <1>5 DEF Above
  <2>3. Cardinality(Ancestors(S, p) \cup {p}) = Above(S, p) + 1
    BY <2>1, <2>2, FS_AddElement
  <2>4. Above(S, n) = Cardinality(Ancestors(S, p) \cup {p})
    BY <1>3, <1>5 DEF Above
  <2> QED
    BY <2>2, <2>3, <2>4
<1> QED
  BY <1>1, <1>4, <1>5

\* Induction from the root: of some nodes there is one whose parent is not
\* among them.
LEMMA Highest ==
  ASSUME NEW t, NEW N, NEW S, Shape(t, N, S), NEW D \in SUBSET Keys, D # {}
  PROVE  \E d \in D : t.parent[d] \notin D
<1> USE NullIsNoKey
<1> DEFINE heights == {Above(S, d) : d \in D}
<1>1. PICK n \in heights : \A i \in heights : n <= i
  <2>1. heights \in SUBSET Nat /\ heights # {}
    BY AboveIs
  <2> HIDE DEF heights
  <2> QED
    BY <2>1, LeastOf
<1>2. PICK d \in D : n = Above(S, d)
  OBVIOUS
<1>3. ASSUME t.parent[d] \in D PROVE FALSE
  <2>1. Above(S, d) <= Above(S, t.parent[d])
    BY <1>1, <1>2, <1>3
  <2>2. Above(S, d) = 1 + Above(S, t.parent[d]) /\ Above(S, t.parent[d]) \in Nat
    BY <1>3, AboveIs
  <2> QED
    BY <2>1, <2>2
<1> QED
  BY <1>3

\* Depth counts the nodes above a node.
LEMMA DepthIs ==
  ASSUME NEW t, NEW N, NEW S, Shape(t, N, S), NEW n \in Keys
  PROVE  Depth(t, n) = Above(S, n)
<1> USE NullIsNoKey
<1> DEFINE Solves(f) == f = [m \in Keys |-> IF t.parent[m] = NULL THEN 0
                                            ELSE 1 + f[t.parent[m]]]
           depth == CHOOSE f : Solves(f)
           above == [m \in Keys |-> Above(S, m)]
<1>1. Depth(t, n) = depth[n]
  BY DEF Depth
<1>2. Solves(above)
  <2>1. ASSUME NEW m \in Keys
        PROVE  above[m] = IF t.parent[m] = NULL THEN 0
                          ELSE 1 + above[t.parent[m]]
    <3>1. t.parent[m] \in Pointer
      BY Pointers
    <3> QED
      BY <3>1, AboveIs DEF Pointer
  <2>2. above = [m \in Keys |-> above[m]]
    OBVIOUS
  <2> HIDE DEF above
  <2> QED
    BY <2>1, <2>2
<1>3. Solves(depth)
  <2> HIDE DEF Solves, above
  <2> QED
    BY <1>2
<1> HIDE DEF depth
<1>4. \A m \in Keys : depth[m] = IF t.parent[m] = NULL THEN 0
                                 ELSE 1 + depth[t.parent[m]]
  BY <1>3
<1> DEFINE D == {d \in Keys : depth[d] # Above(S, d)}
<1>5. ASSUME D # {} PROVE FALSE
  <2>1. PICK d \in D : t.parent[d] \notin D
    <3>1. D \in SUBSET Keys
      OBVIOUS
    <3> HIDE DEF D
    <3> QED
      BY <1>5, <3>1, Highest
  <2>2. t.parent[d] # NULL => t.parent[d] \in Keys
    BY Pointers DEF Pointer
  <2>3. CASE t.parent[d] = NULL
    BY <1>4, <2>3, AboveIs
  <2>4. CASE t.parent[d] # NULL
    BY <1>4, <2>1, <2>2, <2>4, AboveIs
  <2> QED
    BY <2>3, <2>4
<1> QED
  BY <1>1, <1>5

\* left_rotate brings the node that rises, and what is to the right of it, one
\* link nearer to the root, and no node more than one link further from it.
LEMMA LeftRotationDepth ==
  ASSUME NEW t, NEW N, NEW S, Shape(t, N, S), NEW u \in N, t.right[u] # NULL
  PROVE  LET y == t.right[u]
             R == LeftTurned(t, S, u)
         IN /\ \A m \in Keys : Above(R, m) <= Above(S, m) + 1
            /\ \A m \in {y} \cup S[t.right[y]] : Above(R, m) = Above(S, m) - 1
<1> USE NullIsNoKey
<1> DEFINE y == t.right[u]
           R == LeftTurned(t, S, u)
<1>1. Shape(left_rotate(t, u), N, R)
  BY LeftRotationShape
<1>2. /\ u \in Keys /\ y \in Keys /\ u # y
      /\ S[u] = {u} \cup S[t.left[u]] \cup S[y]
      /\ S[y] = {y} \cup S[t.left[y]] \cup S[t.right[y]]
      /\ \A m \in Pointer : S[m] \in SUBSET Keys
      /\ t.left[y] \in Pointer /\ t.right[y] \in Pointer
  <2>1. u \in Keys
    BY DEF Shape
  <2>2. y \in Keys /\ y # u
    BY <2>1, Pointers DEF Pointer
  <2> QED
    BY <2>1, <2>2, Pointers DEF Shape, Covers
<1>3. /\ R[y] = S[u] /\ R[u] = {u} \cup S[t.left[u]] \cup S[t.left[y]]
      /\ \A m \in Keys : m # y /\ m # u => R[m] = S[m]
  BY <1>2 DEF LeftTurned, Pointer
<1>4. ASSUME NEW m \in Keys
      PROVE  /\ IsFiniteSet(Ancestors(S, m)) /\ Above(S, m) \in Nat
             /\ IsFiniteSet(Ancestors(R, m)) /\ Above(R, m) \in Nat
             /\ Above(S, m) = Cardinality(Ancestors(S, m))
             /\ Above(R, m) = Cardinality(Ancestors(R, m))
  <2> HIDE DEF R
  <2> QED
    BY <1>1, AboveIs DEF Above
<1>5. ASSUME NEW m \in Keys PROVE Above(R, m) <= Above(S, m) + 1
  <2>1. R[u] \subseteq S[u]
    BY <1>2, <1>3
  <2>2. ASSUME NEW a \in Ancestors(R, m) PROVE a \in Ancestors(S, m) \cup {y}
    <3>1. a \in Keys /\ m \in R[a] /\ a # m
      BY DEF Ancestors
    <3> HIDE DEF R, y
    <3>2. a # y => m \in S[a]
      BY <1>3, <2>1, <3>1
    <3> QED
      BY <3>1, <3>2 DEF Ancestors
  <2>3. /\ IsFiniteSet(Ancestors(S, m) \cup {y})
        /\ Cardinality(Ancestors(S, m) \cup {y}) <= Above(S, m) + 1
    <3>1. Cardinality(Ancestors(S, m) \cup {y})
            = IF y \in Ancestors(S, m) THEN Cardinality(Ancestors(S, m))
              ELSE Cardinality(Ancestors(S, m)) + 1
      BY <1>4, FS_AddElement
    <3>2. IsFiniteSet(Ancestors(S, m) \cup {y})
      BY <1>4, FS_AddElement
    <3> HIDE DEF y
    <3> QED
      BY <1>4, <3>1, <3>2
  <2>4. /\ Cardinality(Ancestors(R, m))
             <= Cardinality(Ancestors(S, m) \cup {y})
        /\ Cardinality(Ancestors(S, m) \cup {y}) \in Nat
    BY <2>2, <2>3, FS_Subset, FS_CardinalityType
  <2> HIDE DEF R
  <2> QED
    BY <1>4, <2>3, <2>4
<1>6. ASSUME NEW m \in {y} \cup S[t.right[y]]
      PROVE  Above(R, m) = Above(S, m) - 1
  <2>1. m \in Keys
    BY <1>2
  <2>2. m \in S[y] /\ m \notin S[t.left[y]]
    <3> HIDE DEF R, y
    <3>1. y \notin S[t.left[y]]
      BY <1>2, Pointers
    <3>2. \A i \in S[t.left[y]] : i \notin S[t.right[y]]
      BY <1>2, Sides
    <3> QED
      BY <1>2, <3>1, <3>2
  <2>3. m # u /\ m \in S[u] /\ m \notin S[t.left[u]]
    <3>1. /\ u \notin S[y]
          /\ \A i \in S[t.left[u]] : i \notin S[y]
      BY <1>2, Pointers, Sides
    <3> HIDE DEF y
    <3> QED
      BY <1>2, <2>2, <3>1
  <2>4. m \in R[y] /\ m \notin R[u]
    BY <1>3, <2>2, <2>3
  <2>5. Ancestors(R, m) = Ancestors(S, m) \ {u} /\ u \in Ancestors(S, m)
    BY <1>2, <1>3, <2>1, <2>2, <2>3, <2>4 DEF Ancestors
  <2>6. Cardinality(Ancestors(S, m) \ {u}) = Cardinality(Ancestors(S, m)) - 1
    BY <1>4, <2>1, <2>5, FS_RemoveElement
  <2> HIDE DEF R
  <2> QED
    BY <1>4, <2>1, <2>5, <2>6
<1> QED
  BY <1>5, <1>6

\* right_rotate brings the node that rises, and what is to the left of it, one
\* link nearer to the root, and no node more than one link further from it.
LEMMA RightRotationDepth ==
  ASSUME NEW t, NEW N, NEW S, Shape(t, N, S), NEW u \in N, t.left[u] # NULL
  PROVE  LET y == t.left[u]
             R == RightTurned(t, S, u)
         IN /\ \A m \in Keys : Above(R, m) <= Above(S, m) + 1
            /\ \A m \in {y} \cup S[t.left[y]] : Above(R, m) = Above(S, m) - 1
<1> USE NullIsNoKey
<1> DEFINE y == t.left[u]
           R == RightTurned(t, S, u)
<1>1. Shape(right_rotate(t, u), N, R)
  BY RightRotationShape
<1>2. /\ u \in Keys /\ y \in Keys /\ u # y
      /\ S[u] = {u} \cup S[t.right[u]] \cup S[y]
      /\ S[y] = {y} \cup S[t.right[y]] \cup S[t.left[y]]
      /\ \A m \in Pointer : S[m] \in SUBSET Keys
      /\ t.right[y] \in Pointer /\ t.left[y] \in Pointer
  <2>1. u \in Keys
    BY DEF Shape
  <2>2. y \in Keys /\ y # u
    BY <2>1, Pointers DEF Pointer
  <2> QED
    BY <2>1, <2>2, Pointers DEF Shape, Covers
<1>3. /\ R[y] = S[u] /\ R[u] = {u} \cup S[t.right[u]] \cup S[t.right[y]]
      /\ \A m \in Keys : m # y /\ m # u => R[m] = S[m]
  BY <1>2 DEF RightTurned, Pointer
<1>4. ASSUME NEW m \in Keys
      PROVE  /\ IsFiniteSet(Ancestors(S, m)) /\ Above(S, m) \in Nat
             /\ IsFiniteSet(Ancestors(R, m)) /\ Above(R, m) \in Nat
             /\ Above(S, m) = Cardinality(Ancestors(S, m))
             /\ Above(R, m) = Cardinality(Ancestors(R, m))
  <2> HIDE DEF R
  <2> QED
    BY <1>1, AboveIs DEF Above
<1>5. ASSUME NEW m \in Keys PROVE Above(R, m) <= Above(S, m) + 1
  <2>1. R[u] \subseteq S[u]
    BY <1>2, <1>3
  <2>2. ASSUME NEW a \in Ancestors(R, m) PROVE a \in Ancestors(S, m) \cup {y}
    <3>1. a \in Keys /\ m \in R[a] /\ a # m
      BY DEF Ancestors
    <3> HIDE DEF R, y
    <3>2. a # y => m \in S[a]
      BY <1>3, <2>1, <3>1
    <3> QED
      BY <3>1, <3>2 DEF Ancestors
  <2>3. /\ IsFiniteSet(Ancestors(S, m) \cup {y})
        /\ Cardinality(Ancestors(S, m) \cup {y}) <= Above(S, m) + 1
    <3>1. Cardinality(Ancestors(S, m) \cup {y})
            = IF y \in Ancestors(S, m) THEN Cardinality(Ancestors(S, m))
              ELSE Cardinality(Ancestors(S, m)) + 1
      BY <1>4, FS_AddElement
    <3>2. IsFiniteSet(Ancestors(S, m) \cup {y})
      BY <1>4, FS_AddElement
    <3> HIDE DEF y
    <3> QED
      BY <1>4, <3>1, <3>2
  <2>4. /\ Cardinality(Ancestors(R, m))
             <= Cardinality(Ancestors(S, m) \cup {y})
        /\ Cardinality(Ancestors(S, m) \cup {y}) \in Nat
    BY <2>2, <2>3, FS_Subset, FS_CardinalityType
  <2> HIDE DEF R
  <2> QED
    BY <1>4, <2>3, <2>4
<1>6. ASSUME NEW m \in {y} \cup S[t.left[y]]
      PROVE  Above(R, m) = Above(S, m) - 1
  <2>1. m \in Keys
    BY <1>2
  <2>2. m \in S[y] /\ m \notin S[t.right[y]]
    <3> HIDE DEF R, y
    <3>1. y \notin S[t.right[y]]
      BY <1>2, Pointers
    <3>2. \A i \in S[t.right[y]] : i \notin S[t.left[y]]
      BY <1>2, Sides
    <3> QED
      BY <1>2, <3>1, <3>2
  <2>3. m # u /\ m \in S[u] /\ m \notin S[t.right[u]]
    <3>1. /\ u \notin S[y]
          /\ \A i \in S[t.right[u]] : i \notin S[y]
      BY <1>2, Pointers, Sides
    <3> HIDE DEF y
    <3> QED
      BY <1>2, <2>2, <3>1
  <2>4. m \in R[y] /\ m \notin R[u]
    BY <1>3, <2>2, <2>3
  <2>5. Ancestors(R, m) = Ancestors(S, m) \ {u} /\ u \in Ancestors(S, m)
    BY <1>2, <1>3, <2>1, <2>2, <2>3, <2>4 DEF Ancestors
  <2>6. Cardinality(Ancestors(S, m) \ {u}) = Cardinality(Ancestors(S, m)) - 1
    BY <1>4, <2>1, <2>5, FS_RemoveElement
  <2> HIDE DEF R
  <2> QED
    BY <1>4, <2>1, <2>5, <2>6
<1> QED
  BY <1>5, <1>6

\* A turn of splay's loop keeps the search tree, brings its node two links
\* nearer to the root, or the one that is left, and no node more than two
\* further from it.
LEMMA TurnShape ==
  ASSUME NEW t, NEW N, NEW S, Shape(t, N, S), NEW n \in N, t.parent[n] # NULL
  PROVE  \E R : /\ Shape(splay_turn(t, n), N, R)
                /\ Above(R, n) = Above(S, n) - IF Above(S, n) > 1 THEN 2 ELSE 1
                /\ \A m \in Keys : Above(R, m) <= Above(S, m) + 2
<1> USE NullIsNoKey
<1> DEFINE p == t.parent[n]
           g == t.parent[p]
<1>1. /\ n \in Keys /\ p \in N /\ p \in Keys /\ g \in Pointer
      /\ g # NULL => g \in N /\ g \in Keys
      /\ t.left[p] = n \/ t.right[p] = n
      /\ g # NULL => t.left[g] = p \/ t.right[g] = p
      /\ n # NULL /\ p # NULL
  <2>1. n \in Keys /\ n \in N
    BY DEF Shape
  <2>2. p \in N /\ p \in Keys
    BY <2>1, Pointers
  <2>3. g \in N \cup {NULL} /\ N \subseteq Keys
    BY <2>2, Pointers
  <2> QED
    BY <2>1, <2>2, <2>3 DEF Pointer, Shape, Linked
<1>2. /\ \A m \in Keys : Above(S, m) \in Nat
      /\ Above(S, n) = 1 + Above(S, p)
      /\ g = NULL => Above(S, p) = 0
      /\ g # NULL => Above(S, p) = 1 + Above(S, g)
  BY <1>1, AboveIs
<1>3. /\ g = NULL => ~(Above(S, n) > 1)
      /\ g # NULL => Above(S, n) > 1
  BY <1>1, <1>2
<1>4. g # NULL => g # n /\ g # p /\ n # p
  BY <1>1, <1>2
<1>5. \A m \in Keys : t.left[m] # NULL => t.left[m] # t.right[m]
  <2>1. ASSUME NEW m \in Keys, t.left[m] # NULL, t.left[m] = t.right[m]
        PROVE  FALSE
    <3>1. t.left[m] \in S[t.left[m]]
      BY <2>1, Pointers DEF Pointer
    <3> QED
      BY <2>1, <3>1, Sides
  <2> QED
    BY <2>1
<1> HIDE DEF p, g
<1>6. splay_turn(t, n) =
        CASE g = NULL /\ t.left[p] = n -> right_rotate(t, p)
          [] g = NULL /\ t.left[p] # n -> left_rotate(t, p)
          [] g # NULL /\ t.left[p] = n /\ t.left[g] = p ->
               right_rotate(right_rotate(t, g), p)
          [] g # NULL /\ t.left[p] # n /\ t.right[g] = p ->
               left_rotate(left_rotate(t, g), p)
          [] g # NULL /\ t.left[p] = n /\ t.left[g] # p ->
               left_rotate(right_rotate(t, p), g)
          [] g # NULL /\ t.left[p] # n /\ t.right[g] # p ->
               right_rotate(left_rotate(t, p), g)
  BY Zenon DEF splay_turn, p, g
<1>7. CASE g = NULL /\ t.left[p] = n
  <2> DEFINE R == RightTurned(t, S, p)
  <2>1. splay_turn(t, n) = right_rotate(t, p)
    BY <1>6, <1>7
  <2>2. Shape(right_rotate(t, p), N, R)
    BY <1>1, <1>7, RightRotationShape
  <2>3. /\ Above(R, n) = Above(S, n) - 1
        /\ \A m \in Keys : Above(R, m) <= Above(S, m) + 1
    BY <1>1, <1>7, RightRotationDepth
  <2>4. \A m \in Keys : Above(R, m) \in Nat
    <3> HIDE DEF R
    <3> QED
      BY <2>2, AboveIs
  <2> HIDE DEF R
  <2>5. /\ Above(R, n) = Above(S, n) - IF Above(S, n) > 1 THEN 2 ELSE 1
        /\ \A m \in Keys : Above(R, m) <= Above(S, m) + 2
    BY <1>1, <1>2, <1>3, <1>7, <2>3, <2>4
  <2> QED
    BY <2>1, <2>2, <2>5
<1>8. CASE g # NULL /\ t.left[p] = n /\ t.left[g] = p
  <2> DEFINE r == right_rotate(t, g)
             Q == RightTurned(t, S, g)
             R == RightTurned(r, Q, p)
  <2>1. splay_turn(t, n) = right_rotate(r, p)
    BY <1>4, <1>6, <1>8
  <2>2. Shape(r, N, Q)
    BY <1>1, <1>8, RightRotationShape
  <2>3. r.left[p] = n
    BY <1>1, <1>4, <1>8, RightRotated
  <2>4. /\ Above(Q, n) = Above(S, n) - 1
        /\ \A m \in Keys : Above(Q, m) <= Above(S, m) + 1
    <3>1. n \in S[t.left[p]]
      BY <1>1, <1>8, Pointers
    <3> QED
      BY <1>1, <1>8, <3>1, RightRotationDepth
  <2> HIDE DEF r, Q
  <2>5. Shape(right_rotate(r, p), N, R)
    BY <1>1, <2>2, <2>3, RightRotationShape
  <2>6. /\ Above(R, n) = Above(Q, n) - 1
        /\ \A m \in Keys : Above(R, m) <= Above(Q, m) + 1
    BY <1>1, <2>2, <2>3, RightRotationDepth
  <2>7. \A m \in Keys : Above(R, m) \in Nat /\ Above(Q, m) \in Nat
    <3> HIDE DEF R
    <3> QED
      BY <2>2, <2>5, AboveIs
  <2> HIDE DEF R
  <2>8. Above(R, n) = Above(S, n) - IF Above(S, n) > 1 THEN 2 ELSE 1
    BY <1>1, <1>2, <1>3, <1>8, <2>4, <2>6, <2>7
  <2>9. ASSUME NEW m \in Keys PROVE Above(R, m) <= Above(S, m) + 2
    BY <1>2, <2>4, <2>6, <2>7
  <2> QED
    BY <2>1, <2>5, <2>8, <2>9
<1>9. CASE g # NULL /\ t.left[p] = n /\ t.left[g] # p
  <2> DEFINE r == right_rotate(t, p)
             Q == RightTurned(t, S, p)
             R == LeftTurned(r, Q, g)
  <2>1. splay_turn(t, n) = left_rotate(r, g)
    BY <1>4, <1>6, <1>9
  <2>2. Shape(r, N, Q)
    BY <1>1, <1>9, RightRotationShape
  <2>3. r.right[g] = n
    BY <1>1, <1>4, <1>9, RightRotated
  <2>4. /\ Above(Q, n) = Above(S, n) - 1
        /\ \A m \in Keys : Above(Q, m) <= Above(S, m) + 1
    BY <1>1, <1>9, RightRotationDepth
  <2> HIDE DEF r, Q
  <2>5. Shape(left_rotate(r, g), N, R)
    BY <1>1, <1>9, <2>2, <2>3, LeftRotationShape
  <2>6. /\ Above(R, n) = Above(Q, n) - 1
        /\ \A m \in Keys : Above(R, m) <= Above(Q, m) + 1
    BY <1>1, <1>9, <2>2, <2>3, LeftRotationDepth
  <2>7. \A m \in Keys : Above(R, m) \in Nat /\ Above(Q, m) \in Nat
    <3> HIDE DEF R
    <3> QED
      BY <2>2, <2>5, AboveIs
  <2> HIDE DEF R
  <2>8. Above(R, n) = Above(S, n) - IF Above(S, n) > 1 THEN 2 ELSE 1
    BY <1>1, <1>2, <1>3, <1>9, <2>4, <2>6, <2>7
  <2>9. ASSUME NEW m \in Keys PROVE Above(R, m) <= Above(S, m) + 2
    BY <1>2, <2>4, <2>6, <2>7
  <2> QED
    BY <2>1, <2>5, <2>8, <2>9
<1>10. CASE g = NULL /\ t.left[p] # n
  <2> DEFINE R == LeftTurned(t, S, p)
  <2>1. splay_turn(t, n) = left_rotate(t, p)
    BY <1>6, <1>10
  <2>2. Shape(left_rotate(t, p), N, R)
    BY <1>1, <1>10, LeftRotationShape
  <2>3. /\ Above(R, n) = Above(S, n) - 1
        /\ \A m \in Keys : Above(R, m) <= Above(S, m) + 1
    BY <1>1, <1>10, LeftRotationDepth
  <2>4. \A m \in Keys : Above(R, m) \in Nat
    <3> HIDE DEF R
    <3> QED
      BY <2>2, AboveIs
  <2> HIDE DEF R
  <2>5. /\ Above(R, n) = Above(S, n) - IF Above(S, n) > 1 THEN 2 ELSE 1
        /\ \A m \in Keys : Above(R, m) <= Above(S, m) + 2
    BY <1>1, <1>2, <1>3, <1>10, <2>3, <2>4
  <2> QED
    BY <2>1, <2>2, <2>5
<1>11. CASE g # NULL /\ t.left[p] # n /\ t.right[g] = p
  <2> DEFINE r == left_rotate(t, g)
             Q == LeftTurned(t, S, g)
             R == LeftTurned(r, Q, p)
  <2>1. splay_turn(t, n) = left_rotate(r, p)
    BY <1>4, <1>6, <1>11
  <2>2. Shape(r, N, Q)
    BY <1>1, <1>11, LeftRotationShape
  <2>3. r.right[p] = n
    BY <1>1, <1>4, <1>11, LeftRotated
  <2>4. /\ Above(Q, n) = Above(S, n) - 1
        /\ \A m \in Keys : Above(Q, m) <= Above(S, m) + 1
    <3>1. n \in S[t.right[p]]
      BY <1>1, <1>11, Pointers
    <3> QED
      BY <1>1, <1>11, <3>1, LeftRotationDepth
  <2> HIDE DEF r, Q
  <2>5. Shape(left_rotate(r, p), N, R)
    BY <1>1, <2>2, <2>3, LeftRotationShape
  <2>6. /\ Above(R, n) = Above(Q, n) - 1
        /\ \A m \in Keys : Above(R, m) <= Above(Q, m) + 1
    BY <1>1, <2>2, <2>3, LeftRotationDepth
  <2>7. \A m \in Keys : Above(R, m) \in Nat /\ Above(Q, m) \in Nat
    <3> HIDE DEF R
    <3> QED
      BY <2>2, <2>5, AboveIs
  <2> HIDE DEF R
  <2>8. Above(R, n) = Above(S, n) - IF Above(S, n) > 1 THEN 2 ELSE 1
    BY <1>1, <1>2, <1>3, <1>11, <2>4, <2>6, <2>7
  <2>9. ASSUME NEW m \in Keys PROVE Above(R, m) <= Above(S, m) + 2
    BY <1>2, <2>4, <2>6, <2>7
  <2> QED
    BY <2>1, <2>5, <2>8, <2>9
<1>12. CASE g # NULL /\ t.left[p] # n /\ t.right[g] # p
  <2> DEFINE r == left_rotate(t, p)
             Q == LeftTurned(t, S, p)
             R == RightTurned(r, Q, g)
  <2>1. splay_turn(t, n) = right_rotate(r, g)
    BY <1>4, <1>6, <1>12
  <2>2. Shape(r, N, Q)
    BY <1>1, <1>12, LeftRotationShape
  <2>3. r.left[g] = n
    BY <1>1, <1>4, <1>12, LeftRotated
  <2>4. /\ Above(Q, n) = Above(S, n) - 1
        /\ \A m \in Keys : Above(Q, m) <= Above(S, m) + 1
    BY <1>1, <1>12, LeftRotationDepth
  <2> HIDE DEF r, Q
  <2>5. Shape(right_rotate(r, g), N, R)
    BY <1>1, <1>12, <2>2, <2>3, RightRotationShape
  <2>6. /\ Above(R, n) = Above(Q, n) - 1
        /\ \A m \in Keys : Above(R, m) <= Above(Q, m) + 1
    BY <1>1, <1>12, <2>2, <2>3, RightRotationDepth
  <2>7. \A m \in Keys : Above(R, m) \in Nat /\ Above(Q, m) \in Nat
    <3> HIDE DEF R
    <3> QED
      BY <2>2, <2>5, AboveIs
  <2> HIDE DEF R
  <2>8. Above(R, n) = Above(S, n) - IF Above(S, n) > 1 THEN 2 ELSE 1
    BY <1>1, <1>2, <1>3, <1>12, <2>4, <2>6, <2>7
  <2>9. ASSUME NEW m \in Keys PROVE Above(R, m) <= Above(S, m) + 2
    BY <1>2, <2>4, <2>6, <2>7
  <2> QED
    BY <2>1, <2>5, <2>8, <2>9
<1> QED
  BY <1>7, <1>8, <1>9, <1>10, <1>11, <1>12

\* Search finds the node with the key, if there is one.
LEMMA SearchIs ==
  ASSUME NEW t, NEW N, NEW S, Shape(t, N, S), NEW k \in Keys
  PROVE  Search(t, k) = IF k \in N THEN k ELSE NULL
<1> USE NullIsNoKey
<1> DEFINE Solves(f) == f = [n \in Pointer |-> IF n = NULL \/ n = k THEN n
                                               ELSE f[Below(t, n, k)]]
           from == CHOOSE f : Solves(f)
           found == [n \in Pointer |-> IF k \in S[n] THEN k ELSE NULL]
<1>1. Search(t, k) = from[t.root]
  BY DEF Search
<1>2. ASSUME NEW n \in Keys
      PROVE  /\ Below(t, n, k) \in Pointer
             /\ Below(t, n, k) \in {t.left[n], t.right[n]}
             /\ n # k => (k \in S[n] <=> k \in S[Below(t, n, k)])
  <2>1. /\ t.left[n] \in Pointer /\ t.right[n] \in Pointer
        /\ S[n] = {n} \cup S[t.left[n]] \cup S[t.right[n]]
        /\ \A i \in S[t.left[n]] : i < n
        /\ \A i \in S[t.right[n]] : i > n
        /\ n \in Int /\ k \in Int
    BY Pointers DEF Shape, Covers, Ordered
  <2>2. CASE k > n
    BY <2>1, <2>2 DEF Below
  <2>3. CASE ~(k > n)
    BY <2>1, <2>3 DEF Below
  <2> QED
    BY <2>2, <2>3
<1>3. /\ k \in S[k] /\ S[NULL] = {}
  BY Pointers DEF Shape, Covers
<1>4. Solves(found)
  <2>1. ASSUME NEW n \in Pointer
        PROVE  found[n] = IF n = NULL \/ n = k THEN n
                          ELSE found[Below(t, n, k)]
    <3>1. CASE n = NULL \/ n = k
      BY <1>3, <3>1
    <3>2. CASE ~(n = NULL \/ n = k)
      BY <1>2, <1>3, <3>2 DEF Pointer
    <3> QED
      BY <3>1, <3>2
  <2>2. found = [n \in Pointer |-> found[n]]
    OBVIOUS
  <2> HIDE DEF found
  <2> QED
    BY <2>1, <2>2
<1>5. Solves(from)
  <2> HIDE DEF Solves, found
  <2> QED
    BY <1>4
<1>6. /\ \A n \in Pointer : from[n] = IF n = NULL \/ n = k THEN n
                                      ELSE from[Below(t, n, k)]
      /\ \A n \in Pointer : found[n] = IF n = NULL \/ n = k THEN n
                                       ELSE found[Below(t, n, k)]
  <2> HIDE DEF from, found
  <2> QED
    BY <1>4, <1>5
<1> HIDE DEF from, found, Solves
<1> DEFINE D == {d \in Keys : from[d] # found[d]}
<1>7. ASSUME D # {} PROVE FALSE
  <2>1. PICK d \in D : t.left[d] \notin D /\ t.right[d] \notin D
    <3>1. D \in SUBSET Keys
      OBVIOUS
    <3> HIDE DEF D
    <3> QED
      BY <1>7, <3>1, Lowest
  <2>2. Below(t, d, k) \in Pointer /\ Below(t, d, k) \notin D
    BY <1>2, <2>1
  <2>3. from[Below(t, d, k)] = found[Below(t, d, k)]
    BY <1>6, <2>2 DEF Pointer
  <2> QED
    BY <1>6, <2>3 DEF Pointer
<1>8. from[t.root] = found[t.root] /\ t.root \in Pointer
  BY <1>6, <1>7, Pointers DEF Pointer
<1>9. S[t.root] = N
  BY DEF Shape, Rooted
<1> QED
  BY <1>1, <1>8, <1>9 DEF found

\* A finite set of numbers that is not empty has a greatest one.
LEMMA GreatestOf ==
  ASSUME NEW A \in SUBSET Keys, IsFiniteSet(A), A # {}
  PROVE  \E j \in A : \A i \in A : i <= j
<1> DEFINE above(j) == {i \in A : i > j}
           sizes == {Cardinality(above(j)) : j \in A}
<1>1. \A j \in A : IsFiniteSet(above(j)) /\ Cardinality(above(j)) \in Nat
  BY FS_Subset, FS_CardinalityType
<1>2. PICK n \in sizes : \A i \in sizes : n <= i
  <2>1. sizes \in SUBSET Nat /\ sizes # {}
    BY <1>1
  <2> HIDE DEF sizes
  <2> QED
    BY <2>1, LeastOf
<1>3. PICK j \in A : n = Cardinality(above(j))
  OBVIOUS
<1>4. ASSUME NEW i \in A, ~(i <= j) PROVE FALSE
  <2>1. i \in Int /\ j \in Int /\ \A m \in A : m \in Int
    BY KeysAssumption
  <2>2. above(i) \subseteq above(j) \ {i} /\ i \in above(j)
    <3>1. i > j
      BY <1>4, <2>1
    <3>2. ASSUME NEW m \in A, m > i PROVE m > j /\ m # i
      BY <2>1, <3>1, <3>2
    <3> QED
      BY <3>1, <3>2, <2>1
  <2>3. /\ IsFiniteSet(above(j) \ {i})
        /\ Cardinality(above(j) \ {i}) = Cardinality(above(j)) - 1
    BY <1>1, <2>2, FS_RemoveElement
  <2>4. Cardinality(above(i)) <= Cardinality(above(j) \ {i})
    BY <2>2, <2>3, FS_Subset
  <2>5. Cardinality(above(j)) <= Cardinality(above(i))
    BY <1>2, <1>3
  <2> HIDE DEF above
  <2> QED
    BY <1>1, <2>3, <2>4, <2>5
<1> QED
  BY <1>4

\* subtree_minimum ends at the least node of a subtree, which has no left
\* child.
LEMMA MinimumIs ==
  ASSUME NEW t, NEW N, NEW S, Shape(t, N, S), NEW u \in Keys
  PROVE  LET y == subtree_minimum(t, u)
         IN /\ y \in S[u] /\ t.left[y] = NULL
            /\ \A i \in S[u] : y <= i
<1> USE NullIsNoKey
<1> DEFINE Least(n, y) == y \in S[n] /\ t.left[y] = NULL
                          /\ \A i \in S[n] : y <= i
           least == [n \in Keys |-> CHOOSE y : Least(n, y)]
           Solves(f) == f = [n \in Keys |-> IF t.left[n] = NULL THEN n
                                            ELSE f[t.left[n]]]
           min == CHOOSE f : Solves(f)
<1>1. subtree_minimum(t, u) = min[u]
  BY DEF subtree_minimum
<1>2. ASSUME NEW n \in Keys
      PROVE  /\ t.left[n] \in Pointer /\ S[n] \in SUBSET Keys /\ n \in S[n]
             /\ S[n] = {n} \cup S[t.left[n]] \cup S[t.right[n]]
             /\ \A i \in S[t.left[n]] : i < n
             /\ \A i \in S[t.right[n]] : i > n
             /\ \A i \in S[n] : i \in Int
             /\ n \in Int
             /\ S[t.left[n]] \subseteq S[n]
             /\ S[NULL] = {}
  <2>1. S[n] \in SUBSET Keys /\ t.left[n] \in Pointer /\ n \in S[n]
        /\ S[t.left[n]] \subseteq S[n]
    BY Pointers DEF Pointer
  <2> QED
    BY <2>1, KeysAssumption DEF Shape, Covers, Ordered
<1>3. ASSUME NEW n \in Keys, t.left[n] = NULL
      PROVE  \A y : Least(n, y) <=> y = n
  <2>1. Least(n, n)
    BY <1>2, <1>3
  <2>2. ASSUME NEW y, Least(n, y) PROVE y = n
    <3>1. y \in S[n] /\ y <= n /\ n <= y
      BY <1>2, <2>1, <2>2
    <3> QED
      BY <1>2, <3>1
  <2> QED
    BY <2>1, <2>2
<1>4. ASSUME NEW n \in Keys, t.left[n] # NULL
      PROVE  \A y : Least(n, y) <=> Least(t.left[n], y)
  <2>1. t.left[n] \in Keys
    BY <1>2, <1>4 DEF Pointer
  <2>2. ASSUME NEW y, Least(n, y) PROVE Least(t.left[n], y)
    <3>1. t.left[n] \in S[t.left[n]] /\ S[t.left[n]] \subseteq S[n]
      BY <1>2, <2>1
    <3>2. y <= t.left[n] /\ t.left[n] < n /\ y \in Int /\ t.left[n] \in Int
      BY <1>2, <2>2, <3>1
    <3>3. y < n /\ n \in Int
      BY <1>2, <3>2
    <3>4. y \notin S[t.right[n]] /\ y # n
      BY <1>2, <3>2, <3>3
    <3> QED
      BY <1>2, <2>2, <3>1, <3>4
  <2>3. ASSUME NEW y, Least(t.left[n], y) PROVE Least(n, y)
    <3>1. y \in S[t.left[n]] /\ y \in S[n] /\ y \in Int /\ n \in Int /\ y < n
      BY <1>2, <2>3
    <3>2. ASSUME NEW i \in S[n] PROVE y <= i
      <4>1. i \in Int
        BY <1>2
      <4>2. CASE i \in S[t.left[n]]
        BY <2>3, <4>2
      <4>3. CASE i \notin S[t.left[n]]
        <5>1. i = n \/ i > n
          BY <1>2, <4>3
        <5> QED
          BY <3>1, <4>1, <5>1
      <4> QED
        BY <4>2, <4>3
    <3> QED
      BY <2>3, <3>1, <3>2
  <2> QED
    BY <2>2, <2>3
<1>5. Solves(least)
  <2>1. ASSUME NEW n \in Keys
        PROVE  least[n] = IF t.left[n] = NULL THEN n ELSE least[t.left[n]]
    <3>1. CASE t.left[n] = NULL
      <4>1. least[n] = CHOOSE y : Least(n, y)
        OBVIOUS
      <4> HIDE DEF Least, least
      <4> QED
        BY <1>3, <3>1, <4>1
    <3>2. CASE t.left[n] # NULL
      <4>1. t.left[n] \in Keys
        BY <1>2, <3>2 DEF Pointer
      <4>2. /\ least[n] = CHOOSE y : Least(n, y)
            /\ least[t.left[n]] = CHOOSE y : Least(t.left[n], y)
        BY <4>1
      <4>3. \A y : Least(n, y) <=> Least(t.left[n], y)
        BY <1>4, <3>2
      <4> HIDE DEF Least, least
      <4>4. (CHOOSE y : Least(n, y)) = (CHOOSE y : Least(t.left[n], y))
        BY <4>3, Zenon
      <4> QED
        BY <3>2, <4>2, <4>4
    <3> QED
      BY <3>1, <3>2
  <2>2. least = [n \in Keys |-> least[n]]
    OBVIOUS
  <2> HIDE DEF least
  <2> QED
    BY <2>1, <2>2
<1>6. Solves(min)
  <2> HIDE DEF Solves, least
  <2> QED
    BY <1>5
<1>7. \A n \in Keys : min[n] = IF t.left[n] = NULL THEN n ELSE min[t.left[n]]
  <2> HIDE DEF min
  <2> QED
    BY <1>6
<1> HIDE DEF min, least, Solves
<1> DEFINE D == {d \in Keys : ~Least(d, min[d])}
<1>8. ASSUME D # {} PROVE FALSE
  <2>1. PICK d \in D : t.left[d] \notin D /\ t.right[d] \notin D
    <3>1. D \in SUBSET Keys
      OBVIOUS
    <3> HIDE DEF D
    <3> QED
      BY <1>8, <3>1, Lowest
  <2> HIDE DEF Least
  <2>2. CASE t.left[d] = NULL
    BY <1>3, <1>7, <2>1, <2>2
  <2>3. CASE t.left[d] # NULL
    <3>1. t.left[d] \in Keys /\ min[d] = min[t.left[d]]
      BY <1>2, <1>7, <2>3 DEF Pointer
    <3> QED
      BY <1>4, <2>1, <2>3, <3>1
  <2> QED
    BY <2>2, <2>3
<1> QED
  BY <1>1, <1>8

\* Where a search for k that starts at n ends: it took the right turn at every
\* node on its way.
Ends(t, S, k, n, q) ==
  /\ q \in S[n] /\ Below(t, q, k) = NULL
  /\ \A a \in S[n] : q \in S[a] /\ q # a => q \in S[Below(t, a, k)]

\* LastSeen is the node at which the search for an absent key ends.
LEMMA LastSeenIs ==
  ASSUME NEW t, NEW N, NEW S, Shape(t, N, S), NEW k \in Keys
  PROVE  /\ t.root = NULL => LastSeen(t, k) = NULL
         /\ t.root # NULL => Ends(t, S, k, t.root, LastSeen(t, k))
<1> USE NullIsNoKey
<1> DEFINE end == [n \in Keys |-> CHOOSE q : Ends(t, S, k, n, q)]
           Solves(f) == f = [n \in Keys |-> IF Below(t, n, k) = NULL THEN n
                                            ELSE f[Below(t, n, k)]]
           from == CHOOSE f : Solves(f)
<1>1. LastSeen(t, k) = IF t.root = NULL THEN NULL ELSE from[t.root]
  BY DEF LastSeen
<1>2. ASSUME NEW n \in Keys
      PROVE  /\ Below(t, n, k) \in Pointer
             /\ Below(t, n, k) \in {t.left[n], t.right[n]}
             /\ S[n] = {n} \cup S[t.left[n]] \cup S[t.right[n]]
             /\ S[n] \in SUBSET Keys
             /\ n \notin S[Below(t, n, k)]
             /\ S[NULL] = {}
  <2>1. t.left[n] \in Pointer /\ t.right[n] \in Pointer
        /\ S[n] \in SUBSET Keys
        /\ n \notin S[t.left[n]] /\ n \notin S[t.right[n]]
    BY Pointers DEF Pointer
  <2> QED
    BY <2>1 DEF Shape, Covers, Below
<1>3. ASSUME NEW n \in Keys, Below(t, n, k) = NULL
      PROVE  \A q : Ends(t, S, k, n, q) <=> q = n
  <2>1. Ends(t, S, k, n, n)
    BY <1>2, <1>3, Sides DEF Ends
  <2>2. ASSUME NEW q, Ends(t, S, k, n, q) PROVE q = n
    BY <1>2, <1>3, <2>2 DEF Ends
  <2> QED
    BY <2>1, <2>2
<1>4. ASSUME NEW n \in Keys, Below(t, n, k) # NULL
      PROVE  \A q : Ends(t, S, k, n, q) <=> Ends(t, S, k, Below(t, n, k), q)
  <2> DEFINE b == Below(t, n, k)
  <2>1. b \in Keys /\ S[b] \subseteq S[n] /\ n \notin S[b] /\ n \in S[n]
    BY <1>2, <1>4 DEF Pointer
  <2>2. ASSUME NEW q, Ends(t, S, k, n, q) PROVE Ends(t, S, k, b, q)
    BY <1>2, <1>4, <2>1, <2>2 DEF Ends
  <2>3. ASSUME NEW q, Ends(t, S, k, b, q) PROVE Ends(t, S, k, n, q)
    <3>1. q \in S[b] /\ q \in S[n] /\ Below(t, q, k) = NULL
      BY <2>1, <2>3 DEF Ends
    <3>2. ASSUME NEW a \in S[n], q \in S[a], q # a
          PROVE  q \in S[Below(t, a, k)]
      <4>1. CASE a = n
        BY <3>1, <4>1
      <4>2. CASE a \in S[b]
        BY <2>3, <3>2, <4>2 DEF Ends
      <4>3. CASE a # n /\ a \notin S[b]
        <5>1. PICK c \in {t.left[n], t.right[n]} : c # b /\ a \in S[c]
          BY <1>2, <4>3
        <5>2. c \in Keys
          BY <1>2, <5>1, Pointers DEF Pointer
        <5>3. q \in S[c]
          BY <3>2, <5>1, <5>2, Within
        <5>4. q \in S[t.left[n]] /\ q \in S[t.right[n]]
          BY <1>2, <3>1, <5>1, <5>3
        <5> QED
          BY <5>4, Sides
      <4> QED
        BY <4>1, <4>2, <4>3
    <3> QED
      BY <3>1, <3>2 DEF Ends
  <2> QED
    BY <2>2, <2>3
<1>5. Solves(end)
  <2>1. ASSUME NEW n \in Keys
        PROVE  end[n] = IF Below(t, n, k) = NULL THEN n
                        ELSE end[Below(t, n, k)]
    <3>1. CASE Below(t, n, k) = NULL
      <4>1. end[n] = CHOOSE q : Ends(t, S, k, n, q)
        OBVIOUS
      <4> HIDE DEF end
      <4> QED
        BY <1>3, <3>1, <4>1
    <3>2. CASE Below(t, n, k) # NULL
      <4> DEFINE b == Below(t, n, k)
      <4>1. b \in Keys
        BY <1>2, <3>2 DEF Pointer
      <4>2. /\ end[n] = CHOOSE q : Ends(t, S, k, n, q)
            /\ end[b] = CHOOSE q : Ends(t, S, k, b, q)
        BY <4>1
      <4>3. \A q : Ends(t, S, k, n, q) <=> Ends(t, S, k, b, q)
        BY <1>4, <3>2
      <4> HIDE DEF end, b
      <4>4. (CHOOSE q : Ends(t, S, k, n, q)) = (CHOOSE q : Ends(t, S, k, b, q))
        BY <4>3, Zenon
      <4> QED
        BY <3>2, <4>2, <4>4 DEF b
    <3> QED
      BY <3>1, <3>2
  <2>2. end = [n \in Keys |-> end[n]]
    OBVIOUS
  <2> HIDE DEF end
  <2> QED
    BY <2>1, <2>2
<1>6. Solves(from)
  <2> HIDE DEF Solves, end
  <2> QED
    BY <1>5
<1>7. \A n \in Keys : from[n] = IF Below(t, n, k) = NULL THEN n
                                ELSE from[Below(t, n, k)]
  <2> HIDE DEF from
  <2> QED
    BY <1>6
<1> HIDE DEF from, end, Solves
<1> DEFINE D == {d \in Keys : ~Ends(t, S, k, d, from[d])}
<1>8. ASSUME D # {} PROVE FALSE
  <2>1. PICK d \in D : t.left[d] \notin D /\ t.right[d] \notin D
    <3>1. D \in SUBSET Keys
      OBVIOUS
    <3> HIDE DEF D
    <3> QED
      BY <1>8, <3>1, Lowest
  <2>2. CASE Below(t, d, k) = NULL
    BY <1>3, <1>7, <2>1, <2>2
  <2>3. CASE Below(t, d, k) # NULL
    <3>1. Below(t, d, k) \in Keys /\ from[d] = from[Below(t, d, k)]
      BY <1>2, <1>7, <2>3 DEF Pointer
    <3>2. Ends(t, S, k, Below(t, d, k), from[Below(t, d, k)])
      BY <1>2, <2>1, <3>1
    <3> QED
      BY <1>4, <2>1, <2>3, <3>1, <3>2
  <2> QED
    BY <2>2, <2>3
<1>9. t.root # NULL => Ends(t, S, k, t.root, from[t.root])
  BY <1>8, Pointers DEF Pointer
<1> QED
  BY <1>1, <1>9

\* The tree after tree_insert, up to its call of splay.
Hung(t, k) ==
  LET p == LastSeen(t, k)
      c == [t EXCEPT !.left[k] = NULL, !.right[k] = NULL, !.parent[k] = p]
  IN CASE p = NULL -> [c EXCEPT !.root = k]
       [] p # NULL /\ p < k -> [c EXCEPT !.right[p] = k]
       [] p # NULL /\ p > k -> [c EXCEPT !.left[p] = k]

\* The pointers of that tree: the new node takes the place of an empty subtree
\* of the node that was seen last.
LEMMA HungIs ==
  ASSUME NEW t, NEW N, NEW S, Shape(t, N, S), NEW k \in Keys \ N
  PROVE  LET p == LastSeen(t, k)
             h == Hung(t, k)
         IN /\ h \in Tree
            /\ p = NULL => /\ N = {} /\ h.root = k /\ h.left = t.left
                           /\ h.right = t.right /\ h.parent = t.parent
            /\ p # NULL =>
                 /\ p \in N /\ Ends(t, S, k, t.root, p) /\ h.root = t.root
                 /\ \A m \in Keys :
                      /\ h.left[m] = IF m = p /\ k < p THEN k ELSE t.left[m]
                      /\ h.right[m] = IF m = p /\ k > p THEN k ELSE t.right[m]
                      /\ h.parent[m] = IF m = k THEN p ELSE t.parent[m]
<1> USE NullIsNoKey
<1> DEFINE p == LastSeen(t, k)
           c == [t EXCEPT !.left[k] = NULL, !.right[k] = NULL, !.parent[k] = p]
<1>1. /\ t.left[k] = NULL /\ t.right[k] = NULL /\ t.parent[k] = NULL
      /\ t \in Tree /\ S[t.root] = N /\ t.root \in Pointer /\ S[NULL] = {}
      /\ k \in Pointer /\ N \subseteq Keys
  <2> HIDE DEF c, p
  <2>1. t.left[k] = NULL /\ t.right[k] = NULL /\ t.parent[k] = NULL
    BY DEF Shape, Apart
  <2>2. t \in Tree /\ S[t.root] = N /\ S[NULL] = {} /\ N \subseteq Keys
    BY DEF Shape, Rooted, Covers
  <2>3. t.root \in Pointer /\ k \in Pointer
    BY Pointers DEF Pointer
  <2> QED
    BY <2>1, <2>2, <2>3
<1>2. CASE p = NULL
  <2>1. t.root = NULL /\ N = {}
    BY <1>1, <1>2, LastSeenIs DEF Ends
  <2>2. c = t
    BY <1>1, <1>2 DEF Tree
  <2>3. Hung(t, k) = [c EXCEPT !.root = k]
    BY <1>2, Zenon DEF Hung
  <2> HIDE DEF c, p
  <2>4. Hung(t, k) = [t EXCEPT !.root = k]
    BY <2>2, <2>3
  <2> QED
    BY <1>1, <1>2, <2>1, <2>4 DEF Tree, p
<1>3. CASE p # NULL
  <2>1. t.root # NULL /\ Ends(t, S, k, t.root, p)
    BY <1>3, LastSeenIs
  <2>2. p \in N /\ p \in Keys /\ p # k /\ p \in Int /\ k \in Int
    BY <1>1, <2>1, KeysAssumption DEF Ends
  <2> HIDE DEF p
  <2>3. /\ c \in Tree /\ c.root = t.root
        /\ c.left = [t.left EXCEPT ![k] = NULL]
        /\ c.right = [t.right EXCEPT ![k] = NULL]
        /\ c.parent = [t.parent EXCEPT ![k] = p]
    BY <1>1, <2>2 DEF Tree, Pointer
  <2>4. Hung(t, k) = CASE p = NULL -> [c EXCEPT !.root = k]
                       [] p # NULL /\ p < k -> [c EXCEPT !.right[p] = k]
                       [] p # NULL /\ p > k -> [c EXCEPT !.left[p] = k]
    BY Zenon DEF Hung, p
  <2> HIDE DEF c
  <2>5. /\ c.left \in [Keys -> Pointer] /\ c.right \in [Keys -> Pointer]
        /\ c.parent \in [Keys -> Pointer]
        /\ \A m \in Keys : /\ c.left[m] = t.left[m]
                           /\ c.right[m] = t.right[m]
                           /\ c.parent[m] = IF m = k THEN p ELSE t.parent[m]
    BY <1>1, <2>2, <2>3 DEF Tree
  <2>6. CASE p < k
    <3>1. Hung(t, k) = [c EXCEPT !.right[p] = k] /\ ~(k < p) /\ k > p
      BY <1>3, <2>2, <2>4, <2>6
    <3> QED
      BY <1>1, <1>3, <2>1, <2>2, <2>3, <2>5, <3>1 DEF Tree, p
  <2>7. CASE p > k
    <3>1. Hung(t, k) = [c EXCEPT !.left[p] = k] /\ k < p /\ ~(k > p)
      BY <1>3, <2>2, <2>4, <2>7
    <3> QED
      BY <1>1, <1>3, <2>1, <2>2, <2>3, <2>5, <3>1 DEF Tree, p
  <2> QED
    BY <2>2, <2>6, <2>7
<1> QED
  BY <1>2, <1>3

\* The subtrees after the insertion of k below p.
Grown(S, k, p) == [m \in Pointer |-> IF p \in S[m] THEN S[m] \cup {k} ELSE S[m]]

\* An insertion keeps the search tree and adds its node.
LEMMA InsertShape ==
  ASSUME NEW t, NEW N, NEW S, Shape(t, N, S), NEW k \in Keys \ N
  PROVE  Shape(Hung(t, k), N \cup {k}, Grown(S, k, LastSeen(t, k)))
<1> USE NullIsNoKey
<1> DEFINE p == LastSeen(t, k)
           h == Hung(t, k)
           R == Grown(S, k, p)
           M == N \cup {k}
<1>1. /\ N \in SUBSET Keys /\ M \in SUBSET Keys /\ IsFiniteSet(M)
      /\ t.left[k] = NULL /\ t.right[k] = NULL /\ t.parent[k] = NULL
      /\ S[NULL] = {} /\ S[t.root] = N /\ t.root \in Pointer
  <2>1. IsFiniteSet(M)
    BY FS_AddElement DEF Shape
  <2>2. t.left[k] = NULL /\ t.right[k] = NULL /\ t.parent[k] = NULL
    BY DEF Shape, Apart
  <2>3. S[NULL] = {} /\ S[t.root] = N /\ t.root \in Pointer
    BY Pointers DEF Shape, Rooted, Covers
  <2> QED
    BY <2>1, <2>2, <2>3 DEF Shape
<1>2. /\ \A m \in Keys :
           /\ t.left[m] \in Pointer /\ t.right[m] \in Pointer
           /\ t.parent[m] \in Pointer
           /\ S[m] = {m} \cup S[t.left[m]] \cup S[t.right[m]]
           /\ \A i \in S[t.left[m]] : i < m
           /\ \A i \in S[t.right[m]] : i > m
           /\ t.left[m] # NULL => t.parent[t.left[m]] = m
           /\ t.right[m] # NULL => t.parent[t.right[m]] = m
           /\ t.parent[m] # NULL => \/ t.left[t.parent[m]] = m
                                    \/ t.right[t.parent[m]] = m
      /\ \A m \in Pointer : S[m] \in SUBSET Keys
      /\ \A m \in N : t.parent[m] = NULL => m = t.root
      /\ t.root # NULL => t.parent[t.root] = NULL
      /\ \A m \in N : S[m] \subseteq N
      /\ \A m \in Keys \ N :
           t.left[m] = NULL /\ t.right[m] = NULL /\ t.parent[m] = NULL
  <2>1. \A m \in Keys : t.left[m] \in Pointer /\ t.right[m] \in Pointer
                        /\ t.parent[m] \in Pointer
    BY Pointers
  <2>2. /\ \A m \in Keys : S[m] = {m} \cup S[t.left[m]] \cup S[t.right[m]]
        /\ \A m \in Pointer : S[m] \in SUBSET Keys
    BY DEF Shape, Covers
  <2> QED
    BY <2>1, <2>2 DEF Shape, Ordered, Linked, Rooted, Apart
<1>3. S[k] = {k}
  BY <1>1, <1>2
<1>4. CASE p = NULL
  <2>1. /\ h \in Tree /\ N = {} /\ h.root = k /\ h.left = t.left
        /\ h.right = t.right /\ h.parent = t.parent
    BY <1>4, HungIs
  <2>2. R = S
    <3>1. S = [m \in Pointer |-> S[m]]
      BY DEF Shape, Covers
    <3> HIDE DEF p
    <3>2. \A m \in Pointer : p \notin S[m]
      BY <1>2, <1>4
    <3> QED
      BY <3>1, <3>2 DEF Grown
  <2> HIDE DEF h, R, p
  <2>3. Covers(h, R) /\ Ordered(h, R) /\ Linked(h)
    BY <2>1, <2>2 DEF Shape, Covers, Ordered, Linked
  <2>4. Rooted(h, M, R)
    BY <1>1, <1>3, <2>1, <2>2 DEF Rooted
  <2>5. Apart(h, M, R)
    BY <1>1, <1>2, <1>3, <2>1, <2>2 DEF Apart
  <2> QED
    BY <1>1, <2>1, <2>3, <2>4, <2>5 DEF Shape, h, R, p
<1>5. CASE p # NULL
  <2>1. /\ h \in Tree /\ p \in N /\ Ends(t, S, k, t.root, p) /\ h.root = t.root
        /\ \A m \in Keys :
             /\ h.left[m] = IF m = p /\ k < p THEN k ELSE t.left[m]
             /\ h.right[m] = IF m = p /\ k > p THEN k ELSE t.right[m]
             /\ h.parent[m] = IF m = k THEN p ELSE t.parent[m]
    BY <1>5, HungIs
  <2>2. /\ R \in [Pointer -> SUBSET Keys]
        /\ \A m \in Pointer : R[m] = IF p \in S[m] THEN S[m] \cup {k} ELSE S[m]
    BY <1>2 DEF Grown
  <2> HIDE DEF h, R, p
  <2>3. p \in Keys /\ p # k /\ p \in Int /\ k \in Int /\ (k < p \/ k > p)
    BY <1>1, <2>1, KeysAssumption
  <2>4. Below(t, p, k) = NULL
    BY <2>1 DEF Ends
  <2>5. /\ k < p => t.left[p] = NULL
        /\ k > p => t.right[p] = NULL
    BY <2>3, <2>4 DEF Below
  <2>6. R[k] = {k} /\ R[NULL] = {}
    BY <1>1, <1>3, <2>2, <2>3 DEF Pointer
  <2>7. ASSUME NEW m \in Keys, m # p
        PROVE  h.left[m] = t.left[m] /\ h.right[m] = t.right[m]
    BY <2>1, <2>7
  <2>8. p \notin S[t.left[p]] /\ p \notin S[t.right[p]] /\ p \in S[p]
    BY <2>3, Pointers
  <2>9. Covers(h, R)
    <3>1. ASSUME NEW m \in Keys, m # p
          PROVE  R[m] = {m} \cup R[h.left[m]] \cup R[h.right[m]]
      <4>1. S[m] = {m} \cup S[t.left[m]] \cup S[t.right[m]]
        BY <1>2
      <4>2. p \in S[m] <=> p \in S[t.left[m]] \/ p \in S[t.right[m]]
        BY <3>1, <4>1
      <4>3. t.left[m] \in Pointer /\ t.right[m] \in Pointer /\ m \in Pointer
        BY <1>2 DEF Pointer
      <4>4. R[m] = IF p \in S[m] THEN S[m] \cup {k} ELSE S[m]
        BY <2>2, <4>3
      <4>5. R[t.left[m]] = IF p \in S[t.left[m]] THEN S[t.left[m]] \cup {k}
                           ELSE S[t.left[m]]
        BY <2>2, <4>3
      <4>6. R[t.right[m]] = IF p \in S[t.right[m]] THEN S[t.right[m]] \cup {k}
                            ELSE S[t.right[m]]
        BY <2>2, <4>3
      <4>7. R[m] = {m} \cup R[t.left[m]] \cup R[t.right[m]]
        BY <4>1, <4>2, <4>4, <4>5, <4>6
      <4>8. h.left[m] = t.left[m] /\ h.right[m] = t.right[m]
        BY <2>7, <3>1
      <4> QED
        BY <4>7, <4>8
    <3>2. R[p] = {p} \cup R[h.left[p]] \cup R[h.right[p]]
      <4>1. /\ S[p] = {p} \cup S[t.left[p]] \cup S[t.right[p]]
            /\ R[p] = S[p] \cup {k}
        BY <1>2, <2>2, <2>3, <2>8 DEF Pointer
      <4>2. CASE k < p
        <5>1. h.left[p] = k /\ h.right[p] = t.right[p] /\ t.left[p] = NULL
          BY <2>1, <2>3, <2>5, <4>2
        <5>2. R[t.right[p]] = S[t.right[p]]
          BY <1>2, <2>2, <2>3, <2>8
        <5> QED
          BY <1>1, <2>6, <4>1, <5>1, <5>2
      <4>3. CASE k > p
        <5>1. h.right[p] = k /\ h.left[p] = t.left[p] /\ t.right[p] = NULL
          BY <2>1, <2>3, <2>5, <4>3
        <5>2. R[t.left[p]] = S[t.left[p]]
          BY <1>2, <2>2, <2>3, <2>8
        <5> QED
          BY <1>1, <2>6, <4>1, <5>1, <5>2
      <4> QED
        BY <2>3, <4>2, <4>3
    <3> QED
      BY <2>2, <2>6, <3>1, <3>2 DEF Covers
  <2>10. Ordered(h, R)
    <3>1. ASSUME NEW m \in Keys, m # p, p \in S[t.left[m]] PROVE k < m
      <4>1. m \in N
        BY <1>1, <1>2, <2>1, <3>1
      <4>2. p \in S[m]
        BY <1>2, <3>1
      <4>3. p \in S[Below(t, m, k)]
        BY <1>1, <2>1, <3>1, <4>1, <4>2 DEF Ends
      <4>4. Below(t, m, k) # t.right[m]
        BY <3>1, <4>3, Sides
      <4>5. m \in Int /\ m # k
        BY <1>1, <4>1, KeysAssumption
      <4> QED
        BY <2>3, <4>4, <4>5 DEF Below
    <3>2. ASSUME NEW m \in Keys, m # p, p \in S[t.right[m]] PROVE k > m
      <4>1. m \in N
        BY <1>1, <1>2, <2>1, <3>2
      <4>2. p \in S[m]
        BY <1>2, <3>2
      <4>3. p \in S[Below(t, m, k)]
        BY <1>1, <2>1, <3>2, <4>1, <4>2 DEF Ends
      <4>4. Below(t, m, k) # t.left[m]
        BY <3>2, <4>3, Sides
      <4>5. m \in Int /\ m # k
        BY <1>1, <4>1, KeysAssumption
      <4> QED
        BY <2>3, <4>4, <4>5 DEF Below
    <3>3. ASSUME NEW m \in Keys, m # p
          PROVE  /\ \A i \in R[h.left[m]] : i < m
                 /\ \A i \in R[h.right[m]] : i > m
      BY <1>2, <2>2, <2>7, <3>1, <3>2, <3>3
    <3>4. /\ \A i \in R[h.left[p]] : i < p
          /\ \A i \in R[h.right[p]] : i > p
      <4>1. R[t.left[p]] = S[t.left[p]] /\ R[t.right[p]] = S[t.right[p]]
        BY <1>2, <2>2, <2>3, <2>8
      <4>2. /\ h.left[p] = IF k < p THEN k ELSE t.left[p]
            /\ h.right[p] = IF k > p THEN k ELSE t.right[p]
        BY <2>1, <2>3
      <4>3. /\ \A i \in S[t.left[p]] : i < p
            /\ \A i \in S[t.right[p]] : i > p
        BY <1>2, <2>3
      <4> QED
        BY <2>6, <4>1, <4>2, <4>3
    <3> QED
      BY <3>3, <3>4 DEF Ordered
  <2>11. Linked(h)
    <3>1. ASSUME NEW m \in Keys
          PROVE  h.left[m] # NULL => h.parent[h.left[m]] = m
      <4>1. t.left[m] # k
        BY <1>1, <1>2
      <4>2. CASE h.left[m] = k
        BY <2>1, <2>3, <4>1, <4>2
      <4>3. CASE h.left[m] # k /\ h.left[m] # NULL
        <5>1. h.left[m] = t.left[m] /\ t.left[m] \in Keys
          BY <1>2, <2>1, <4>3 DEF Pointer
        <5> QED
          BY <1>2, <2>1, <4>3, <5>1
      <4> QED
        BY <4>2, <4>3
    <3>2. ASSUME NEW m \in Keys
          PROVE  h.right[m] # NULL => h.parent[h.right[m]] = m
      <4>1. t.right[m] # k
        BY <1>1, <1>2
      <4>2. CASE h.right[m] = k
        BY <2>1, <2>3, <4>1, <4>2
      <4>3. CASE h.right[m] # k /\ h.right[m] # NULL
        <5>1. h.right[m] = t.right[m] /\ t.right[m] \in Keys
          BY <1>2, <2>1, <4>3 DEF Pointer
        <5> QED
          BY <1>2, <2>1, <4>3, <5>1
      <4> QED
        BY <4>2, <4>3
    <3>3. ASSUME NEW m \in Keys, h.parent[m] # NULL
          PROVE  h.left[h.parent[m]] = m \/ h.right[h.parent[m]] = m
      <4>1. CASE m = k
        BY <2>1, <2>3, <4>1
      <4>2. CASE m # k
        <5>1. h.parent[m] = t.parent[m] /\ t.parent[m] \in Keys
          BY <1>2, <2>1, <3>3, <4>2 DEF Pointer
        <5>2. t.left[t.parent[m]] = m \/ t.right[t.parent[m]] = m
          BY <1>2, <3>3, <5>1
        <5>3. CASE t.parent[m] # p
          BY <2>7, <5>1, <5>2, <5>3
        <5>4. CASE t.parent[m] = p
          <6>1. h.left[p] = t.left[p] \/ t.left[p] = NULL
            BY <2>1, <2>3, <2>5
          <6>2. h.right[p] = t.right[p] \/ t.right[p] = NULL
            BY <2>1, <2>3, <2>5
          <6> QED
            BY <5>1, <5>2, <5>4, <6>1, <6>2
        <5> QED
          BY <5>3, <5>4
      <4> QED
        BY <4>1, <4>2
    <3> QED
      BY <3>1, <3>2, <3>3 DEF Linked
  <2>12. Rooted(h, M, R)
    <3>1. t.root # NULL /\ t.root \in Keys /\ t.root # k
      BY <1>1, <1>2, <2>1 DEF Pointer
    <3>2. R[h.root] = M
      BY <1>1, <2>1, <2>2
    <3>3. h.parent[h.root] = NULL
      BY <1>2, <2>1, <3>1
    <3>4. ASSUME NEW m \in M, h.parent[m] = NULL PROVE m = h.root
      BY <1>1, <1>2, <1>5, <2>1, <3>4
    <3> QED
      BY <3>2, <3>3, <3>4 DEF Rooted
  <2>13. Apart(h, M, R)
    <3>1. ASSUME NEW m \in M PROVE R[m] \subseteq M
      <4>1. S[m] \subseteq M /\ m \in Keys
        BY <1>1, <1>2, <1>3, <3>1
      <4> QED
        BY <2>2, <4>1 DEF Pointer
    <3>2. ASSUME NEW m \in Keys \ M
          PROVE  h.left[m] = NULL /\ h.right[m] = NULL /\ h.parent[m] = NULL
      BY <1>2, <2>1
    <3> QED
      BY <3>1, <3>2 DEF Apart
  <2> QED
    BY <1>1, <2>1, <2>9, <2>10, <2>11, <2>12, <2>13 DEF Shape, h, R, p
<1> QED
  BY <1>4, <1>5

\* The tree after tree_remove has freed the root z.
Without(t, z) == [Unlinked(t, z) EXCEPT !.left[z] = NULL, !.right[z] = NULL,
                                        !.parent[z] = NULL]

\* The subtrees once y has taken the place of the root z.
Remaining(S, z, y) ==
  [m \in Pointer |-> IF m = z THEN {z} ELSE IF m = y THEN S[z] \ {z}
                     ELSE S[m] \ {y}]

\* The pointers that a freed node no longer has.
LEMMA ClearedIs ==
  ASSUME NEW t \in Tree, NEW z \in Keys
  PROVE  LET w == [t EXCEPT !.left[z] = NULL, !.right[z] = NULL,
                            !.parent[z] = NULL]
         IN /\ w \in Tree /\ w.root = t.root
            /\ \A m \in Keys :
                 /\ w.left[m] = IF m = z THEN NULL ELSE t.left[m]
                 /\ w.right[m] = IF m = z THEN NULL ELSE t.right[m]
                 /\ w.parent[m] = IF m = z THEN NULL ELSE t.parent[m]
<1> DEFINE w == [t EXCEPT !.left[z] = NULL, !.right[z] = NULL,
                          !.parent[z] = NULL]
<1>1. /\ w \in Tree /\ w.root = t.root
      /\ w.left = [t.left EXCEPT ![z] = NULL]
      /\ w.right = [t.right EXCEPT ![z] = NULL]
      /\ w.parent = [t.parent EXCEPT ![z] = NULL]
  BY DEF Tree, Pointer
<1> HIDE DEF w
<1>2. /\ t.left \in [Keys -> Pointer] /\ t.right \in [Keys -> Pointer]
      /\ t.parent \in [Keys -> Pointer]
  BY DEF Tree
<1>3. \A m \in Keys : /\ w.left[m] = IF m = z THEN NULL ELSE t.left[m]
                      /\ w.right[m] = IF m = z THEN NULL ELSE t.right[m]
                      /\ w.parent[m] = IF m = z THEN NULL ELSE t.parent[m]
  BY <1>1, <1>2
<1> QED
  BY <1>1, <1>2, <1>3 DEF w

\* A root with at most one child leaves it in its place.
LEMMA OneChild ==
  ASSUME NEW t, NEW N, NEW S, Shape(t, N, S), NEW z \in N, t.parent[z] = NULL,
         t.left[z] = NULL \/ t.right[z] = NULL
  PROVE  \E R : Shape(Without(t, z), N \ {z}, R)
<1> USE NullIsNoKey
<1> DEFINE y == IF t.left[z] = NULL THEN t.right[z] ELSE t.left[z]
           u == Unlinked(t, z)
           w == Without(t, z)
           R == Remaining(S, z, y)
<1>1. /\ N \in SUBSET Keys /\ z \in Keys /\ y \in Pointer /\ t \in Tree
      /\ \A m \in Keys : t.left[m] \in Pointer /\ t.right[m] \in Pointer
                         /\ t.parent[m] \in Pointer
  <2>1. N \in SUBSET Keys /\ z \in Keys /\ t \in Tree
    BY DEF Shape
  <2> QED
    BY <2>1, Pointers
<1>2. /\ z = t.root /\ S[z] = N /\ S[NULL] = {}
      /\ \A m \in N : t.parent[m] = NULL => m = z
      /\ \A m \in N : S[m] \subseteq N
      /\ \A m \in Keys \ N :
           t.left[m] = NULL /\ t.right[m] = NULL /\ t.parent[m] = NULL
      /\ \A m \in Pointer : S[m] \in SUBSET Keys
  BY <1>1 DEF Shape, Rooted, Apart, Covers
<1>3. \A m \in Keys :
        /\ S[m] = {m} \cup S[t.left[m]] \cup S[t.right[m]]
        /\ \A i \in S[t.left[m]] : i < m
        /\ \A i \in S[t.right[m]] : i > m
        /\ t.left[m] # NULL => t.parent[t.left[m]] = m
        /\ t.right[m] # NULL => t.parent[t.right[m]] = m
        /\ t.parent[m] # NULL => \/ t.left[t.parent[m]] = m
                                 \/ t.right[t.parent[m]] = m
        /\ m \in S[m]
  BY Pointers DEF Shape, Covers, Ordered, Linked
<1>4. /\ u \in Tree /\ u.root = y
      /\ \A m \in Keys :
           /\ u.left[m] = t.left[m] /\ u.right[m] = t.right[m]
           /\ u.parent[m] = IF m = y THEN NULL ELSE t.parent[m]
  <2>1. u = replace(t, z, y)
    BY Zenon DEF Unlinked
  <2> HIDE DEF u, w, R, y
  <2> DEFINE r == replace(t, z, y)
  <2>2. /\ r \in Tree /\ r.root = y
        /\ \A m \in Keys :
             /\ r.left[m] = t.left[m] /\ r.right[m] = t.right[m]
             /\ r.parent[m] = IF m = y THEN NULL ELSE t.parent[m]
    <3> DEFINE p == t.parent[z]
    <3>1. t \in Tree /\ z \in Keys /\ y \in Pointer
      BY <1>1
    <3>2. /\ r \in Tree /\ r.root = IF p = NULL THEN y ELSE t.root
          /\ \A m \in Keys :
               /\ r.left[m] = IF m = p /\ t.left[p] = z THEN y ELSE t.left[m]
               /\ r.right[m] = IF m = p /\ t.left[p] # z THEN y ELSE t.right[m]
               /\ r.parent[m] = IF m = y THEN p ELSE t.parent[m]
      BY <3>1, ReplaceIs
    <3> HIDE DEF r
    <3> QED
      BY <3>2
  <2> HIDE DEF r
  <2>3. u = r
    BY <2>1 DEF r
  <2> QED
    BY <2>2, <2>3
<1>5. /\ w \in Tree /\ w.root = y
      /\ \A m \in Keys :
           /\ w.left[m] = IF m = z THEN NULL ELSE t.left[m]
           /\ w.right[m] = IF m = z THEN NULL ELSE t.right[m]
           /\ w.parent[m] = IF m = z \/ m = y THEN NULL ELSE t.parent[m]
  <2>1. w = [u EXCEPT !.left[z] = NULL, !.right[z] = NULL, !.parent[z] = NULL]
    BY Zenon DEF Without
  <2> HIDE DEF u, w, R, y
  <2> DEFINE c == [u EXCEPT !.left[z] = NULL, !.right[z] = NULL,
                            !.parent[z] = NULL]
  <2>2. /\ c \in Tree /\ c.root = u.root
        /\ \A m \in Keys :
             /\ c.left[m] = IF m = z THEN NULL ELSE u.left[m]
             /\ c.right[m] = IF m = z THEN NULL ELSE u.right[m]
             /\ c.parent[m] = IF m = z THEN NULL ELSE u.parent[m]
    <3>1. u \in Tree /\ z \in Keys
      BY <1>1, <1>4
    <3> QED
      BY <3>1, ClearedIs, Zenon
  <2>3. w = c
    BY <2>1
  <2> HIDE DEF c
  <2> QED
    BY <1>4, <2>2, <2>3
<1>6. /\ y # z /\ S[y] = S[z] \ {z}
      /\ \A m \in Keys : t.left[m] # z /\ t.right[m] # z
      /\ \A m \in Keys : t.left[m] = y \/ t.right[m] = y => y = NULL \/ m = z
  <2>1. z \notin S[t.left[z]] /\ z \notin S[t.right[z]]
    BY <1>1, Pointers
  <2>2. \A m \in Keys : t.left[m] # z /\ t.right[m] # z
    BY <1>1, <1>3
  <2>3. y # z /\ S[y] = S[z] \ {z}
    BY <1>1, <1>2, <1>3, <2>1, <2>2
  <2>4. y # NULL => t.parent[y] = z
    BY <1>1, <1>3
  <2>5. \A m \in Keys : t.left[m] = y \/ t.right[m] = y => y = NULL \/ m = z
    BY <1>3, <2>4
  <2> QED
    BY <2>2, <2>3, <2>5
<1>7. /\ R \in [Pointer -> SUBSET Keys] /\ R[z] = {z} /\ R[y] = S[y]
      /\ \A m \in Pointer : m # z => R[m] = S[m]
  <2> HIDE DEF y
  <2>1. ASSUME NEW m \in Keys, m # z, m # y PROVE y \notin S[m]
    <3>1. CASE y = NULL
      BY <1>2, <3>1 DEF Pointer
    <3>2. CASE y # NULL
      <4>1. y \in Keys /\ t.parent[y] = z
        BY <1>1, <1>3, <3>2 DEF y, Pointer
      <4>2. z \in S[m] => m = z
        BY <1>1, <1>2, <1>3, <2>1, Sides DEF Apart, Shape
      <4> QED
        BY <2>1, <4>1, <4>2, ParentWithin
    <3> QED
      BY <3>1, <3>2
  <2>2. NULL # z
    BY <1>1
  <2>3. ASSUME NEW m \in Pointer, m # z PROVE R[m] = S[m] /\ R[m] \in SUBSET Keys
    <3>1. CASE m = y
      BY <1>2, <1>6, <2>3, <3>1 DEF Remaining
    <3>2. CASE m # y /\ m \in Keys
      BY <1>2, <2>1, <2>3, <3>2 DEF Remaining
    <3>3. CASE m # y /\ m = NULL
      BY <1>2, <2>3, <3>3 DEF Remaining
    <3> QED
      BY <3>1, <3>2, <3>3 DEF Pointer
  <2>4. R[z] = {z}
    BY <1>1 DEF Remaining, Pointer
  <2>5. R = [m \in Pointer |-> R[m]]
    BY DEF Remaining
  <2> HIDE DEF R
  <2>6. \A m \in Pointer : R[m] \in SUBSET Keys
    BY <1>1, <2>3, <2>4
  <2> QED
    BY <1>1, <1>6, <2>3, <2>4, <2>5, <2>6
<1> HIDE DEF R, w, y, u
<1>8. ASSUME NEW m \in Keys, m # z
      PROVE  R[w.left[m]] = S[t.left[m]] /\ R[w.right[m]] = S[t.right[m]]
  BY <1>1, <1>5, <1>6, <1>7, <1>8
<1>9. w.left[z] = NULL /\ w.right[z] = NULL /\ R[NULL] = {}
  BY <1>1, <1>2, <1>5, <1>7 DEF Pointer
<1>10. Covers(w, R)
  <2>1. ASSUME NEW m \in Keys
        PROVE  R[m] = {m} \cup R[w.left[m]] \cup R[w.right[m]]
    <3>1. CASE m = z
      BY <1>7, <1>9, <3>1
    <3>2. CASE m # z
      BY <1>3, <1>7, <1>8, <3>2 DEF Pointer
    <3> QED
      BY <3>1, <3>2
  <2> QED
    BY <1>7, <1>9, <2>1 DEF Covers
<1>11. Ordered(w, R)
  <2>1. ASSUME NEW m \in Keys
        PROVE  /\ \A i \in R[w.left[m]] : i < m
               /\ \A i \in R[w.right[m]] : i > m
    <3>1. CASE m = z
      BY <1>9, <3>1
    <3>2. CASE m # z
      BY <1>3, <1>8, <3>2
    <3> QED
      BY <3>1, <3>2
  <2> QED
    BY <2>1 DEF Ordered
<1>12. Linked(w)
  <2>1. ASSUME NEW m \in Keys, w.left[m] # NULL
        PROVE  w.parent[w.left[m]] = m
    BY <1>1, <1>3, <1>5, <1>6, <2>1 DEF Pointer
  <2>2. ASSUME NEW m \in Keys, w.right[m] # NULL
        PROVE  w.parent[w.right[m]] = m
    BY <1>1, <1>3, <1>5, <1>6, <2>2 DEF Pointer
  <2>3. ASSUME NEW m \in Keys, w.parent[m] # NULL
        PROVE  w.left[w.parent[m]] = m \/ w.right[w.parent[m]] = m
    <3>1. m # z /\ m # y /\ w.parent[m] = t.parent[m] /\ t.parent[m] \in Keys
      BY <1>1, <1>5, <2>3 DEF Pointer
    <3>2. t.parent[m] # z
      <4>1. t.left[z] = m \/ t.right[z] = m => m = y
        BY <1>1, <3>1 DEF y
      <4> QED
        BY <1>1, <1>3, <3>1, <4>1
    <3> QED
      BY <1>1, <1>3, <1>5, <2>3, <3>1, <3>2
  <2> QED
    BY <2>1, <2>2, <2>3 DEF Linked
<1>13. Rooted(w, N \ {z}, R)
  <2>1. R[w.root] = N \ {z}
    BY <1>2, <1>5, <1>6, <1>7
  <2>2. w.root # NULL => w.parent[w.root] = NULL
    BY <1>1, <1>5 DEF Pointer
  <2>3. ASSUME NEW m \in N \ {z}, w.parent[m] = NULL PROVE m = w.root
    BY <1>1, <1>2, <1>5, <2>3
  <2> QED
    BY <2>1, <2>2, <2>3 DEF Rooted
<1>14. Apart(w, N \ {z}, R)
  <2>1. ASSUME NEW m \in N \ {z} PROVE R[m] \subseteq N \ {z}
    <3>1. z \notin S[m]
      BY <1>1, <1>2, <2>1, Sides
    <3> QED
      BY <1>1, <1>2, <1>7, <3>1 DEF Pointer
  <2>2. ASSUME NEW m \in Keys \ (N \ {z})
        PROVE  w.left[m] = NULL /\ w.right[m] = NULL /\ w.parent[m] = NULL
    BY <1>1, <1>2, <1>5
  <2> QED
    BY <2>1, <2>2 DEF Apart
<1>15. IsFiniteSet(N \ {z})
  BY FS_Subset DEF Shape
<1>16. Shape(w, N \ {z}, R)
  BY <1>1, <1>5, <1>10, <1>11, <1>12, <1>13, <1>14, <1>15 DEF Shape
<1> QED
  BY <1>16 DEF w

\* The node that takes the place of a root z with two children: the least one
\* to its right, which hangs from the left of its parent, or is z's child.
LEMMA Successor ==
  ASSUME NEW t, NEW N, NEW S, Shape(t, N, S), NEW z \in N, t.parent[z] = NULL,
         t.right[z] # NULL
  PROVE  LET y == subtree_minimum(t, t.right[z])
         IN /\ y \in N /\ y \in Keys /\ y # z /\ y \in S[t.right[z]]
            /\ t.left[y] = NULL /\ t.parent[y] \in Keys
            /\ \A i \in S[t.right[z]] : y <= i
            /\ t.parent[y] = z => y = t.right[z]
            /\ t.parent[y] # z => t.left[t.parent[y]] = y
            /\ \A m \in Keys : t.right[m] = y => m = z
            /\ \A m \in Keys : t.left[m] = y => m = t.parent[y] /\ m # z
<1> USE NullIsNoKey
<1> DEFINE u == t.right[z]
           y == subtree_minimum(t, u)
           q == t.parent[y]
<1>1. /\ z \in Keys /\ u \in Keys /\ N \in SUBSET Keys
      /\ S[z] \subseteq N
      /\ t.parent[u] = z
      /\ \A m \in Keys : /\ t.left[m] # NULL => t.parent[t.left[m]] = m
                         /\ t.right[m] # NULL => t.parent[t.right[m]] = m
                         /\ t.parent[m] # NULL => \/ t.left[t.parent[m]] = m
                                                  \/ t.right[t.parent[m]] = m
      /\ \A m \in Keys : t.parent[m] \in Pointer
      /\ \A m \in N : t.parent[m] = NULL => m = t.root
      /\ z = t.root
  <2>1. z \in Keys /\ N \in SUBSET Keys
    BY DEF Shape
  <2>2. u \in Keys /\ \A m \in Keys : t.parent[m] \in Pointer
    BY <2>1, Pointers DEF Pointer
  <2> QED
    BY <2>1, <2>2 DEF Shape, Linked, Rooted, Apart
<1>2. /\ y \in S[u] /\ t.left[y] = NULL
      /\ \A i \in S[u] : y <= i
  BY <1>1, MinimumIs
<1>3. /\ S[u] \subseteq S[z] /\ z \notin S[u] /\ z \notin S[t.left[z]]
      /\ \A i \in S[t.left[z]] : i \notin S[u]
  BY <1>1, Pointers, Sides
<1> HIDE DEF y
<1>4. y \in N /\ y \in Keys /\ y # z
  BY <1>1, <1>2, <1>3
<1>5. q \in Keys
  BY <1>1, <1>4 DEF Pointer
<1>6. ASSUME q = z PROVE y = u
  <2>1. y = u \/ t.left[z] = y
    BY <1>1, <1>4, <1>5, <1>6
  <2>2. t.left[z] = y => y \in S[t.left[z]]
    BY <1>4, Pointers
  <2> QED
    BY <1>2, <1>3, <2>1, <2>2
<1>7. ASSUME q # z
      PROVE  t.left[q] = y /\ t.right[q] # y
  <2>1. y # u
    BY <1>1, <1>7
  <2>2. q \in S[u]
    BY <1>1, <1>2, <2>1, ParentWithin
  <2>3. t.right[q] # y
    <3>1. SUFFICES ASSUME t.right[q] = y PROVE FALSE
      OBVIOUS
    <3>2. y \in S[t.right[q]]
      BY <1>4, <3>1, Pointers
    <3>3. y > q
      BY <1>5, <3>2 DEF Shape, Ordered
    <3>4. y <= q
      BY <1>2, <2>2
    <3> QED
      <4>1. y \in Int /\ q \in Int
        BY <1>4, <1>5, KeysAssumption
      <4> HIDE DEF q
      <4> QED
        BY <3>3, <3>4, <4>1
  <2> QED
    BY <1>1, <1>4, <1>5, <2>3
<1>8. ASSUME NEW m \in Keys, t.right[m] = y PROVE m = z
  BY <1>1, <1>4, <1>7, <1>8
<1>9. ASSUME NEW m \in Keys, t.left[m] = y PROVE m = q /\ m # z
  <2>1. m = q
    BY <1>1, <1>4, <1>9
  <2>2. y \in S[t.left[m]]
    BY <1>4, <1>9, Pointers
  <2> QED
    BY <1>2, <1>3, <2>1, <2>2
<1> QED
  BY <1>2, <1>4, <1>5, <1>6, <1>7, <1>8, <1>9 DEF y

\* The pointers once the successor has taken the place of the root.
LEMMA TwoChildrenPointers ==
  ASSUME NEW t, NEW N, NEW S, Shape(t, N, S), NEW z \in N, t.parent[z] = NULL,
         t.left[z] # NULL, t.right[z] # NULL
  PROVE  LET y == subtree_minimum(t, t.right[z])
             w == Without(t, z)
         IN /\ w \in Tree /\ w.root = y
            /\ \A m \in Keys :
                 /\ w.left[m] = IF m = z THEN NULL
                                ELSE IF m = y THEN t.left[z]
                                ELSE IF t.left[m] = y THEN t.right[y]
                                ELSE t.left[m]
                 /\ w.right[m] = IF m = z THEN NULL
                                 ELSE IF m = y /\ t.right[z] # y THEN t.right[z]
                                 ELSE t.right[m]
                 /\ w.parent[m] = IF m = z \/ m = y THEN NULL
                                  ELSE IF m = t.left[z] \/ m = t.right[z] THEN y
                                  ELSE IF m = t.right[y] /\ t.right[z] # y
                                       THEN t.parent[y]
                                  ELSE t.parent[m]
<1> USE NullIsNoKey
<1> DEFINE y == subtree_minimum(t, t.right[z])
           q == t.parent[y]
           s == t.right[y]
           r == replace(t, y, s)
           g == HangRight(r, y, t.right[z])
           f == IF q = z THEN t ELSE g
           v == replace(f, z, y)
           u == HangLeft(v, y, t.left[z])
           w == [u EXCEPT !.left[z] = NULL, !.right[z] = NULL,
                          !.parent[z] = NULL]
<1>1. /\ y \in N /\ y \in Keys /\ y # z /\ t.left[y] = NULL /\ q \in Keys
      /\ q = z => y = t.right[z]
      /\ q # z => t.left[q] = y
      /\ \A m \in Keys : t.right[m] = y => m = z
      /\ \A m \in Keys : t.left[m] = y => m = q /\ m # z
  BY Successor
<1>2. /\ z \in Keys /\ t \in Tree /\ s \in Pointer
      /\ \A m \in Keys : t.left[m] \in Pointer /\ t.right[m] \in Pointer
                         /\ t.parent[m] \in Pointer
      /\ t.left[z] \in Keys /\ t.right[z] \in Keys
  <2>1. z \in Keys /\ t \in Tree
    BY DEF Shape
  <2> QED
    BY <1>1, <2>1 DEF Tree, Pointer
<1>3. /\ \A m \in Keys : /\ t.left[m] # NULL => t.parent[t.left[m]] = m
                         /\ t.right[m] # NULL => t.parent[t.right[m]] = m
      /\ \A m \in Keys : t.left[m] # z /\ t.right[m] # z
      /\ s # y
  <2>1. \A m \in Keys : /\ t.left[m] # NULL => t.parent[t.left[m]] = m
                        /\ t.right[m] # NULL => t.parent[t.right[m]] = m
    BY DEF Shape, Linked
  <2> QED
    BY <1>1, <1>2, <2>1
<1>4. Without(t, z) = w
  <2>1. Unlinked(t, z) = u
    BY Zenon DEF Unlinked
  <2> QED
    BY <2>1 DEF Without
<1> HIDE DEF y, q, s, w
<1>5. /\ r \in Tree /\ r.root = IF t.parent[y] = NULL THEN s ELSE t.root
      /\ \A m \in Keys :
           /\ r.left[m] = IF m = t.parent[y] /\ t.left[t.parent[y]] = y THEN s
                          ELSE t.left[m]
           /\ r.right[m] = IF m = t.parent[y] /\ t.left[t.parent[y]] # y THEN s
                           ELSE t.right[m]
           /\ r.parent[m] = IF m = s THEN t.parent[y] ELSE t.parent[m]
  BY <1>1, <1>2, ReplaceIs
<1> HIDE DEF r
<1>6. /\ g \in Tree /\ g.root = r.root
      /\ \A m \in Keys :
           /\ g.right[m] = IF m = y THEN t.right[z] ELSE r.right[m]
           /\ g.left[m] = r.left[m]
           /\ g.parent[m] = IF m = t.right[z] THEN y ELSE r.parent[m]
  <2>1. t.right[z] \in Pointer
    BY <1>2
  <2> QED
    BY <1>1, <1>5, <2>1, HangRightIs
<1> HIDE DEF g
<1>7. /\ f \in Tree
      /\ f.parent[z] = NULL
      /\ \A m \in Keys :
           /\ f.left[m] = IF t.left[m] = y THEN s ELSE t.left[m]
           /\ f.right[m] = IF m = y /\ t.right[z] # y THEN t.right[z]
                           ELSE t.right[m]
           /\ m # y => f.parent[m] = IF m = t.right[z] THEN y
                                     ELSE IF m = s /\ t.right[z] # y THEN q
                                     ELSE t.parent[m]
  <2>1. CASE q = z
    <3>1. f = t /\ t.right[z] = y
      BY <1>1, <2>1
    <3>2. \A m \in Keys : t.left[m] # y
      BY <1>1, <2>1
    <3> QED
      BY <1>1, <1>2, <1>3, <2>1, <3>1, <3>2
  <2>2. CASE q # z
    <3>1. f = g /\ t.parent[y] = q
      BY <2>2 DEF q
    <3>2. t.right[z] # y
      BY <1>2, <1>3, <2>2, <3>1
    <3>3. z # s /\ z # t.right[z]
      BY <1>1, <1>2, <1>3 DEF s
    <3>4. \A m \in Keys : m = q <=> t.left[m] = y
      BY <1>1, <2>2
    <3>5. /\ f \in Tree /\ f.parent[z] = NULL
          /\ \A m \in Keys :
               /\ f.left[m] = IF t.left[m] = y THEN s ELSE t.left[m]
               /\ m # y => f.parent[m] = IF m = t.right[z] THEN y
                                         ELSE IF m = s THEN q ELSE t.parent[m]
      BY <1>2, <1>5, <1>6, <3>1, <3>3, <3>4
    <3>6. \A m \in Keys : f.right[m] = IF m = y THEN t.right[z] ELSE t.right[m]
      BY <1>1, <1>5, <1>6, <2>2, <3>1
    <3> QED
      BY <3>2, <3>5, <3>6
  <2> QED
    BY <2>1, <2>2
<1> HIDE DEF f
<1>8. /\ v \in Tree /\ v.root = y
      /\ \A m \in Keys :
           /\ v.left[m] = f.left[m] /\ v.right[m] = f.right[m]
           /\ v.parent[m] = IF m = y THEN NULL ELSE f.parent[m]
  <2>1. y \in Pointer
    BY <1>1 DEF Pointer
  <2>2. /\ v \in Tree /\ v.root = IF f.parent[z] = NULL THEN y ELSE f.root
        /\ \A m \in Keys :
             /\ v.left[m] = IF m = f.parent[z] /\ f.left[f.parent[z]] = z THEN y
                            ELSE f.left[m]
             /\ v.right[m] = IF m = f.parent[z] /\ f.left[f.parent[z]] # z THEN y
                             ELSE f.right[m]
             /\ v.parent[m] = IF m = y THEN f.parent[z] ELSE f.parent[m]
    <3>1. f \in Tree /\ z \in Keys /\ y \in Pointer
      BY <1>2, <1>7, <2>1
    <3> QED
      BY <3>1, ReplaceIs
  <2> HIDE DEF v
  <2> QED
    BY <1>7, <2>2
<1> HIDE DEF v
<1>9. /\ u \in Tree /\ u.root = v.root
      /\ \A m \in Keys :
           /\ u.left[m] = IF m = y THEN t.left[z] ELSE v.left[m]
           /\ u.right[m] = v.right[m]
           /\ u.parent[m] = IF m = t.left[z] THEN y ELSE v.parent[m]
  <2>1. t.left[z] \in Pointer
    BY <1>2
  <2> QED
    BY <1>1, <1>8, <2>1, HangLeftIs
<1> HIDE DEF u
<1>10. /\ w \in Tree /\ w.root = u.root
       /\ \A m \in Keys :
            /\ w.left[m] = IF m = z THEN NULL ELSE u.left[m]
            /\ w.right[m] = IF m = z THEN NULL ELSE u.right[m]
            /\ w.parent[m] = IF m = z THEN NULL ELSE u.parent[m]
  BY <1>2, <1>9, ClearedIs, Zenon DEF w
<1>11. y # t.left[z]
  BY <1>1, <1>2
<1>12. w \in Tree /\ w.root = y
  BY <1>8, <1>9, <1>10
<1>13. ASSUME NEW m \in Keys
       PROVE  w.left[m] = IF m = z THEN NULL ELSE IF m = y THEN t.left[z]
                          ELSE IF t.left[m] = y THEN s ELSE t.left[m]
  BY <1>7, <1>8, <1>9, <1>10
<1>14. ASSUME NEW m \in Keys
       PROVE  w.right[m] = IF m = z THEN NULL
                           ELSE IF m = y /\ t.right[z] # y THEN t.right[z]
                           ELSE t.right[m]
  BY <1>7, <1>8, <1>9, <1>10
<1>15. ASSUME NEW m \in Keys
       PROVE  w.parent[m] = IF m = z \/ m = y THEN NULL
                            ELSE IF m = t.left[z] \/ m = t.right[z] THEN y
                            ELSE IF m = s /\ t.right[z] # y THEN q
                            ELSE t.parent[m]
  BY <1>7, <1>8, <1>9, <1>10, <1>11
<1> QED
  BY <1>4, <1>12, <1>13, <1>14, <1>15 DEF y, s, q

\* A root with two children leaves its place to its successor.
LEMMA TwoChildren ==
  ASSUME NEW t, NEW N, NEW S, Shape(t, N, S), NEW z \in N, t.parent[z] = NULL,
         t.left[z] # NULL, t.right[z] # NULL
  PROVE  \E R : Shape(Without(t, z), N \ {z}, R)
<1> USE NullIsNoKey
<1> DEFINE y == subtree_minimum(t, t.right[z])
           w == Without(t, z)
           R == Remaining(S, z, y)
<1>1. /\ y \in N /\ y \in Keys /\ y # z /\ y \in S[t.right[z]]
      /\ t.left[y] = NULL /\ t.parent[y] \in Keys
      /\ \A i \in S[t.right[z]] : y <= i
      /\ t.parent[y] = z => y = t.right[z]
      /\ t.parent[y] # z => t.left[t.parent[y]] = y
      /\ \A m \in Keys : t.right[m] = y => m = z
      /\ \A m \in Keys : t.left[m] = y => m = t.parent[y] /\ m # z
  BY Successor
<1>2. /\ w \in Tree /\ w.root = y
      /\ \A m \in Keys :
           /\ w.left[m] = IF m = z THEN NULL ELSE IF m = y THEN t.left[z]
                          ELSE IF t.left[m] = y THEN t.right[y] ELSE t.left[m]
           /\ w.right[m] = IF m = z THEN NULL
                           ELSE IF m = y /\ t.right[z] # y THEN t.right[z]
                           ELSE t.right[m]
           /\ w.parent[m] = IF m = z \/ m = y THEN NULL
                            ELSE IF m = t.left[z] \/ m = t.right[z] THEN y
                            ELSE IF m = t.right[y] /\ t.right[z] # y
                                 THEN t.parent[y]
                            ELSE t.parent[m]
  BY TwoChildrenPointers
<1> HIDE DEF y, w, R
<1>3. /\ N \in SUBSET Keys /\ z \in Keys
      /\ \A m \in Keys : t.left[m] \in Pointer /\ t.right[m] \in Pointer
                         /\ t.parent[m] \in Pointer
      /\ t.left[z] \in Keys /\ t.right[z] \in Keys
  <2>1. N \in SUBSET Keys /\ z \in Keys
    BY DEF Shape
  <2>2. \A m \in Keys : t.left[m] \in Pointer /\ t.right[m] \in Pointer
                        /\ t.parent[m] \in Pointer
    BY Pointers
  <2> QED
    BY <2>1, <2>2 DEF Pointer
<1>4. /\ S[z] = N /\ S[NULL] = {}
      /\ \A m \in N : t.parent[m] = NULL => m = z
      /\ \A m \in N : S[m] \subseteq N
      /\ \A m \in Keys \ N :
           t.left[m] = NULL /\ t.right[m] = NULL /\ t.parent[m] = NULL
      /\ \A m \in Pointer : S[m] \in SUBSET Keys
  BY <1>3 DEF Shape, Rooted, Apart, Covers
<1>5. \A m \in Keys :
        /\ S[m] = {m} \cup S[t.left[m]] \cup S[t.right[m]]
        /\ t.left[m] # NULL => t.parent[t.left[m]] = m
        /\ t.right[m] # NULL => t.parent[t.right[m]] = m
        /\ t.parent[m] # NULL => \/ t.left[t.parent[m]] = m
                                 \/ t.right[t.parent[m]] = m
  BY DEF Shape, Covers, Linked
<1>6. \A m \in Keys : /\ \A i \in S[t.left[m]] : i < m
                      /\ \A i \in S[t.right[m]] : i > m
  BY DEF Shape, Ordered
<1>7. \A m \in Keys : t.left[m] # z /\ t.right[m] # z
  BY <1>3, <1>5
<1>8. /\ z \notin S[t.left[z]] /\ z \notin S[t.right[z]]
      /\ \A i \in S[t.left[z]] : i \notin S[t.right[z]]
      /\ y \notin S[t.right[y]]
      /\ t.left[z] # t.right[z]
  <2>1. /\ z \notin S[t.left[z]] /\ z \notin S[t.right[z]]
        /\ \A i \in S[t.left[z]] : i \notin S[t.right[z]]
        /\ y \notin S[t.right[y]]
    BY <1>1, <1>3, Pointers, Sides
  <2>2. t.left[z] \in S[t.left[z]]
    BY <1>3, Pointers
  <2> QED
    BY <2>1, <2>2
<1>9. /\ R \in [Pointer -> SUBSET Keys] /\ R[z] = {z} /\ R[y] = S[z] \ {z}
      /\ \A m \in Pointer : m # z /\ m # y => R[m] = S[m] \ {y}
      /\ R[NULL] = {}
  <2>1. /\ R = [m \in Pointer |-> R[m]] /\ R[z] = {z} /\ R[y] = S[z] \ {z}
        /\ \A m \in Pointer : m # z /\ m # y => R[m] = S[m] \ {y}
    BY <1>1, <1>3 DEF Remaining, R, Pointer
  <2>2. \A m \in Pointer : R[m] \in SUBSET Keys
    BY <1>1, <1>3, <1>4, <2>1
  <2>3. R[NULL] = {}
    <3>1. NULL \in Pointer /\ NULL # z /\ NULL # y
      BY <1>1, <1>3 DEF Pointer
    <3>2. R[NULL] = S[NULL] \ {y}
      BY <2>1, <3>1
    <3> QED
      BY <1>4, <3>2
  <2> QED
    BY <2>1, <2>2, <2>3
<1>10. /\ w.left[y] = t.left[z] /\ R[t.left[z]] = S[t.left[z]]
       /\ R[w.right[y]] = S[t.right[z]] \ {y}
  <2>1. w.left[y] = t.left[z]
    BY <1>1, <1>2
  <2>2. t.left[z] # y /\ t.left[z] # z
    BY <1>1, <1>3, <1>7
  <2>3. R[t.left[z]] = S[t.left[z]]
    <3>1. R[t.left[z]] = S[t.left[z]] \ {y}
      BY <1>3, <1>9, <2>2
    <3>2. y \notin S[t.left[z]]
      BY <1>1, <1>8
    <3> QED
      BY <3>1, <3>2
  <2>4. CASE t.right[z] # y
    <3>1. w.right[y] = t.right[z]
      BY <1>1, <1>2, <2>4
    <3> QED
      BY <1>3, <1>7, <1>9, <2>1, <2>3, <2>4, <3>1 DEF Pointer
  <2>5. CASE t.right[z] = y
    <3>1. w.right[y] = t.right[y] /\ t.right[y] # y /\ t.right[y] # z
      BY <1>1, <1>2, <1>3, <1>7, <2>5
    <3>2. R[t.right[y]] = S[t.right[y]] \ {y}
      BY <1>1, <1>3, <1>9, <3>1
    <3>3. S[y] = {y} \cup S[t.right[y]]
      BY <1>1, <1>4, <1>5
    <3> QED
      BY <1>8, <2>1, <2>3, <2>5, <3>1, <3>2, <3>3
  <2> QED
    BY <2>4, <2>5
<1>11. ASSUME NEW m \in Keys, m # z, m # y
       PROVE  /\ R[w.left[m]] = S[t.left[m]] \ {y}
              /\ R[w.right[m]] = S[t.right[m]] \ {y}
  <2>1. w.right[m] = t.right[m] /\ t.right[m] # y /\ t.right[m] # z
    BY <1>1, <1>2, <1>7, <1>11
  <2>2. R[w.right[m]] = S[t.right[m]] \ {y}
    BY <1>3, <1>9, <2>1
  <2>3. CASE t.left[m] = y
    <3>1. w.left[m] = t.right[y] /\ t.right[y] # y /\ t.right[y] # z
      BY <1>1, <1>2, <1>7, <1>11, <2>3
    <3>2. R[w.left[m]] = S[t.right[y]] \ {y}
      BY <1>1, <1>3, <1>9, <3>1
    <3>3. S[y] = {y} \cup S[t.right[y]]
      BY <1>1, <1>4, <1>5
    <3> QED
      BY <2>2, <2>3, <3>2, <3>3
  <2>4. CASE t.left[m] # y
    <3>1. w.left[m] = t.left[m] /\ t.left[m] # z
      BY <1>1, <1>2, <1>7, <1>11, <2>4
    <3> QED
      BY <1>3, <1>9, <2>2, <2>4, <3>1
  <2> QED
    BY <2>3, <2>4
<1>12. w.left[z] = NULL /\ w.right[z] = NULL
  BY <1>2, <1>3
<1>13. Covers(w, R)
  <2>1. ASSUME NEW m \in Keys
        PROVE  R[m] = {m} \cup R[w.left[m]] \cup R[w.right[m]]
    <3>1. CASE m = z
      BY <1>9, <1>12, <3>1
    <3>2. CASE m = y
      <4>1. S[z] = {z} \cup S[t.left[z]] \cup S[t.right[z]]
        BY <1>3, <1>5
      <4> QED
        BY <1>1, <1>8, <1>9, <1>10, <3>2, <4>1
    <3>3. CASE m # z /\ m # y
      <4>1. R[m] = S[m] \ {y} /\ S[m] = {m} \cup S[t.left[m]] \cup S[t.right[m]]
        BY <1>5, <1>9, <3>3 DEF Pointer
      <4> QED
        BY <1>11, <3>3, <4>1
    <3> QED
      BY <3>1, <3>2, <3>3
  <2> QED
    BY <1>9, <2>1 DEF Covers
<1>14. Ordered(w, R)
  <2>1. ASSUME NEW m \in Keys
        PROVE  /\ \A i \in R[w.left[m]] : i < m
               /\ \A i \in R[w.right[m]] : i > m
    <3>1. CASE m = z
      BY <1>9, <1>12, <3>1
    <3>2. CASE m = y
      <4>1. ASSUME NEW i \in S[t.left[z]] PROVE i < y
        <5>1. i < z /\ y > z
          BY <1>1, <1>3, <1>6
        <5>2. i \in Int /\ z \in Int /\ y \in Int
          BY <1>1, <1>3, <1>4, KeysAssumption
        <5> QED
          BY <5>1, <5>2
      <4>2. ASSUME NEW i \in S[t.right[z]], i # y PROVE i > y
        <5>1. y <= i
          BY <1>1
        <5>2. i \in Int /\ y \in Int
          BY <1>1, <1>3, <1>4, KeysAssumption
        <5> QED
          BY <4>2, <5>1, <5>2
      <4> QED
        BY <1>10, <3>2, <4>1, <4>2
    <3>3. CASE m # z /\ m # y
      BY <1>6, <1>11, <3>3
    <3> QED
      BY <3>1, <3>2, <3>3
  <2> QED
    BY <2>1 DEF Ordered
<1>15. Linked(w)
  <2>1. ASSUME NEW m \in Keys, w.left[m] # NULL
        PROVE  w.parent[w.left[m]] = m
    <3>1. CASE m = y
      BY <1>1, <1>2, <1>3, <1>7, <2>1, <3>1
    <3>2. CASE m # y /\ t.left[m] = y
      <4>1. m # z /\ w.left[m] = t.right[y] /\ m = t.parent[y]
        BY <1>1, <1>2, <2>1, <3>2
      <4>2. t.right[y] \in Keys /\ t.right[y] # z /\ t.right[y] # y
            /\ t.parent[t.right[y]] = y
        BY <1>1, <1>3, <1>5, <1>7, <2>1, <4>1 DEF Pointer
      <4>3. t.right[y] # t.left[z] /\ t.right[y] # t.right[z] /\ t.right[z] # y
        BY <1>1, <1>3, <1>5, <4>1, <4>2
      <4> QED
        BY <1>2, <4>1, <4>2, <4>3
    <3>3. CASE m # y /\ t.left[m] # y
      <4>1. m # z /\ w.left[m] = t.left[m] /\ t.left[m] \in Keys
        BY <1>2, <1>3, <2>1, <3>3 DEF Pointer
      <4>2. t.parent[t.left[m]] = m /\ t.left[m] # z
        BY <1>3, <1>5, <1>7, <4>1
      <4>3. t.left[m] # t.left[z] /\ t.left[m] # t.right[z]
        BY <1>3, <1>5, <4>1, <4>2
      <4>4. t.left[m] = t.right[y] => FALSE
        BY <1>1, <1>3, <1>5, <3>3, <4>1, <4>2
      <4> QED
        BY <1>2, <3>3, <4>1, <4>2, <4>3, <4>4
    <3> QED
      BY <3>1, <3>2, <3>3
  <2>2. ASSUME NEW m \in Keys, w.right[m] # NULL
        PROVE  w.parent[w.right[m]] = m
    <3>1. CASE m = y /\ t.right[z] # y
      BY <1>1, <1>2, <1>3, <1>7, <2>2, <3>1
    <3>2. CASE ~(m = y /\ t.right[z] # y)
      <4>1. m # z /\ w.right[m] = t.right[m] /\ t.right[m] \in Keys
        BY <1>2, <1>3, <2>2, <3>2 DEF Pointer
      <4>2. t.parent[t.right[m]] = m /\ t.right[m] # z
        BY <1>3, <1>5, <1>7, <4>1
      <4>3. t.right[m] # t.left[z] /\ t.right[m] # t.right[z]
        BY <1>3, <1>5, <4>1, <4>2
      <4>4. t.right[m] # y
        BY <1>1, <4>1
      <4>5. ~(t.right[m] = t.right[y] /\ t.right[z] # y)
        BY <1>1, <1>3, <1>5, <3>2, <4>1, <4>2
      <4> QED
        BY <1>2, <4>1, <4>2, <4>3, <4>4, <4>5
    <3> QED
      BY <3>1, <3>2
  <2>3. ASSUME NEW m \in Keys, w.parent[m] # NULL
        PROVE  w.left[w.parent[m]] = m \/ w.right[w.parent[m]] = m
    <3>1. m # z /\ m # y
      BY <1>2, <2>3
    <3>2. CASE m = t.left[z]
      BY <1>1, <1>2, <3>1, <3>2
    <3>3. CASE m = t.right[z]
      BY <1>1, <1>2, <3>1, <3>3
    <3>4. CASE m # t.left[z] /\ m # t.right[z] /\ m = t.right[y]
               /\ t.right[z] # y
      <4>1. w.parent[m] = t.parent[y]
        BY <1>2, <3>1, <3>4
      <4>2. t.parent[y] # z /\ t.parent[y] # y /\ t.left[t.parent[y]] = y
        BY <1>1, <3>4
      <4> QED
        BY <1>1, <1>2, <3>4, <4>1, <4>2
    <3>5. CASE m # t.left[z] /\ m # t.right[z]
               /\ ~(m = t.right[y] /\ t.right[z] # y)
      <4> DEFINE p == t.parent[m]
      <4>1. w.parent[m] = p /\ p \in Keys
        BY <1>2, <1>3, <2>3, <3>1, <3>5 DEF Pointer
      <4>2. p # z /\ (t.left[p] = m \/ t.right[p] = m)
        BY <1>3, <1>5, <3>5, <4>1
      <4>3. CASE p = y
        <5>1. t.right[y] = m /\ t.right[z] = y
          BY <1>1, <1>3, <3>5, <4>2, <4>3
        <5> QED
          BY <1>1, <1>2, <4>1, <4>3, <5>1
      <4>4. CASE p # y
        BY <1>2, <3>1, <4>1, <4>2, <4>4
      <4> QED
        BY <4>3, <4>4
    <3> QED
      BY <3>2, <3>3, <3>4, <3>5
  <2> QED
    BY <2>1, <2>2, <2>3 DEF Linked
<1>16. Rooted(w, N \ {z}, R)
  <2>1. ASSUME NEW m \in N \ {z}, w.parent[m] = NULL PROVE m = y
    BY <1>1, <1>2, <1>3, <1>4, <2>1
  <2> QED
    BY <1>1, <1>2, <1>4, <1>9, <2>1 DEF Rooted
<1>17. Apart(w, N \ {z}, R)
  <2>1. ASSUME NEW m \in N \ {z} PROVE R[m] \subseteq N \ {z}
    <3>1. m \in Keys /\ z \notin S[m] /\ S[m] \subseteq N
      <4>1. m \in Keys /\ m \in S[z]
        BY <1>3, <1>4
      <4> QED
        BY <1>3, <1>4, <4>1, Sides
    <3> QED
      BY <1>4, <1>9, <3>1 DEF Pointer
  <2>2. ASSUME NEW m \in Keys \ (N \ {z})
        PROVE  w.left[m] = NULL /\ w.right[m] = NULL /\ w.parent[m] = NULL
    <3>1. CASE m = z
      BY <1>2, <3>1
    <3>2. CASE m \notin N
      <4>1. t.left[m] = NULL /\ t.right[m] = NULL /\ t.parent[m] = NULL
        BY <1>4, <3>2
      <4>2. m # y /\ m # t.left[z] /\ m # t.right[z] /\ m # t.right[y]
        BY <1>1, <1>3, <1>5, <4>1, <3>2
      <4> QED
        BY <1>1, <1>2, <4>1, <4>2
    <3> QED
      BY <3>1, <3>2
  <2> QED
    BY <2>1, <2>2 DEF Apart
<1>18. IsFiniteSet(N \ {z})
  BY FS_Subset DEF Shape
<1>19. Shape(w, N \ {z}, R)
  BY <1>2, <1>3, <1>13, <1>14, <1>15, <1>16, <1>17, <1>18 DEF Shape
<1> QED
  BY <1>19 DEF w

\* A removal keeps the search tree of the other nodes.
LEMMA RemoveShape ==
  ASSUME NEW t, NEW N, NEW S, Shape(t, N, S), NEW z \in N, t.parent[z] = NULL
  PROVE  \E R : Shape(Without(t, z), N \ {z}, R)
BY OneChild, TwoChildren

\* The greatest key of a set, or NULL.
Greatest(A) == IF A = {} THEN NULL ELSE CHOOSE j \in A : \A i \in A : i <= j

\* A set whose greatest key is known.
LEMMA GreatestIs ==
  ASSUME NEW A \in SUBSET Keys, NEW j \in A, \A i \in A : i <= j
  PROVE  Greatest(A) = j
<1>1. ASSUME NEW g \in A, \A i \in A : i <= g PROVE g = j
  <2>1. g <= j /\ j <= g
    BY <1>1
  <2>2. g \in Int /\ j \in Int
    BY KeysAssumption
  <2> QED
    BY <2>1, <2>2
<1>2. /\ Greatest(A) \in A
      /\ \A i \in A : i <= Greatest(A)
  <2> DEFINE P(g) == \A i \in A : i <= g
  <2>1. (CHOOSE g \in A : P(g)) \in A /\ P(CHOOSE g \in A : P(g))
    <3>1. \E g \in A : P(g)
      OBVIOUS
    <3> HIDE DEF P
    <3> QED
      BY <3>1
  <2> QED
    BY <2>1 DEF Greatest
<1> QED
  BY <1>1, <1>2

\* The greatest key is the same in a set without keys that others exceed.
LEMMA GreatestOfPart ==
  ASSUME NEW A \in SUBSET Keys, IsFiniteSet(A), NEW B \in SUBSET A,
         \A a \in A : \E b \in B : a <= b
  PROVE  Greatest(A) = Greatest(B)
<1>1. CASE A = {}
  BY <1>1
<1>2. CASE A # {}
  <2>1. PICK j \in A : \A i \in A : i <= j
    BY <1>2, GreatestOf
  <2>2. PICK b \in B : j <= b
    BY <2>1
  <2>3. j = b
    <3>1. b <= j /\ j \in Int /\ b \in Int
      BY <2>1, KeysAssumption
    <3> QED
      BY <2>2, <3>1
  <2>4. Greatest(A) = j
    BY <2>1, GreatestIs
  <2>5. Greatest(B) = j
    BY <2>1, <2>3, GreatestIs
  <2> QED
    BY <2>4, <2>5
<1> QED
  BY <1>1, <1>2

\* Nearest finds the greatest key that is at most k.
LEMMA NearestIs ==
  ASSUME NEW t, NEW N, NEW S, Shape(t, N, S), NEW k \in Keys
  PROVE  Nearest(t, k) = Greatest({j \in N : j <= k})
<1> USE NullIsNoKey
<1> DEFINE less(n) == {j \in S[n] : j < k}
           near == [n \in Pointer |-> [best \in Pointer |->
                      IF k \in S[n] THEN k
                      ELSE Greatest(less(n) \cup ({best} \ {NULL}))]]
           turn(f, n, best) ==
             IF n = NULL THEN best
             ELSE IF n = k THEN n
             ELSE IF n < k
                  THEN f[t.right[n]][IF best = NULL \/ best < n THEN n ELSE best]
             ELSE f[t.left[n]][best]
           Solves(f) ==
             f = [n \in Pointer |-> [best \in Pointer |-> turn(f, n, best)]]
           from == CHOOSE f : Solves(f)
<1>1. Nearest(t, k) = from[t.root][NULL]
  BY DEF Nearest
<1>2. ASSUME NEW n \in Keys
      PROVE  /\ t.left[n] \in Pointer /\ t.right[n] \in Pointer
             /\ S[n] = {n} \cup S[t.left[n]] \cup S[t.right[n]]
             /\ \A i \in S[t.left[n]] : i < n /\ i \in Keys
             /\ \A i \in S[t.right[n]] : i > n /\ i \in Keys
             /\ n \in Int /\ k \in Int
             /\ S[n] \subseteq Keys
  BY Pointers DEF Shape, Covers, Ordered
<1>3. /\ S[NULL] = {}
      /\ \A i \in Keys : i \in Int
      /\ \A n \in Pointer : S[n] \in SUBSET Keys /\ IsFiniteSet(S[n])
  <2>1. ASSUME NEW n \in Pointer PROVE S[n] \in SUBSET Keys /\ IsFiniteSet(S[n])
    <3>1. CASE n = NULL
      BY <3>1, FS_EmptySet DEF Shape, Covers, Pointer
    <3>2. CASE n \in N
      BY <3>2, Pointers, FS_Subset DEF Shape, Apart
    <3>3. CASE n \in Keys \ N
      <4>1. S[n] = {n}
        BY <3>3 DEF Shape, Covers, Apart
      <4> QED
        BY <3>3, <4>1, FS_Singleton
    <3> QED
      BY <3>1, <3>2, <3>3 DEF Pointer
  <2> QED
    BY <2>1, KeysAssumption DEF Shape, Covers
<1>4. ASSUME NEW n \in Pointer, NEW best \in Pointer
      PROVE  near[n][best] = turn(near, n, best)
  <2> DEFINE b == {best} \ {NULL}
  <2>1. near[n][best] = IF k \in S[n] THEN k ELSE Greatest(less(n) \cup b)
    OBVIOUS
  <2>2. ASSUME NEW m \in Pointer, NEW c \in Pointer
        PROVE  near[m][c] = IF k \in S[m] THEN k
                            ELSE Greatest(less(m) \cup ({c} \ {NULL}))
    OBVIOUS
  <2> HIDE DEF near
  <2>3. CASE n = NULL
    <3>1. turn(near, n, best) = best
      BY <2>3
    <3>2. less(n) \cup b = b /\ k \notin S[n]
      BY <1>3, <2>3
    <3>3. CASE best = NULL
      BY <2>1, <3>1, <3>2, <3>3 DEF Greatest
    <3>4. CASE best # NULL
      <4>1. b = {best} /\ best \in Keys /\ best <= best
        BY <1>3, <3>4 DEF Pointer
      <4>2. Greatest(b) = best
        BY <4>1, GreatestIs
      <4> QED
        BY <2>1, <3>1, <3>2, <4>2
    <3> QED
      BY <3>3, <3>4
  <2>4. CASE n # NULL /\ n = k
    <3>1. turn(near, n, best) = n /\ k \in S[n]
      BY <1>2, <2>4
    <3> QED
      BY <2>1, <2>4, <3>1
  <2>5. CASE n # NULL /\ n < k
    <3> DEFINE c == IF best = NULL \/ best < n THEN n ELSE best
               r == t.right[n]
    <3>1. n \in Keys /\ n # k /\ ~(n > k) /\ n \in Int /\ k \in Int
      BY <1>2, <2>5 DEF Pointer
    <3>2. turn(near, n, best) = near[r][c]
      BY <2>5, <3>1
    <3>3. r \in Pointer /\ c \in Pointer /\ c # NULL /\ c \in Keys
      BY <1>2, <3>1 DEF Pointer
    <3>4. k \in S[n] <=> k \in S[r]
      <4>1. k \notin S[t.left[n]]
        <5>1. k \in S[t.left[n]] => k < n
          BY <1>2, <3>1
        <5> QED
          BY <2>5, <3>1, <5>1
      <4> QED
        BY <1>2, <3>1, <4>1
    <3>5. near[r][c] = IF k \in S[r] THEN k
                       ELSE Greatest(less(r) \cup ({c} \ {NULL}))
      BY <2>2, <3>3
    <3>6. Greatest(less(n) \cup b) = Greatest(less(r) \cup {c})
      <4>1. /\ less(n) \cup b \in SUBSET Keys /\ IsFiniteSet(less(n) \cup b)
        <5>1. IsFiniteSet(less(n)) /\ less(n) \in SUBSET Keys
          BY <1>3, <3>1, FS_Subset DEF Pointer
        <5>2. IsFiniteSet(b) /\ b \in SUBSET Keys
          <6>1. IsFiniteSet({best})
            BY FS_Singleton
          <6>2. b \subseteq {best}
            OBVIOUS
          <6> QED
            BY <6>1, <6>2, FS_Subset DEF Pointer
        <5> HIDE DEF less, b
        <5> QED
          BY <5>1, <5>2, FS_Union
      <4>2. n \in less(n)
        BY <1>2, <2>5, <3>1
      <4>3. less(r) \subseteq less(n)
        BY <1>2, <3>1
      <4>4. c \in less(n) \cup b
        BY <4>2
      <4>5. n <= c /\ (best # NULL => best <= c)
        <5>1. CASE best = NULL \/ best < n
          <6>1. best # NULL => best \in Int
            BY <1>3 DEF Pointer
          <6> QED
            BY <3>1, <5>1, <6>1
        <5>2. CASE best # NULL /\ ~(best < n)
          <6>1. best \in Int
            BY <1>3, <5>2 DEF Pointer
          <6> QED
            BY <3>1, <5>2, <6>1
        <5> QED
          BY <5>1, <5>2
      <4>6. ASSUME NEW a \in less(n) \cup b
            PROVE  \E d \in less(r) \cup {c} : a <= d
        <5>1. CASE a = best /\ a # NULL
          BY <4>5, <5>1
        <5>2. CASE a \in less(n) /\ a \in S[r]
          <6>1. a <= a /\ a \in less(r)
            BY <1>3, <3>3, <5>2
          <6> QED
            BY <6>1
        <5>3. CASE a \in less(n) /\ a \notin S[r]
          <6>1. a = n \/ a < n
            BY <1>2, <3>1, <5>3
          <6>2. a \in Int /\ c \in Int
            BY <1>2, <1>3, <3>1, <3>3, <5>3
          <6>3. a <= c
            BY <3>1, <4>5, <6>1, <6>2
          <6> QED
            BY <6>3
        <5> QED
          BY <5>1, <5>2, <5>3
      <4>7. less(r) \cup {c} \in SUBSET (less(n) \cup b)
        BY <4>3, <4>4
      <4> HIDE DEF less, b, c, r
      <4> QED
        BY <4>1, <4>6, <4>7, GreatestOfPart
    <3>7. {c} \ {NULL} = {c}
      BY <3>3
    <3> HIDE DEF less, b, c, r, turn
    <3> QED
      BY <2>1, <3>2, <3>4, <3>5, <3>6, <3>7
  <2>6. CASE n # NULL /\ n > k
    <3>1. n \in Keys /\ n # k /\ ~(n < k) /\ n \in Int /\ k \in Int
      BY <1>2, <2>6 DEF Pointer
    <3>2. turn(near, n, best) = near[t.left[n]][best] /\ t.left[n] \in Pointer
      BY <1>2, <2>6, <3>1
    <3>3. \A i \in S[t.right[n]] : i > k
      <4>1. ASSUME NEW i \in S[t.right[n]] PROVE i > k
        <5>1. i > n /\ i \in Int
          BY <1>2, <1>3, <3>1
        <5> QED
          BY <2>6, <3>1, <5>1
      <4> QED
        BY <4>1
    <3>4. less(n) = less(t.left[n])
      <4>1. ASSUME NEW i \in S[t.right[n]] PROVE ~(i < k)
        <5>1. i > k /\ i \in Int
          BY <1>2, <1>3, <3>1, <3>3
        <5> QED
          BY <3>1, <5>1
      <4> QED
        BY <1>2, <3>1, <4>1
    <3>5. k \in S[n] <=> k \in S[t.left[n]]
      BY <1>2, <3>1, <3>3
    <3>6. near[t.left[n]][best] = IF k \in S[t.left[n]] THEN k
                                  ELSE Greatest(less(t.left[n]) \cup b)
      BY <2>2, <3>2
    <3> HIDE DEF less, b, turn
    <3> QED
      BY <2>1, <3>2, <3>4, <3>5, <3>6
  <2>7. n # NULL => n < k \/ n = k \/ n > k
    <3>1. n # NULL => n \in Int /\ k \in Int
      BY <1>2 DEF Pointer
    <3> QED
      BY <3>1
  <2> QED
    BY <2>3, <2>4, <2>5, <2>6, <2>7
<1>5. Solves(near)
  <2>1. near = [n \in Pointer |-> near[n]]
    OBVIOUS
  <2>2. \A n \in Pointer : near[n] = [best \in Pointer |-> near[n][best]]
    OBVIOUS
  <2> HIDE DEF near, turn
  <2>3. \A n \in Pointer : near[n] = [best \in Pointer |-> turn(near, n, best)]
    BY <1>4, <2>2
  <2> QED
    BY <2>1, <2>3
<1>6. Solves(from)
  <2> HIDE DEF Solves, near
  <2> QED
    BY <1>5
<1>7. \A n \in Pointer : \A best \in Pointer :
        from[n][best] = turn(from, n, best)
  <2> HIDE DEF from, near, turn
  <2> QED
    BY <1>6
<1> HIDE DEF from, near, Solves
<1> DEFINE D == {d \in Keys : \E best \in Pointer :
                                from[d][best] # near[d][best]}
<1>8. ASSUME D # {} PROVE FALSE
  <2>1. PICK d \in D : t.left[d] \notin D /\ t.right[d] \notin D
    <3>1. D \in SUBSET Keys
      OBVIOUS
    <3> HIDE DEF D
    <3> QED
      BY <1>8, <3>1, Lowest
  <2>2. ASSUME NEW m \in {t.left[d], t.right[d]}, NEW best \in Pointer
        PROVE  from[m][best] = near[m][best]
    <3>1. m \in Pointer /\ m \notin D
      BY <1>2, <2>1
    <3>2. CASE m = NULL
      BY <1>4, <1>7, <3>1, <3>2
    <3>3. CASE m # NULL
      BY <3>1, <3>3 DEF Pointer
    <3> QED
      BY <3>2, <3>3
  <2>3. PICK best \in Pointer : from[d][best] # near[d][best]
    OBVIOUS
  <2>4. /\ from[d][best] = turn(from, d, best)
        /\ near[d][best] = turn(near, d, best)
        /\ d \in Keys /\ d \in Pointer
    <3> HIDE DEF turn
    <3> QED
      BY <1>4, <1>7 DEF Pointer
  <2>5. turn(from, d, best) = turn(near, d, best)
    BY <2>2, <2>4
  <2> QED
    BY <2>3, <2>4, <2>5
<1>9. /\ from[t.root][NULL] = near[t.root][NULL] /\ t.root \in Pointer
      /\ NULL \in Pointer
  <2>1. t.root \in Pointer /\ NULL \in Pointer
    BY Pointers DEF Pointer
  <2>2. CASE t.root = NULL
    BY <1>4, <1>7, <2>1, <2>2
  <2>3. CASE t.root # NULL
    BY <1>8, <2>1, <2>3 DEF Pointer
  <2> QED
    BY <2>1, <2>2, <2>3
<1>10. S[t.root] = N
  BY DEF Shape, Rooted
<1>11. near[t.root][NULL] = IF k \in N THEN k ELSE Greatest({j \in N : j < k})
  <2>1. less(t.root) \cup ({NULL} \ {NULL}) = {j \in N : j < k}
    BY <1>10
  <2> HIDE DEF less
  <2>2. near[t.root][NULL]
          = IF k \in S[t.root] THEN k
            ELSE Greatest(less(t.root) \cup ({NULL} \ {NULL}))
    BY <1>9 DEF near
  <2> QED
    BY <1>10, <2>1, <2>2
<1>12. \A j \in N : j \in Int /\ j \in Keys /\ k \in Int
  BY KeysAssumption DEF Shape
<1>13. CASE k \in N
  <2>1. k \in {j \in N : j <= k} /\ {j \in N : j <= k} \in SUBSET Keys
    BY <1>12, <1>13
  <2>2. \A i \in {j \in N : j <= k} : i <= k
    OBVIOUS
  <2>3. Greatest({j \in N : j <= k}) = k
    BY <2>1, <2>2, GreatestIs
  <2> QED
    BY <1>1, <1>9, <1>11, <1>13, <2>3
<1>14. CASE k \notin N
  <2>1. {j \in N : j <= k} = {j \in N : j < k}
    BY <1>12, <1>14
  <2> QED
    BY <1>1, <1>9, <1>11, <1>14, <2>1
<1> QED
  BY <1>13, <1>14

-----------------------------------------------------------------------------
\* The inductive invariant: between two turns of a loop the pointers are a
\* search tree of the allocated nodes, an operation that loops has its node
\* in it, the count lags behind by the node that is being inserted, and a key
\* has a record just when it has a node.
Inv ==
  /\ TypeOK
  /\ Shape(tree, nodes, Subtrees(tree))
  /\ op = "none" => x = NULL
  /\ op # "none" => x \in nodes
  /\ op = "insert" => node_count = Cardinality(nodes) - 1
  /\ op # "insert" => node_count = Cardinality(nodes)
  /\ \A k \in Keys : record[k] # NULL <=> k \in nodes

\* A search tree by any account of its subtrees is one by their definition.
LEMMA ShapeIs ==
  ASSUME NEW t, NEW N, NEW S, Shape(t, N, S)
  PROVE  Shape(t, N, Subtrees(t))
BY SubtreesAre

\* The empty tree is a search tree.
LEMMA InitInv == Init => Inv
<1> USE NullIsNoKey
<1> SUFFICES ASSUME Init PROVE Inv
  OBVIOUS
<1> DEFINE S == [m \in Pointer |-> IF m = NULL THEN {} ELSE {m}]
<1>1. /\ tree.root = NULL
      /\ \A m \in Keys : /\ tree.left[m] = NULL /\ tree.right[m] = NULL
                         /\ tree.parent[m] = NULL
      /\ tree \in Tree
  BY DEF Init, tree_new, Tree, Pointer
<1>2. S[NULL] = {} /\ \A m \in Keys : S[m] = {m}
  BY DEF Pointer
<1>3. S \in [Pointer -> SUBSET Keys]
  BY DEF Pointer
<1> HIDE DEF S
<1>4. Covers(tree, S) /\ Ordered(tree, S) /\ Linked(tree)
  BY <1>1, <1>2, <1>3 DEF Covers, Ordered, Linked
<1>5. Rooted(tree, {}, S) /\ Apart(tree, {}, S)
  BY <1>1, <1>2 DEF Rooted, Apart
<1>6. Shape(tree, {}, S)
  BY <1>1, <1>4, <1>5, FS_EmptySet DEF Shape
<1>7. Shape(tree, nodes, Subtrees(tree))
  BY <1>6, ShapeIs DEF Init
<1>8. TypeOK
  BY <1>1 DEF Init, TypeOK, Pointer
<1>9. node_count = Cardinality(nodes)
  BY FS_EmptySet DEF Init
<1> QED
  BY <1>7, <1>8, <1>9 DEF Init, Inv

\* What Inv says of a search.
LEMMA Searched ==
  ASSUME Inv, NEW k \in Keys
  PROVE  /\ Search(tree, k) = IF k \in nodes THEN k ELSE NULL
         /\ Search(tree, k) = NULL <=> k \notin nodes
BY SearchIs, NullIsNoKey DEF Inv

\* The nodes can be counted.
LEMMA Counted == Inv => IsFiniteSet(nodes) /\ Cardinality(nodes) \in Nat
BY FS_CardinalityType DEF Inv, Shape

\* A turn of splay's loop keeps the invariant.
LEMMA SplayInv == Inv /\ Splay => Inv'
<1> SUFFICES ASSUME Inv, Splay PROVE Inv'
  OBVIOUS
<1>1. x \in nodes /\ tree.parent[x] # NULL /\ tree' = splay_turn(tree, x)
  BY DEF Inv, Splay
<1>2. PICK R : Shape(splay_turn(tree, x), nodes, R)
  BY <1>1, TurnShape DEF Inv
<1>3. Shape(tree, nodes, Subtrees(tree))'
  BY <1>1, <1>2, ShapeIs DEF Splay
<1>4. TypeOK'
  BY <1>3 DEF Inv, Splay, TypeOK, Shape
<1> QED
  BY <1>3, <1>4 DEF Inv, Splay

\* tree_insert of a key that has a node keeps the invariant.
LEMMA UpdateInv ==
  ASSUME Inv, NEW k \in Keys, NEW r \in Records, Update(k, r)
  PROVE  Inv'
<1>1. k \in nodes
  BY Searched DEF Update
<1>2. r # NULL
  BY NullAssumption
<1>3. TypeOK'
  BY DEF Inv, Update, TypeOK
<1>4. \A j \in Keys : record'[j] # NULL <=> j \in nodes'
  BY <1>1, <1>2 DEF Inv, Update, TypeOK
<1> QED
  BY <1>3, <1>4 DEF Inv, Update

\* tree_insert of a new key keeps the invariant.
LEMMA InsertInv ==
  ASSUME Inv, NEW k \in Keys, NEW r \in Records, Insert(k, r)
  PROVE  Inv'
<1>1. k \in Keys \ nodes
  BY Searched DEF Insert
<1>2. tree' = Hung(tree, k)
  BY Zenon DEF Insert, Hung
<1>3. Shape(Hung(tree, k), nodes \cup {k},
            Grown(Subtrees(tree), k, LastSeen(tree, k)))
  BY <1>1, InsertShape DEF Inv
<1>4. /\ op = "none" /\ op' = "insert" /\ x' = k /\ nodes' = nodes \cup {k}
      /\ record' = [record EXCEPT ![k] = r] /\ result' = TRUE
      /\ UNCHANGED node_count
  BY DEF Insert
<1>5. Shape(tree, nodes, Subtrees(tree))'
  BY <1>2, <1>3, <1>4, ShapeIs
<1>6. TypeOK'
  BY <1>4, <1>5 DEF Inv, TypeOK, Shape, Pointer
<1>7. node_count' = Cardinality(nodes') - 1
  <2>1. Cardinality(nodes \cup {k}) = Cardinality(nodes) + 1
    BY <1>1, Counted, FS_AddElement
  <2>2. node_count = Cardinality(nodes)
    BY <1>4 DEF Inv
  <2> QED
    BY <1>4, <2>1, <2>2, Counted
<1>8. r # NULL
  BY NullAssumption
<1>9. \A j \in Keys : record'[j] # NULL <=> j \in nodes'
  BY <1>4, <1>8 DEF Inv, TypeOK
<1> QED
  BY <1>4, <1>5, <1>6, <1>7, <1>9 DEF Inv

\* The end of an insertion keeps the invariant.
LEMMA InsertedInv == Inv /\ Inserted => Inv'
<1> SUFFICES ASSUME Inv, Inserted PROVE Inv'
  OBVIOUS
<1>1. node_count' = Cardinality(nodes') /\ node_count' \in Nat
  <2>1. /\ node_count = Cardinality(nodes) - 1 /\ node_count' = node_count + 1
        /\ nodes' = nodes
    BY DEF Inv, Inserted
  <2> QED
    BY <2>1, Counted
<1>2. TypeOK'
  BY <1>1 DEF Inv, Inserted, TypeOK, Pointer
<1> QED
  BY <1>1, <1>2 DEF Inv, Inserted

\* The end of a removal keeps the invariant.
LEMMA RemovedInv == Inv /\ Removed => Inv'
<1> USE NullIsNoKey
<1> SUFFICES ASSUME Inv, Removed PROVE Inv'
  OBVIOUS
<1>1. x \in nodes /\ x \in Keys /\ tree.parent[x] = NULL /\ op = "remove"
  BY DEF Inv, Removed, Shape
<1>2. tree' = Without(tree, x)
  BY Zenon DEF Removed, Without
<1>3. /\ nodes' = nodes \ {x} /\ op' = "none" /\ x' = NULL
      /\ record' = [record EXCEPT ![x] = NULL]
      /\ node_count' = node_count - 1 /\ result' = record[x]
  BY DEF Removed
<1>4. PICK R : Shape(Without(tree, x), nodes \ {x}, R)
  BY <1>1, RemoveShape DEF Inv
<1>5. Shape(tree, nodes, Subtrees(tree))'
  BY <1>2, <1>3, <1>4, ShapeIs
<1>6. node_count' = Cardinality(nodes') /\ node_count' \in Nat
  <2>1. node_count = Cardinality(nodes)
    BY <1>1 DEF Inv
  <2>2. Cardinality(nodes \ {x}) = Cardinality(nodes) - 1
    BY <1>1, Counted, FS_RemoveElement
  <2>3. IsFiniteSet(nodes')
    BY <1>5 DEF Shape
  <2>4. Cardinality(nodes') \in Nat
    BY <2>3, FS_CardinalityType
  <2> QED
    BY <1>3, <2>1, <2>2, <2>4
<1>7. TypeOK'
  BY <1>1, <1>3, <1>5, <1>6 DEF Inv, TypeOK, Shape, Pointer
<1>8. \A j \in Keys : record'[j] # NULL <=> j \in nodes'
  BY <1>1, <1>3 DEF Inv, TypeOK
<1> QED
  BY <1>3, <1>5, <1>6, <1>7, <1>8 DEF Inv

\* What a look-up returns is a record or nothing.
LEMMA RecordIs ==
  ASSUME Inv, NEW n \in Keys \cup {NULL}
  PROVE  (IF n = NULL THEN NULL ELSE record[n]) \in Records \cup {NULL, TRUE}
BY DEF Inv, TypeOK

\* Nearest finds a node or nothing.
LEMMA NearestType ==
  ASSUME Inv, NEW k \in Keys
  PROVE  Nearest(tree, k) \in Keys \cup {NULL}
<1> DEFINE A == {j \in nodes : j <= k}
<1>1. Nearest(tree, k) = Greatest(A)
  BY NearestIs DEF Inv
<1>2. A \in SUBSET Keys /\ IsFiniteSet(A)
  <2>1. A \subseteq nodes /\ IsFiniteSet(nodes) /\ nodes \in SUBSET Keys
    BY DEF Inv, Shape
  <2> HIDE DEF A
  <2> QED
    BY <2>1, FS_Subset
<1> HIDE DEF A
<1>3. CASE A = {}
  BY <1>1, <1>3 DEF Greatest
<1>4. CASE A # {}
  <2>1. PICK j \in A : \A i \in A : i <= j
    BY <1>2, <1>4, GreatestOf
  <2>2. Greatest(A) = j
    BY <1>2, <2>1, GreatestIs
  <2> QED
    BY <1>1, <1>2, <2>2
<1> QED
  BY <1>3, <1>4

\* What only looks keeps the invariant.
LEMMA LookInv ==
  ASSUME Inv, NEW k \in Keys,
         RemoveNothing(k) \/ tree_find(k) \/ tree_find_nearest(k)
  PROVE  Inv'
<1>1. /\ UNCHANGED <<tree, nodes, record, node_count, op, x>>
      /\ result' \in Records \cup {NULL, TRUE}
  <2>1. CASE RemoveNothing(k)
    BY <2>1 DEF RemoveNothing
  <2>2. CASE tree_find(k)
    <3>1. Search(tree, k) \in Keys \cup {NULL}
      BY Searched
    <3> QED
      BY <2>2, <3>1, RecordIs DEF tree_find
  <2>3. CASE tree_find_nearest(k)
    BY <2>3, NearestType, RecordIs DEF tree_find_nearest
  <2> QED
    BY <2>1, <2>2, <2>3
<1>2. TypeOK'
  BY <1>1 DEF Inv, TypeOK
<1> QED
  BY <1>1, <1>2 DEF Inv

\* The beginning of a removal keeps the invariant.
LEMMA RemoveInv ==
  ASSUME Inv, NEW k \in Keys, Remove(k)
  PROVE  Inv'
<1>1. k \in nodes
  BY Searched DEF Remove
<1>2. TypeOK'
  BY DEF Inv, Remove, TypeOK, Pointer
<1> QED
  BY <1>1, <1>2 DEF Inv, Remove

\* Every step keeps the invariant.
LEMMA NextInv == Inv /\ [Next]_vars => Inv'
<1> SUFFICES ASSUME Inv, [Next]_vars PROVE Inv'
  OBVIOUS
<1>1. CASE UNCHANGED vars
  BY <1>1 DEF Inv, TypeOK, vars
<1>2. CASE Loop
  BY <1>2, SplayInv, InsertedInv, RemovedInv DEF Loop
<1>3. ASSUME NEW k \in Keys, NEW r \in Records, Update(k, r) \/ Insert(k, r)
      PROVE  Inv'
  BY <1>3, UpdateInv, InsertInv
<1>4. ASSUME NEW k \in Keys,
             RemoveNothing(k) \/ tree_find(k) \/ tree_find_nearest(k)
      PROVE  Inv'
  BY <1>4, LookInv
<1>5. ASSUME NEW k \in Keys, Remove(k) PROVE Inv'
  BY <1>5, RemoveInv
<1> QED
  BY <1>1, <1>2, <1>3, <1>4, <1>5 DEF Next

\* The invariant holds in every state.
THEOREM Invariant == Spec => []Inv
BY InitInv, NextInv, PTL DEF Spec

\* The tree is a search tree of all the nodes in every state, also between the
\* rotations of a loop, and node_count counts them between operations.
THEOREM StaysSearchTree == Spec => []SearchTree
<1>1. Inv => SearchTree
  <2> SUFFICES ASSUME Inv PROVE SearchTree
    OBVIOUS
  <2> DEFINE S == Subtrees(tree)
  <2>1. Shape(tree, nodes, S) /\ TypeOK /\ nodes \in SUBSET Keys
    BY DEF Inv, Shape
  <2>2. InSubtree(tree.root) = nodes
    BY <2>1 DEF InSubtree, Shape, Rooted
  <2>3. tree.root # NULL => tree.parent[tree.root] = NULL
    BY <2>1 DEF Shape, Rooted
  <2>4. op = "none" => node_count = Cardinality(nodes)
    BY DEF Inv
  <2> HIDE DEF S
  <2>5. ASSUME NEW n \in nodes
        PROVE  /\ \A m \in S[tree.left[n]] : m < n
               /\ \A m \in S[tree.right[n]] : m > n
               /\ \A m \in {tree.left[n], tree.right[n]} \ {NULL} :
                    tree.parent[m] = n
    BY <2>1 DEF Shape, Ordered, Linked
  <2> QED
    BY <2>1, <2>2, <2>3, <2>4, <2>5 DEF SearchTree, InSubtree, S
<1> QED
  BY <1>1, Invariant, PTL

\* Every turn of splay's loop brings its node two links nearer to the root, or
\* the one that is left, and no node more than two links further from it.
THEOREM SplayAlwaysClimbs == Spec => SplayClimbs
<1>1. ASSUME Inv, Splay
      PROVE  /\ Depth(tree', x) = Depth(tree, x)
                                  - (IF Depth(tree, x) > 1 THEN 2 ELSE 1)
             /\ \A n \in nodes : Depth(tree', n) <= Depth(tree, n) + 2
  <2> DEFINE S == Subtrees(tree)
  <2>1. /\ x \in nodes /\ tree.parent[x] # NULL /\ tree' = splay_turn(tree, x)
        /\ Shape(tree, nodes, S) /\ nodes \in SUBSET Keys
    BY <1>1 DEF Inv, Splay, Shape
  <2> HIDE DEF S
  <2>2. PICK R :
          /\ Shape(splay_turn(tree, x), nodes, R)
          /\ Above(R, x) = Above(S, x) - IF Above(S, x) > 1 THEN 2 ELSE 1
          /\ \A m \in Keys : Above(R, m) <= Above(S, m) + 2
    BY <2>1, TurnShape
  <2>3. \A n \in Keys : /\ Depth(tree, n) = Above(S, n)
                        /\ Depth(tree', n) = Above(R, n)
    BY <2>1, <2>2, DepthIs
  <2> QED
    BY <2>1, <2>2, <2>3
<1>2. Inv /\ [Next]_vars =>
        [Splay => /\ Depth(tree', x) = Depth(tree, x)
                                       - (IF Depth(tree, x) > 1 THEN 2 ELSE 1)
                  /\ \A n \in nodes : Depth(tree', n) <= Depth(tree, n) + 2]_vars
  BY <1>1
<1> QED
  BY <1>2, Invariant, PTL DEF Spec, SplayClimbs

-----------------------------------------------------------------------------
\* The map that the tree is: what the records of the nodes in it say.
Shown ==
  [k \in Keys |-> IF k \in InSubtree(tree.root) THEN record[k] ELSE NULL]

\* It is `record`: every node is in the tree and no other key has a record.
LEMMA ShownIs == Inv => Shown = record
<1> SUFFICES ASSUME Inv PROVE Shown = record
  OBVIOUS
<1>1. InSubtree(tree.root) = nodes
  BY DEF Inv, Shape, Rooted, InSubtree
<1>2. record \in [Keys -> Records \cup {NULL}]
  BY DEF Inv, TypeOK
<1>3. \A k \in Keys : k \notin nodes => record[k] = NULL
  BY DEF Inv
<1> QED
  BY <1>1, <1>2, <1>3 DEF Shown

\* An insertion is one step of the map, when its record is stored.
LEMMA StoreIs ==
  ASSUME Inv, Inv', NEW k \in Keys, NEW r \in Records,
         Update(k, r) \/ Insert(k, r), Shown = record, Shown' = record'
  PROVE  Map!Insert(k, r)
<1>1. record' = [record EXCEPT ![k] = r] /\ result' = TRUE
  BY DEF Update, Insert
<1> QED
  BY <1>1 DEF Map!Insert, Shown

\* A removal is one step of the map: at once when there is nothing to remove,
\* and at its end otherwise, when it returns the record.
LEMMA TakeIs ==
  ASSUME Inv, Shown = record, Shown' = record',
         NEW k \in Keys, RemoveNothing(k) \/ (Removed /\ k = x)
  PROVE  Map!Remove(k)
<1>1. record' = [record EXCEPT ![k] = NULL] /\ result' = record[k]
  <2>1. CASE RemoveNothing(k)
    <3>1. record[k] = NULL
      BY <2>1, Searched DEF RemoveNothing, Inv
    <3>2. [record EXCEPT ![k] = NULL] = record
      BY <3>1 DEF Inv, TypeOK
    <3> QED
      BY <2>1, <3>1, <3>2 DEF RemoveNothing
  <2>2. CASE Removed /\ k = x
    BY <2>2 DEF Removed
  <2> QED
    BY <2>1, <2>2
<1> QED
  BY <1>1 DEF Map!Remove, Shown

\* A search returns what the map has for the key.
LEMMA FindIs ==
  ASSUME Inv, Shown = record, Shown' = record', NEW k \in Keys, tree_find(k)
  PROVE  Map!Find(k)
<1>1. record' = record /\ result' = record[k]
  BY Searched DEF tree_find, Inv
<1> QED
  BY <1>1 DEF Map!Find, Shown

\* A search for the nearest key returns what the map has for the largest key
\* that is not larger.
LEMMA FindNearestIs ==
  ASSUME Inv, Shown = record, Shown' = record', NEW k \in Keys,
         tree_find_nearest(k)
  PROVE  Map!FindNearest(k)
<1> DEFINE A == {j \in nodes : j <= k}
           below == {j \in Keys : j <= k /\ record[j] # NULL}
<1>1. A = below
  BY DEF Inv, Shape
<1>2. Nearest(tree, k) = Greatest(A)
  BY NearestIs DEF Inv
<1>3. /\ record' = record
      /\ result' = IF Nearest(tree, k) = NULL THEN NULL
                   ELSE record[Nearest(tree, k)]
  BY DEF tree_find_nearest
<1>4. Nearest(tree, k) \in Pointer /\ A \subseteq Keys /\ IsFiniteSet(A)
  <2>1. A \subseteq nodes /\ IsFiniteSet(nodes) /\ nodes \subseteq Keys
    BY DEF Inv, Shape
  <2> HIDE DEF A
  <2> QED
    BY <2>1, NearestType, FS_Subset DEF Pointer
<1> HIDE DEF A
<1>5. result' = IF A = {} THEN NULL
                ELSE record[CHOOSE j \in A : \A i \in A : i <= j]
  <2>1. CASE A = {}
    BY <1>2, <1>3, <2>1 DEF Greatest
  <2>2. CASE A # {}
    <3>1. PICK j \in A : \A i \in A : i <= j
      BY <1>4, <2>2, GreatestOf
    <3>2. Greatest(A) = j /\ j # NULL
      BY <1>4, <3>1, GreatestIs, NullIsNoKey
    <3>3. Greatest(A) = CHOOSE m \in A : \A i \in A : i <= m
      BY <2>2 DEF Greatest
    <3> QED
      BY <1>2, <1>3, <2>2, <3>2, <3>3
  <2> QED
    BY <2>1, <2>2
<1>6. /\ result' = IF below = {} THEN NULL
                   ELSE record[CHOOSE j \in below : \A i \in below : i <= j]
      /\ UNCHANGED record
  BY <1>1, <1>3, <1>5
<1> QED
  BY <1>6 DEF Map!FindNearest, Shown

\* The tree implements the map: an operation takes effect in one of its steps,
\* and the turns of its loop change nothing that the map shows.
THEOREM ImplementsMap == Spec => IsMap
<1>1. Init => Map!Init
  <2> SUFFICES ASSUME Init PROVE Map!Init
    OBVIOUS
  <2>1. Shown = record
    BY InitInv, ShownIs
  <2> QED
    BY <2>1 DEF Init, Map!Init, Shown
<1>2. (Inv => Shown = record)'
  BY ShownIs, PTL
<1>3. Inv /\ Inv' /\ [Next]_vars => [Map!Next]_<<Shown, result>>
  <2> SUFFICES ASSUME Inv, Inv', [Next]_vars
               PROVE  [Map!Next]_<<Shown, result>>
    OBVIOUS
  <2>1. Shown = record /\ Shown' = record'
    BY <1>2, ShownIs
  <2>2. ASSUME UNCHANGED <<record, result>>
        PROVE  UNCHANGED <<Shown, result>>
    BY <2>1, <2>2
  <2>3. CASE UNCHANGED vars
    BY <2>2, <2>3 DEF vars
  <2>4. CASE Splay \/ Inserted
    BY <2>2, <2>4 DEF Splay, Inserted
  <2>5. CASE Removed
    <3>1. PICK k \in Keys : k = x
      BY <2>5 DEF Removed, Inv, Shape
    <3>2. Map!Remove(k)
      BY <2>1, <2>5, <3>1, TakeIs
    <3> QED
      BY <3>1, <3>2 DEF Map!Next
  <2>6. ASSUME NEW k \in Keys, NEW r \in Records, Update(k, r) \/ Insert(k, r)
        PROVE  Map!Next
    BY <2>1, <2>6, StoreIs DEF Map!Next
  <2>7. ASSUME NEW k \in Keys,
               RemoveNothing(k) \/ tree_find(k) \/ tree_find_nearest(k)
        PROVE  Map!Next
    BY <2>1, <2>7, TakeIs, FindIs, FindNearestIs DEF Map!Next
  <2>8. ASSUME NEW k \in Keys, Remove(k)
        PROVE  UNCHANGED <<Shown, result>>
    BY <2>2, <2>8 DEF Remove
  <2> QED
    BY <2>3, <2>4, <2>5, <2>6, <2>7, <2>8 DEF Next, Loop
<1> QED
  BY <1>1, <1>3, Invariant, PTL DEF Spec, IsMap, Map!Spec, Shown
=============================================================================
