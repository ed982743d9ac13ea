-------------------------------- MODULE AVLTree --------------------------------
(***************************************************************************)
(* The AVL tree of src/src/avltree.c as a tree of values: NULL is          *)
(* TREE_EMPTY, child[0] is LEFT and child[1] is RIGHT.  The code changes   *)
(* the tree through the links that lead to its nodes; each operator here   *)
(* returns the tree that such a link leads to afterwards.                  *)
(***************************************************************************)
EXTENDS Integers, Sequences, FiniteSetsExt, SearchBase

Height(t) == IF t = NULL THEN -1 ELSE t.height

Size(t) == IF t = NULL THEN 0 ELSE t.size

Pair(left, right) == [d \in 0..1 |-> IF d = 0 THEN left ELSE right]

(* treeAggregateFix: height and size are computed from the children's. *)
AggregateFix(t) ==
  IF t = NULL THEN NULL
  ELSE [t EXCEPT !.height = 1 + Max({Height(t.child[0]), Height(t.child[1])}),
                 !.size = 1 + Size(t.child[0]) + Size(t.child[1])]

(* treeRotate: the child on side d takes the place of its parent y. *)
Rotate(y, d) ==
  LET x == y.child[d] IN
  AggregateFix([x EXCEPT !.child[1 - d] = AggregateFix([y EXCEPT !.child[d] = x.child[1 - d]])])

(* Is the subtree on side d too high, and does the inner grandchild rise?  *)
TooHigh(t, d) == Height(t.child[d]) >= Height(t.child[1 - d]) + 2

Bent(c, d) == Height(c.child[1 - d]) > Height(c.child[d])

Straightened(t, d) ==
  IF Bent(t.child[d], d) THEN [t EXCEPT !.child[d] = Rotate(@, 1 - d)] ELSE t

(* Mutant: a bent branch is rotated like a straight one. *)
RebalanceSingle(t) ==
  IF t = NULL THEN NULL
  ELSE IF TooHigh(t, 0) THEN Rotate(t, 0)
  ELSE IF TooHigh(t, 1) THEN Rotate(t, 1)
  ELSE t

(* treeRebalance: the first side that is too high is rotated up. *)
Rebalance(t) ==
  IF t = NULL THEN NULL
  ELSE IF TooHigh(t, 0) THEN Rotate(Straightened(t, 0), 0)
  ELSE IF TooHigh(t, 1) THEN Rotate(Straightened(t, 1), 1)
  ELSE t

Fixed(t) == Rebalance(AggregateFix(t))

NewNode(k, v) ==
  [key |-> k, data |-> v, height |-> 0, size |-> 1, child |-> Pair(NULL, NULL)]

(* The side on which the search for k goes on. *)
Side(t, k) == IF t.key < k THEN 1 ELSE 0

RECURSIVE Find(_, _)
(* avltreeFind: the node with key k, where the walk meets one. *)
Find(t, k) ==
  IF t = NULL THEN NULL
  ELSE IF t.key = k THEN t
  ELSE Find(t.child[Side(t, k)], k)

RECURSIVE With(_, _, _)
With(t, k, v) ==
  IF t = NULL THEN Fixed(NewNode(k, v))
  ELSE IF t.key = k THEN t
  ELSE Fixed([t EXCEPT !.child[Side(t, k)] = With(@, k, v)])

(* avltreeInsert.  Without memory for the node the program writes to NULL  *)
(* (Create_AVLTreeNode).                                                   *)
Insert(t, k, v) ==
  IF Find(t, k) # NULL THEN {Out(t, "kept")}
  ELSE {Out(With(t, k, v), "stored"), Lost(t, "crash", "none")}

RECURSIVE MinNode(_)
MinNode(t) == IF t.child[0] = NULL THEN t ELSE MinNode(t.child[0])

RECURSIVE WithoutMin(_)
WithoutMin(t) ==
  Fixed(IF t.child[0] = NULL THEN t.child[1] ELSE [t EXCEPT !.child[0] = WithoutMin(@)])

(* avltreeDeleteMin returns the data of the node it frees. *)
DeleteMin(t) ==
  {IF t = NULL THEN Out(NULL, NULL) ELSE Out(WithoutMin(t), MinNode(t).data)}

(* What is left of node t: its data under what DeleteMin returned for the  *)
(* next key.                                                               *)
Spliced(t) ==
  IF t.child[1] = NULL THEN t.child[0]
  ELSE [t EXCEPT !.key = MinNode(t.child[1]).data, !.child[1] = WithoutMin(@)]

RECURSIVE Without(_, _)
Without(t, k) ==
  IF t = NULL THEN NULL
  ELSE IF t.key = k THEN Fixed(Spliced(t))
  ELSE Fixed([t EXCEPT !.child[Side(t, k)] = Without(@, k)])

(* The next key is the data that was stored with it, so all is lost unless *)
(* they are the same; the node keeps the data of the key that is gone.     *)
TrustAfterDelete(n) ==
  IF n = NULL THEN "all"
  ELSE IF n.child[1] = NULL THEN "all"
  ELSE IF MinNode(n.child[1]).data # MinNode(n.child[1]).key THEN "none"
  ELSE IF MinNode(n.child[1]).data # n.data THEN "keys"
  ELSE "all"

(* avltreeDelete *)
Delete(t, k) == {Lost(Without(t, k), NULL, TrustAfterDelete(Find(t, k)))}

(* avltreeFind and avltreeContains *)
Get(t, k) == {Out(t, IF Find(t, k) = NULL THEN NULL ELSE Find(t, k).data)}

-------------------------------------------------------------------------------
RECURSIVE Entries(_)
(* The entries from left to right. *)
Entries(t) ==
  IF t = NULL THEN <<>>
  ELSE Entries(t.child[0]) \o << <<t.key, t.data>> >> \o Entries(t.child[1])

RECURSIVE Balanced(_)
(* avltreeSanityCheck: heights and sizes are right at every node, and the  *)
(* children's heights differ by one at most.                               *)
Balanced(t) ==
  t # NULL =>
    /\ t = AggregateFix(t)
    /\ Height(t.child[0]) - Height(t.child[1]) \in -1..1
    /\ Balanced(t.child[0]) /\ Balanced(t.child[1])
===============================================================================
