-------------------------------- MODULE BSTree --------------------------------
(***************************************************************************)
(* The binary search tree of src/src/bstree.c as a tree of values.  The    *)
(* order is the other way round: keys that are not below a node's go to    *)
(* its left, equal ones too.  The parent links of the code always lead     *)
(* back along the child links, so the tree of values has all there is.     *)
(***************************************************************************)
EXTENDS Integers, Sequences, SearchBase

Node(k, v, left, right) == [key |-> k, data |-> v, left |-> left, right |-> right]

RECURSIVE With(_, _, _)
(* BSTreeNode_set *)
With(t, k, v) ==
  IF t = NULL THEN Node(k, v, NULL, NULL)
  ELSE IF t.key <= k THEN [t EXCEPT !.left = With(@, k, v)]
  ELSE [t EXCEPT !.right = With(@, k, v)]

(* BSTree_set; below the root a failed allocation goes unnoticed. *)
Insert(t, k, v) == {Out(With(t, k, v), "stored"), Out(t, "nomem")}

RECURSIVE Find(_, _)
(* BSTreeNode_get_node *)
Find(t, k) ==
  IF t = NULL THEN NULL
  ELSE IF t.key = k THEN t
  ELSE IF t.key > k THEN Find(t.right, k) ELSE Find(t.left, k)

(* BSTree_get *)
Get(t, k) == {Out(t, IF Find(t, k) = NULL THEN NULL ELSE Find(t, k).data)}

(* BSTreeNode_delete at node t itself.  With two children, the right one   *)
(* gives its key to t and goes; BSTreeNode_swap leaves t's data in both.   *)
Unlinked(t) ==
  IF t.left # NULL /\ t.right # NULL
  THEN [t EXCEPT !.key = t.right.key, !.right = t.right.right]
  ELSE IF t.left # NULL THEN t.left ELSE t.right

RECURSIVE Without(_, _)
Without(t, k) ==
  IF t = NULL THEN NULL
  ELSE IF t.key < k THEN [t EXCEPT !.left = Without(@, k)]
  ELSE IF t.key > k THEN [t EXCEPT !.right = Without(@, k)]
  ELSE Unlinked(t)

(* BSTreeNode_find_min never moves on from a node that has a left child. *)
Hangs(n) ==
  IF n = NULL THEN FALSE
  ELSE IF n.left = NULL \/ n.right = NULL THEN FALSE
  ELSE n.right.left # NULL

(* The right child's data is overwritten. *)
LosesData(n) ==
  IF n.left = NULL \/ n.right = NULL THEN FALSE ELSE n.right.data # n.data

(* BSTree_delete *)
Delete(t, k) ==
  LET n == Find(t, k) IN
  {IF n = NULL THEN Out(t, NULL)
   ELSE IF Hangs(n) THEN Lost(t, "hangs", "none")
   ELSE Lost(Without(t, k), n.data, IF LosesData(n) THEN "keys" ELSE "all")}

RECURSIVE Walk(_, _)
(* BSTreeNode_traverse_*: the keys in the order in which a callback that   *)
(* always goes on gets them.                                               *)
Walk(op, t) ==
  IF t = NULL THEN <<>>
  ELSE CASE op = "postorder" -> Walk(op, t.left) \o Walk(op, t.right) \o <<t.key>>
         [] op = "inorder"   -> Walk(op, t.left) \o <<t.key>> \o Walk(op, t.right)
         [] op = "preorder"  -> <<t.key>> \o Walk(op, t.left) \o Walk(op, t.right)

(* BSTree_traverse *)
Traverse(op, t) == {Out(t, Walk(op, t))}

-------------------------------------------------------------------------------
RECURSIVE Entries(_)
(* The entries from right to left: in ascending order. *)
Entries(t) ==
  IF t = NULL THEN <<>>
  ELSE Entries(t.right) \o << <<t.key, t.data>> >> \o Entries(t.left)
===============================================================================
