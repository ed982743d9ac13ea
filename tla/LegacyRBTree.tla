------------------------------ MODULE LegacyRBTree ------------------------------
(***************************************************************************)
(* The red-black tree of src/src/rbtree.c, pointer by pointer.  A tree t   *)
(* is [root, left, right, parent, color, key, data]; a node with no key is *)
(* free.  The colour 2 is DOUBLE_BLACK, 1 BLACK and 0 RED.  What the code  *)
(* writes out twice, for left and right, has the side as a parameter.      *)
(*                                                                         *)
(* t.marked is a history variable: a delete left a node DOUBLE_BLACK.      *)
(***************************************************************************)
EXTENDS Integers, Sequences, FiniteSetsExt, SearchBase

CONSTANT Nodes  (* the nodes memory has room for *)

RED == 0
BLACK == 1
DOUBLE_BLACK == 2

Blank == [n \in Nodes |-> NULL]

(* New_RbTree *)
Empty ==
  [root |-> NULL, left |-> Blank, right |-> Blank, parent |-> Blank,
   color |-> [n \in Nodes |-> RED], key |-> Blank, data |-> Blank, marked |-> FALSE]

Free(t) == {n \in Nodes : t.key[n] = NULL}

(* colorOf, parentOf, leftOf and rightOf, setColor: they tolerate NULL. *)
ColorOf(t, n) == IF n = NULL THEN BLACK ELSE t.color[n]

At(t, field, n) == IF n = NULL THEN NULL ELSE t[field][n]

SetColor(t, n, c) == IF n = NULL THEN t ELSE [t EXCEPT !.color[n] = c]

SetParent(t, n, p) == IF n = NULL THEN t ELSE [t EXCEPT !.parent[n] = p]

Other(side) == IF side = "left" THEN "right" ELSE "left"

SideOf(t, n) == IF t.left[t.parent[n]] = n THEN "left" ELSE "right"

(* leftRotate with up = "right", rightRotate with up = "left": the child   *)
(* of pivot on side up takes its place, and becomes black as the root.     *)
(* Mutant first: the inner grandchild keeps its parent.                    *)
RotateOneWay(t, pivot, up) ==
  LET old   == t[up][pivot]
      inner == t[Other(up)][old]
      p     == t.parent[pivot]
      t1    == IF p = NULL THEN [t EXCEPT !.root = old, !.color[old] = BLACK]
               ELSE [t EXCEPT ![SideOf(t, pivot)][p] = old]
  IN  [t1 EXCEPT !.parent[old] = p, ![Other(up)][old] = pivot,
                 !.parent[pivot] = old, ![up][pivot] = inner]

Rotate(t, pivot, up) ==
  LET old   == t[up][pivot]
      inner == t[Other(up)][old]
      p     == t.parent[pivot]
      t1    == IF p = NULL THEN [t EXCEPT !.root = old, !.color[old] = BLACK]
               ELSE [t EXCEPT ![SideOf(t, pivot)][p] = old]
      t2    == [t1 EXCEPT !.parent[old] = p, ![Other(up)][old] = pivot,
                          !.parent[pivot] = old, ![up][pivot] = inner]
  IN  SetParent(t2, inner, pivot)

(* balanceAfterInsert.  A red uncle: the reds move up to the grandparent.  *)
Recolored(t, p, uncle, g) ==
  SetColor(SetColor(SetColor(t, p, BLACK), uncle, BLACK), g, RED)

(* A black uncle: p goes on top of g, after n went on top of p if it hangs *)
(* on p's inner side.                                                      *)
Raised(t, p, g, side) == Rotate(SetColor(SetColor(t, p, BLACK), g, RED), g, side)

Unbent(t, n, p, side) == IF n = t[Other(side)][p] THEN Rotate(t, p, Other(side)) ELSE t

Upper(t, n, p, side) == IF n = t[Other(side)][p] THEN n ELSE p

BlackRoot(t) == SetColor(t, t.root, BLACK)

RECURSIVE BalanceAfterInsert(_, _)
BalanceAfterInsert(t, n) ==
  LET p == t.parent[n] IN
  IF ColorOf(t, p) # RED THEN BlackRoot(t)
  ELSE LET g    == t.parent[p]
           side == SideOf(t, p)
           uncle == t[Other(side)][g]
       IN  IF uncle # NULL /\ ColorOf(t, uncle) = RED
           THEN BalanceAfterInsert(Recolored(t, p, uncle, g), g)
           ELSE BlackRoot(Raised(Unbent(t, n, p, side), Upper(t, n, p, side), g, side))

RECURSIVE Find(_, _, _)
(* RbTree_getNode *)
Find(t, n, k) ==
  IF n = NULL THEN NULL
  ELSE IF t.key[n] = k THEN n
  ELSE Find(t, IF t.key[n] > k THEN t.left[n] ELSE t.right[n], k)

RECURSIVE Leaf(_, _, _)
(* The node that a new node with key k is hung on: equal keys go right. *)
Leaf(t, n, k) ==
  LET down == IF k < t.key[n] THEN t.left[n] ELSE t.right[n]
  IN  IF down = NULL THEN n ELSE Leaf(t, down, k)

Hung(t, n, k) ==
  IF t.root = NULL THEN [t EXCEPT !.root = n]
  ELSE LET p == Leaf(t, t.root, k)
       IN  [t EXCEPT ![IF k < t.key[p] THEN "left" ELSE "right"][p] = n, !.parent[n] = p]

With(t, n, k, v) ==
  BalanceAfterInsert([Hung(t, n, k) EXCEPT !.key[n] = k, !.data[n] = v, !.color[n] = RED], n)

(* RbNode_insert; which node malloc returns is of no consequence.  Without *)
(* memory the program writes to NULL.                                      *)
Insert(t, k, v) ==
  {Lost(t, "crash", "none")}
    \cup {Out(With(t, n, k, v), "stored") : n \in IF Free(t) = {} THEN {} ELSE {Min(Free(t))}}

(* RbTree_get *)
Get(t, k) == {Out(t, At(t, "data", Find(t, t.root, k)))}

(* RbTree_update; a key that is not there makes it follow NULL. *)
Update(t, k, v) ==
  LET n == Find(t, t.root, k) IN
  {IF n = NULL THEN Lost(t, "crash", "none") ELSE Out([t EXCEPT !.data[n] = v], NULL)}

-------------------------------------------------------------------------------
(* RbTree_delete. *)

Cleared(t, n) ==
  [t EXCEPT !.left[n] = NULL, !.right[n] = NULL, !.parent[n] = NULL,
            !.color[n] = RED, !.key[n] = NULL, !.data[n] = NULL]

(* The link of n's parent to n leads to m. *)
Relinked(t, n, m) == [t EXCEPT ![SideOf(t, n)][t.parent[n]] = m]

(* RbNode_free unlinks what is still linked. *)
Freed(t, n) ==
  LET p == t.parent[n] IN
  Cleared(IF p # NULL /\ n \in {At(t, "left", p), At(t, "right", p)} THEN Relinked(t, n, NULL) ELSE t, n)

(* A red node, or one with a red child, gives its place to a child. *)
ReplacedByChild(t, n) ==
  LET c == IF t.left[n] # NULL THEN t.left[n] ELSE t.right[n]
  IN  Freed(SetColor(SetParent(Relinked(t, n, c), c, t.parent[n]), c, BLACK), n)

(* One turn of the loop for a DOUBLE_BLACK ptr, with its parent p, its     *)
(* sibling w and the side that it hangs on.                                *)
RedSibling(t, p, w, side) ==
  Rotate(SetColor(SetColor(t, w, BLACK), p, RED), p, Other(side))

PushedUp(t, p, w) ==
  SetColor(SetColor(t, w, RED), p, IF ColorOf(t, p) = RED THEN BLACK ELSE DOUBLE_BLACK)

(* The nephew on the far side is to be red. *)
RedFar(t, w, side) ==
  IF ColorOf(t, t[Other(side)][w]) # BLACK THEN t
  ELSE Rotate(SetColor(SetColor(t, t[side][w], BLACK), w, RED), w, side)

SiblingUp(t, p, w, side) ==
  LET far == At(t, Other(side), w) IN
  Rotate(SetColor(SetColor(SetColor(t, w, ColorOf(t, p)), p, BLACK), far, BLACK), p, Other(side))

RaisedSibling(t, p, side) == SiblingUp(t, p, t[Other(side)][p], side)

RECURSIVE FixDelete(_, _)
FixDelete(t, ptr) ==
  IF ptr = t.root \/ ColorOf(t, ptr) # DOUBLE_BLACK THEN t
  ELSE LET p    == t.parent[ptr]
           side == SideOf(t, ptr)
           w    == t[Other(side)][p]
       IN  IF ColorOf(t, w) = RED THEN FixDelete(RedSibling(t, p, w, side), ptr)
           ELSE IF \A f \in {"left", "right"} : ColorOf(t, At(t, f, w)) = BLACK
           THEN FixDelete(PushedUp(t, p, w), p)
           ELSE RaisedSibling(RedFar(t, w, side), p, side)

(* A black node with black children is freed after the loop; what hangs on *)
(* it is lost.  Nodes that the loop left DOUBLE_BLACK stay so.             *)
FreedBlack(t, n) ==
  LET u == Freed(FixDelete(SetColor(t, n, DOUBLE_BLACK), n), n) IN
  [BlackRoot(u) EXCEPT
     !.marked = t.marked \/ \E m \in Nodes : u.color[m] = DOUBLE_BLACK /\ m # u.root]

RedNear(t, n) ==
  \/ ColorOf(t, n) = RED
  \/ \E f \in {"left", "right"} : ColorOf(t, t[f][n]) = RED

FixDeleteRBTree(t, n) == IF RedNear(t, n) THEN ReplacedByChild(t, n) ELSE FreedBlack(t, n)

(* The root gives its place to a child, the left one if it has one: that   *)
(* keeps its parent, and the right one becomes a tree that nothing leads to. *)
RootDeleted(t, n) ==
  LET c == IF t.left[n] # NULL THEN t.left[n] ELSE t.right[n]
  IN  Cleared(SetColor(SetParent([t EXCEPT !.root = c], t.right[n], NULL), c, BLACK), n)

(* The right child is not looked for before its parent is set. *)
RootCrashes(t, n) == n = t.root /\ t.left[n] # NULL /\ t.right[n] = NULL

(* Another node with two children loses one of them, and a black node with *)
(* only black children loses them all.                                     *)
LosesNodes(t, n) ==
  IF n = t.root THEN t.left[n] # NULL
  ELSE \/ t.left[n] # NULL /\ t.right[n] # NULL
       \/ ~RedNear(t, n) /\ (t.left[n] # NULL \/ t.right[n] # NULL)

Deleted(t, n) == IF n = t.root THEN RootDeleted(t, n) ELSE FixDeleteRBTree(t, n)

Delete(t, k) ==
  LET n == Find(t, t.root, k) IN
  {IF n = NULL THEN Out(t, No)
   ELSE IF RootCrashes(t, n) THEN Lost(t, "crash", "none")
   ELSE Lost(Deleted(t, n), Yes, IF LosesNodes(t, n) THEN "none" ELSE "all")}

-------------------------------------------------------------------------------
RECURSIVE Under(_, _)
(* The entries under a node from left to right. *)
Under(t, n) ==
  IF n = NULL THEN <<>>
  ELSE Under(t, t.left[n]) \o << <<t.key[n], t.data[n]>> >> \o Under(t, t.right[n])

Entries(t) == Under(t, t.root)

(* Parent and child links agree and every allocated node is on the tree. *)
Linked(t) ==
  /\ Len(Entries(t)) = Cardinality(Nodes \ Free(t))
  /\ t.root # NULL => t.parent[t.root] = NULL
  /\ \A n \in Nodes : \A f \in {"left", "right"} :
       t[f][n] # NULL => t.parent[t[f][n]] = n

RECURSIVE Blacks(_, _)
(* The black nodes on every path down from n, -1 if they differ. *)
Blacks(t, n) ==
  IF n = NULL THEN 0
  ELSE LET b == Blacks(t, t.left[n])
           c == Blacks(t, t.right[n])
       IN  IF b = c /\ b >= 0 THEN b + t.color[n] ELSE -1

(* As long as no node stays DOUBLE_BLACK: the root is black, no red node   *)
(* has a red child, and all paths down have as many black nodes.           *)
Balanced(t) ==
  ~t.marked =>
    /\ ColorOf(t, t.root) = BLACK
    /\ \A n \in Nodes \ Free(t) : t.color[n] = RED =>
         ColorOf(t, t.left[n]) # RED /\ ColorOf(t, t.right[n]) # RED
    /\ Blacks(t, t.root) >= 0
===============================================================================
