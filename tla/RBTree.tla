--------------------------------- MODULE RBTree --------------------------------
(***************************************************************************)
(* The red-black tree of src/src/secure/rbtree.c, pointer by pointer.      *)
(* tree holds root and the fields of the nodes; the rotations and the two  *)
(* fixup loops compute the next tree.  What the code writes out twice, for *)
(* the left and the right side, takes the side as a parameter.             *)
(*                                                                         *)
(* tree.bad: NULL was followed; the program is undefined from there on.    *)
(* astray is a history variable: delete handed erase_fixup the wrong       *)
(* parent (x_parent = y although y was not a child of the deleted node).   *)
(***************************************************************************)
EXTENDS Pointers, Integers, Sequences, SequencesExt, FiniteSetsExt

CONSTANTS
  Keys,     (* the keys, integers in the comparator's order    *)
  Nodes,    (* the tree nodes the heap has room for            *)
  Values,   (* the caller's pointers                           *)
  StackSize (* the pointers in the stack array of clear        *)

ASSUME RBTreeAssumption ==
  Keys \subseteq Int /\ IsFiniteSet(Nodes) /\ NULL \notin Nodes /\ StackSize \in Nat

(* The nodes a red-black tree with b black ones on every path has at least. *)
Fewest[b \in 0..StackSize + 1] == IF b = 0 THEN 0 ELSE 2 * Fewest[b - 1] + 1

(* The heap is too small for a balanced tree that overruns the stack of    *)
(* clear: with the 64 entries it has, for 2^33 - 1 nodes.                  *)
ASSUME StackAssumption ==
  \A b \in 0..StackSize + 1 : Fewest[b] <= Cardinality(Nodes) => 2 * b <= StackSize

Elem == Values \cup {NULL}
Ref == Nodes \cup {NULL}

VARIABLES
  exists,  (* the caller holds a handle               *)
  tree,    (* root, and the link fields of the nodes  *)
  key, val,  (* the payload of the nodes              *)
  alive,   (* the allocated nodes                     *)
  count,   (* tree->count                             *)
  ret,     (* the last call and what it returned      *)
  fault,   (* a bad pointer was followed              *)
  astray   (* history: see above                      *)

vars == <<exists, tree, key, val, alive, count, ret, fault, astray>>

Blank == [n \in Nodes |-> NULL]

NoTree == [root |-> NULL, left |-> Blank, right |-> Blank, parent |-> Blank,
           red |-> [n \in Nodes |-> FALSE], bad |-> FALSE]

Init ==
  /\ exists = FALSE /\ tree = NoTree /\ key = Blank /\ val = Blank
  /\ alive = {} /\ count = 0 /\ ret = <<"none", NULL>>
  /\ fault = FALSE /\ astray = FALSE

-------------------------------------------------------------------------------
(* Pointer surgery on a tree t. *)

Other(side) == IF side = "left" THEN "right" ELSE "left"

(* A NULL child counts as black. *)
Red(t, n) == n # NULL /\ t.red[n]

Bad(t) == [t EXCEPT !.bad = TRUE]

(* The link that led to u leads to v. *)
Relink(t, u, v) ==
  LET p == t.parent[u] IN
  IF p = NULL THEN [t EXCEPT !.root = v]
  ELSE IF u = t.left[p] THEN [t EXCEPT !.left[p] = v]
  ELSE [t EXCEPT !.right[p] = v]

SetParent(t, n, p) == IF n = NULL THEN t ELSE [t EXCEPT !.parent[n] = p]

(* Mutant: the new child keeps its old parent. *)
TransplantOneWay(t, u, v) == Relink(t, u, v)

Transplant(t, u, v) == SetParent(Relink(t, u, v), v, t.parent[u])

Paint(t, n, isRed) == IF n = NULL THEN t ELSE [t EXCEPT !.red[n] = isRed]

(* The child of x on side up takes its place: rbtree_left_rotate with      *)
(* up = "right", rbtree_right_rotate with up = "left".                     *)
Rotate(t, x, up) ==
  LET down  == Other(up)
      y     == t[up][x]
      inner == t[down][y]
      t1    == SetParent([t EXCEPT ![up][x] = inner], inner, x)
      t2    == Transplant(t1, x, y)
  IN  IF x = NULL THEN Bad(t)
      ELSE IF t[up][x] = NULL THEN Bad(t)
      ELSE [t2 EXCEPT ![down][y] = x, !.parent[x] = y]

(* Mutants: the uncle is not made black; the rotations take the wrong side. *)
InsertFixStepUncle(s) ==
  LET p == s.t.parent[s.node]
      g == s.t.parent[p]
  IN  IF ~Red(s.t, p) THEN s
      ELSE [t |-> Paint(Paint(s.t, p, FALSE), g, TRUE), node |-> g]

InsertFixStepSwapped(s) ==
  LET p == s.t.parent[s.node]
      g == s.t.parent[p]
      side == IF p = s.t.left[g] THEN "right" ELSE "left"
  IN  IF s.t.bad \/ ~Red(s.t, p) THEN s
      ELSE [t |-> Rotate(Paint(Paint(s.t, p, FALSE), g, TRUE), g, side), node |-> p]

(* One turn of rbtree_insert_fixup at s.node. *)
InsertFixStep(s) ==
  LET p     == s.t.parent[s.node]
      g     == s.t.parent[p]
      side  == IF p = s.t.left[g] THEN "left" ELSE "right"
      uncle == s.t[Other(side)][g]
      bent  == s.t[Other(side)][p] = s.node
      t1    == IF bent THEN Rotate(s.t, p, Other(side)) ELSE s.t
      upper == IF bent THEN s.node ELSE p
      lower == IF bent THEN p ELSE s.node
  IN  IF s.t.bad THEN s
      ELSE IF ~Red(s.t, p) THEN s
      ELSE IF g = NULL THEN s
      ELSE IF Red(s.t, uncle)
      THEN [t |-> Paint(Paint(Paint(s.t, p, FALSE), uncle, FALSE), g, TRUE), node |-> g]
      ELSE [t |-> Rotate(Paint(Paint(t1, upper, FALSE), g, TRUE), g, side),
            node |-> lower]

(* The loop, which leaves a finished state alone, turned often enough. *)
InsertFix(t, n) ==
  LET after[i \in 0..Cardinality(Nodes)] ==
        IF i = 0 THEN [t |-> t, node |-> n] ELSE InsertFixStep(after[i - 1])
      s == after[Cardinality(Nodes)]
  IN  Paint(s.t, s.t.root, FALSE)

EraseUnfinished(s) == s.x = NULL \/ (~s.t.red[s.x] /\ s.x # s.t.root)

(* rbtree_erase_fixup.  x is short of a black node and xp is taken to be   *)
(* its parent; side is where x hangs.                                      *)
Sibling(t, xp, side) == t[Other(side)][xp]

(* A red sibling is rotated above xp: x gets a black one. *)
BlackSibling(t, xp, side) ==
  LET w == Sibling(t, xp, side)
  IN  IF Red(t, w) THEN Rotate(Paint(Paint(t, w, FALSE), xp, TRUE), xp, Other(side)) ELSE t

(* A sibling with a red child on the near side only gets one on the far side. *)
RedFar(t, xp, side) ==
  LET w == Sibling(t, xp, side)
  IN  IF Red(t, t[Other(side)][w]) THEN t
      ELSE Rotate(Paint(Paint(t, t[side][w], FALSE), w, TRUE), w, side)

(* The sibling is rotated above xp and takes its colour. *)
SiblingUp(t, xp, side) ==
  LET w   == Sibling(t, xp, side)
      far == t[Other(side)][w]
  IN  IF t.bad \/ w = NULL THEN Bad(t)
      ELSE Rotate(Paint(Paint(Paint(t, w, t.red[xp]), xp, FALSE), far, FALSE), xp, Other(side))

(* The loop is over: x is the root. *)
AtRoot(t) == [t |-> t, x |-> t.root, xp |-> IF t.root = NULL THEN NULL ELSE t.parent[t.root]]

(* The second half of one turn: the sibling is black. *)
EraseFixBlack(t, xp, side) ==
  LET w == Sibling(t, xp, side) IN
  IF t.bad \/ w = NULL THEN AtRoot(Bad(t))
  ELSE IF ~Red(t, t.left[w]) /\ ~Red(t, t.right[w])
  THEN [t |-> Paint(t, w, TRUE), x |-> xp, xp |-> t.parent[xp]]
  ELSE AtRoot(SiblingUp(RedFar(t, xp, side), xp, side))

(* One turn. *)
EraseFixStep(s) ==
  LET side == IF s.x = s.t.left[s.xp] THEN "left" ELSE "right" IN
  IF s.t.bad \/ ~EraseUnfinished(s) THEN s
  ELSE IF s.xp = NULL THEN [s EXCEPT !.t = Bad(@)]
  ELSE EraseFixBlack(BlackSibling(s.t, s.xp, side), s.xp, side)

EraseFix(t, x, xp) ==
  LET after[i \in 0..Cardinality(Nodes)] ==
        IF i = 0 THEN [t |-> t, x |-> x, xp |-> xp] ELSE EraseFixStep(after[i - 1])
      s == after[Cardinality(Nodes)]
  IN  IF s.t.bad \/ EraseUnfinished(s) THEN Bad(s.t) ELSE Paint(s.t, s.x, FALSE)

-------------------------------------------------------------------------------
(* Walks. *)

(* The node with key k, or NULL. *)
Lookup(k) ==
  LET find[n \in Ref] ==
        IF n = NULL THEN NULL
        ELSE IF k = key[n] THEN n
        ELSE IF k < key[n] THEN find[tree.left[n]] ELSE find[tree.right[n]]
  IN  find[tree.root]

(* Where the search for k, which is not there, ends: the last node passed. *)
Leaf(k) ==
  LET walk[n \in Nodes] ==
        LET down == IF k < key[n] THEN tree.left[n] ELSE tree.right[n]
        IN  IF down = NULL THEN n ELSE walk[down]
  IN  IF tree.root = NULL THEN NULL ELSE walk[tree.root]

(* The far end of the links of one side. *)
End(t, from, side) ==
  LET walk[n \in Ref] ==
        IF n = NULL THEN NULL
        ELSE IF t[side][n] = NULL THEN n ELSE walk[t[side][n]]
  IN  walk[from]

KeyOf(n) == IF n = NULL THEN NULL ELSE key[n]

(* Mutant: the walk stops at the first node that will do. *)
BoundFirst(k, strict) ==
  LET best[n \in Ref] ==
        IF n = NULL THEN NULL
        ELSE IF k < key[n] \/ (k = key[n] /\ ~strict) THEN n ELSE best[tree.right[n]]
  IN  KeyOf(best[tree.root])

(* The last node on the search path with a key that is above k, or k if    *)
(* the bound is not strict.                                                *)
Bound(k, strict) ==
  LET best[n \in Ref] ==
        IF n = NULL THEN NULL
        ELSE IF k < key[n] \/ (k = key[n] /\ ~strict)
        THEN LET lower == best[tree.left[n]] IN IF lower = NULL THEN n ELSE lower
        ELSE best[tree.right[n]]
  IN  KeyOf(best[tree.root])

(* The keys under a node in the order of op; subtree[n] for NULL is empty. *)
Traversal(op) ==
  LET keys[n \in Ref] ==
        IF n = NULL THEN <<>>
        ELSE CASE op = "inorder" -> keys[tree.left[n]] \o <<key[n]>> \o keys[tree.right[n]]
               [] op = "preorder" -> <<key[n]>> \o keys[tree.left[n]] \o keys[tree.right[n]]
               [] op = "postorder" -> keys[tree.left[n]] \o keys[tree.right[n]] \o <<key[n]>>
  IN  keys[tree.root]

(* How many nodes the loop of clear has on its stack at most below n: the  *)
(* left links, one more for each node it is still to come back to.         *)
StackNeeded ==
  LET need[n \in Ref] ==
        IF n = NULL THEN 0 ELSE Max({1 + need[tree.left[n]], need[tree.right[n]]})
  IN  need[tree.root]

-------------------------------------------------------------------------------
(* The operations. *)

Live == exists /\ ~fault

Returns(op, r) == ret' = <<op, r>>

Keep == UNCHANGED <<exists, tree, key, val, alive, count, fault, astray>>

Crash == fault' = TRUE /\ UNCHANGED <<exists, tree, key, val, alive, count, ret>>

Create ==
  /\ ~exists /\ ~fault
  /\ \/ exists' = TRUE /\ Returns("create", TRUE)
     \/ UNCHANGED exists /\ Returns("create", FALSE)
  /\ UNCHANGED <<tree, key, val, alive, count, fault, astray>>

Empty(op) ==
  /\ Live
  /\ IF StackNeeded > StackSize
     THEN Crash /\ UNCHANGED astray
     ELSE /\ tree' = NoTree /\ key' = Blank /\ val' = Blank /\ alive' = {} /\ count' = 0
          /\ exists' = (op = "clear") /\ astray' = FALSE
          /\ Returns(op, NULL) /\ UNCHANGED fault

(* The node is allocated before the search and given back if k is there. *)
Insert(k, v) ==
  LET at == Lookup(k) IN
  /\ Live
  /\ \/ /\ Returns("insert", FALSE)
        /\ UNCHANGED <<tree, key, val, alive, count>>
     \/ /\ at # NULL /\ alive # Nodes
        /\ val' = [val EXCEPT ![at] = v]
        /\ Returns("insert", TRUE)
        /\ UNCHANGED <<tree, key, alive, count>>
     \/ /\ at = NULL
        /\ \E n \in Nodes \ alive :
             LET p    == Leaf(k)
                 side == IF k < key[p] THEN "left" ELSE "right"
                 t1   == [tree EXCEPT !.parent[n] = p, !.red[n] = TRUE]
                 t2   == IF p = NULL THEN [t1 EXCEPT !.root = n]
                         ELSE [t1 EXCEPT ![side][p] = n]
             IN  /\ tree' = InsertFix(t2, n)
                 /\ alive' = alive \cup {n}
                 /\ key' = [key EXCEPT ![n] = k] /\ val' = [val EXCEPT ![n] = v]
        /\ count' = count + 1
        /\ Returns("insert", TRUE)
  /\ UNCHANGED <<exists, fault, astray>>

(* Mutant: the parent is the one y had before it moved. *)
SplicedParent(n) ==
  LET l == tree.left[n]
      r == tree.right[n]
      only == IF l = NULL THEN r ELSE l
      y  == End(tree, r, "left")
      x  == tree.right[y]
      far == tree.parent[y] # n
      t1 == IF far
            THEN LET t0 == Transplant(tree, y, x)
                 IN  SetParent([t0 EXCEPT !.right[y] = t0.right[n]], t0.right[n], y)
            ELSE SetParent(tree, x, y)
      t2 == Transplant(t1, n, y)
      t3 == [t2 EXCEPT !.left[y] = l, !.parent[l] = y, !.red[y] = tree.red[n]]
  IN  IF l = NULL \/ r = NULL
      THEN [t |-> Transplant(tree, n, only), x |-> only, xp |-> tree.parent[n],
            short |-> ~tree.red[n], wrong |-> FALSE]
      ELSE [t |-> t3, x |-> x, xp |-> tree.parent[y], short |-> ~tree.red[y],
            wrong |-> far /\ x = NULL /\ ~tree.red[y]]

(* The tree without node n, before the fixup, and what the fixup is told:  *)
(* where a black node is missing (x under xp) and whether one is.          *)
Spliced(n) ==
  LET l == tree.left[n]
      r == tree.right[n]
      only == IF l = NULL THEN r ELSE l
      y  == End(tree, r, "left")
      x  == tree.right[y]
      far == tree.parent[y] # n
      t1 == IF far
            THEN LET t0 == Transplant(tree, y, x)
                 IN  SetParent([t0 EXCEPT !.right[y] = t0.right[n]], t0.right[n], y)
            ELSE SetParent(tree, x, y)
      t2 == Transplant(t1, n, y)
      t3 == [t2 EXCEPT !.left[y] = l, !.parent[l] = y, !.red[y] = tree.red[n]]
  IN  IF l = NULL \/ r = NULL
      THEN [t |-> Transplant(tree, n, only), x |-> only, xp |-> tree.parent[n],
            short |-> ~tree.red[n], wrong |-> FALSE]
      ELSE [t |-> t3, x |-> x, xp |-> y, short |-> ~tree.red[y],
            wrong |-> far /\ x = NULL /\ ~tree.red[y]]

Freed(t, n) ==
  [t EXCEPT !.left[n] = NULL, !.right[n] = NULL, !.parent[n] = NULL, !.red[n] = FALSE]

Delete(k) ==
  LET n == Lookup(k)
      s == Spliced(n)
      t == IF s.short THEN EraseFix(Freed(s.t, n), s.x, s.xp) ELSE Freed(s.t, n)
  IN  /\ Live
      /\ IF n = NULL
         THEN Keep /\ Returns("delete", FALSE)
         ELSE /\ astray' = (astray \/ s.wrong)
              /\ IF t.bad
                 THEN Crash
                 ELSE /\ tree' = t
                      /\ key' = [key EXCEPT ![n] = NULL] /\ val' = [val EXCEPT ![n] = NULL]
                      /\ alive' = alive \ {n} /\ count' = count - 1
                      /\ Returns("delete", TRUE) /\ UNCHANGED <<exists, fault>>

Update(k, v) ==
  LET n == Lookup(k) IN
  /\ Live
  /\ val' = IF n = NULL THEN val ELSE [val EXCEPT ![n] = v]
  /\ Returns("update", n # NULL)
  /\ UNCHANGED <<exists, tree, key, alive, count, fault, astray>>

Search(k) ==
  LET n == Lookup(k) IN
  Live /\ Keep /\ Returns("search", IF n = NULL THEN NULL ELSE val[n])

(* min and max of the root, lower_bound and upper_bound: the node's key. *)
Extremes ==
  /\ Live /\ Keep
  /\ Returns("min_max", <<KeyOf(End(tree, tree.root, "left")),
                          KeyOf(End(tree, tree.root, "right"))>>)

Bounds(k) ==
  /\ Live /\ Keep
  /\ Returns("bounds", <<Bound(k, FALSE), Bound(k, TRUE)>>)

Traverse(op) == Live /\ Keep /\ Returns(op, Traversal(op))

Next ==
  \/ Create \/ Extremes
  \/ \E op \in {"clear", "destroy"} : Empty(op)
  \/ \E op \in {"inorder", "preorder", "postorder"} : Traverse(op)
  \/ \E k \in Keys :
       \/ Delete(k) \/ Search(k) \/ Bounds(k)
       \/ \E v \in Elem : Insert(k, v) \/ Update(k, v)

Spec == Init /\ [][Next]_vars

-------------------------------------------------------------------------------
(* Properties. *)

(* Every variable has its type. *)
TypeOK ==
  /\ exists \in BOOLEAN /\ fault \in BOOLEAN /\ astray \in BOOLEAN
  /\ tree.root \in Ref
  /\ \A f \in {"left", "right", "parent"} : tree[f] \in [Nodes -> Ref]
  /\ tree.red \in [Nodes -> BOOLEAN] /\ tree.bad = FALSE
  /\ key \in [Nodes -> Keys \cup {NULL}] /\ val \in [Nodes -> Elem]
  /\ alive \subseteq Nodes /\ count \in 0..Cardinality(Nodes)

(* Parent and child links agree, every allocated node hangs on the tree    *)
(* once, none is lost, count counts them, and keys ascend from left to     *)
(* right: through all rotations, also those a wrong x_parent leads to.     *)
SearchTree ==
  LET ks == Traversal("inorder") IN
  /\ \A n \in alive : \A side \in {"left", "right"} :
       tree[side][n] # NULL => tree[side][n] \in alive /\ tree.parent[tree[side][n]] = n
  /\ tree.root # NULL => tree.root \in alive /\ tree.parent[tree.root] = NULL
  /\ Len(ks) = count /\ count = Cardinality(alive)
  /\ \A i \in 1..Len(ks) - 1 : ks[i] < ks[i + 1]

(* The root is black, no red node has a red child, and all paths down hold *)
(* as many black nodes; until delete goes astray.                          *)
Balanced ==
  LET blacks[n \in Ref] ==  \* -1 if the subtree is out of balance
        IF n = NULL THEN 0
        ELSE LET b == blacks[tree.left[n]]
                 c == blacks[tree.right[n]]
             IN  IF b = c /\ b >= 0 THEN b + (IF tree.red[n] THEN 0 ELSE 1) ELSE -1
  IN  ~astray =>
        /\ ~Red(tree, tree.root)
        /\ \A n \in alive : tree.red[n] => ~Red(tree, tree.left[n]) /\ ~Red(tree, tree.right[n])
        /\ blacks[tree.root] >= 0

(* No call follows NULL or overruns the stack of clear, unless delete goes *)
(* astray or takes the last node.                                          *)
MemorySafe == fault => astray \/ count = 1

(* test_rbtree.c:87: deleting a key that is on the tree succeeds. *)
DeleteSucceeds == ~fault

(* Seen through the keys of its nodes the tree is the map of               *)
(* OrderedMapSpec: rotations, colours and failed allocations never show.   *)
AsMap == [k \in {key[n] : n \in alive} |-> val[CHOOSE n \in alive : key[n] = k]]

Abstract == INSTANCE OrderedMapSpec WITH map <- AsMap

RefinesMap == Abstract!Spec
===============================================================================
