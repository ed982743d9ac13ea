------------------------------- MODULE SplayTree -------------------------------
(***************************************************************************)
(* The top-down splay tree of src/src/splaytree.c as a tree of values;     *)
(* child[0] is LEFT and child[1] is RIGHT.                                 *)
(***************************************************************************)
EXTENDS Integers, Sequences, SearchBase

CONSTANT IntMax  (* INT_MAX: not below any key *)

Pair(left, right) == [d \in 0..1 |-> IF d = 0 THEN left ELSE right]

Node(k, left, right) == [key |-> k, child |-> Pair(left, right)]

Side(t, k) == IF t.key < k THEN 1 ELSE 0

(* treeRotate *)
Rotate(y, d) ==
  LET x == y.child[d] IN [x EXCEPT !.child[1 - d] = [y EXCEPT !.child[d] = x.child[1 - d]]]

(* top[d] and hook[d]: acc[d] is the sequence of the nodes that treeLink   *)
(* hooked to accumulator d, each of them on side 1 - d of the one before.  *)
Link(acc, d, node) == [acc EXCEPT ![d] = Append(@, node)]

RECURSIVE Chain(_, _, _)
(* The accumulator as a tree, with last on its hook. *)
Chain(nodes, d, last) ==
  IF nodes = <<>> THEN last
  ELSE [Head(nodes) EXCEPT !.child[1 - d] = Chain(Tail(nodes), d, last)]

(* t's children go in the hooks, the accumulators become t's children.     *)
Assembled(t, acc) ==
  [t EXCEPT !.child = [d \in 0..1 |-> Chain(acc[d], d, t.child[d])]]

RECURSIVE Chop(_, _, _)
(* The loop of treeSplay at t: zig, zig-zig and zig-zag. *)
Chop(t, k, acc) ==
  LET d     == Side(t, k)
      c     == t.child[d]
      e     == Side(c, k)
      grand == c.child[e]
  IN  IF t.key = k THEN Assembled(t, acc)
      ELSE IF c = NULL THEN Assembled(t, acc)
      ELSE IF grand = NULL \/ c.key = k
      THEN Assembled(c, Link(acc, 1 - d, t))
      ELSE IF d = e
      THEN Chop(grand, k, Link(acc, 1 - d, Rotate(t, d)))
      ELSE Chop(grand, k, Link(Link(acc, 1 - d, t), d, c))

(* treeSplay *)
Splay(t, k) == IF t = NULL THEN NULL ELSE Chop(t, k, Pair(<<>>, <<>>))

IsRoot(t, k) == IF t = NULL THEN FALSE ELSE t.key = k

(* splaytreeContains *)
Get(t, k) == {Out(Splay(t, k), Answer(IsRoot(Splay(t, k), k)))}

(* The splayed tree is split at the new key, which goes on top. *)
Split(t, k) ==
  IF t = NULL THEN Node(k, NULL, NULL)
  ELSE IF t.key > k THEN Node(k, t.child[0], [t EXCEPT !.child[0] = NULL])
  ELSE Node(k, [t EXCEPT !.child[1] = NULL], t.child[1])

(* splaytreeInsert *)
Insert(t, k) ==
  IF IsRoot(Splay(t, k), k)
  THEN {Out(Splay(t, k), "kept")}
  ELSE {Out(Split(Splay(t, k), k), "stored"), Out(Splay(t, k), "nomem")}

(* The greatest key on the left becomes the root; it has no right child.   *)
(* Mutant first: the left side is not splayed.                             *)
JoinedAsIs(left, right) ==
  IF left = NULL THEN right ELSE [left EXCEPT !.child[1] = right]

Joined(left, right) ==
  IF left = NULL THEN right ELSE [Splay(left, IntMax) EXCEPT !.child[1] = right]

(* splaytreeDelete *)
Delete(t, k) ==
  LET u == Splay(t, k) IN
  {Out(IF IsRoot(u, k) THEN Joined(u.child[0], u.child[1]) ELSE u, NULL)}

RECURSIVE Destroyed(_)
(* splaytreeDestroy deletes the root until there is none. *)
Destroyed(t) == IF t = NULL THEN NULL ELSE Destroyed(Joined(t.child[0], t.child[1]))

-------------------------------------------------------------------------------
RECURSIVE Entries(_)
(* The entries from left to right; there is no data. *)
Entries(t) ==
  IF t = NULL THEN <<>>
  ELSE Entries(t.child[0]) \o << <<t.key, NULL>> >> \o Entries(t.child[1])
===============================================================================
