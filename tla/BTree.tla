--------------------------------- MODULE BTree ---------------------------------
(***************************************************************************)
(* The B-tree of src/src/btree.c as a tree of values.  A tree b is         *)
(* [degree, root]; a node is [leaf, n, keys, children], its arrays indexed *)
(* from 0 and as long as New_Node allocates them.  Slots of keys from n on *)
(* keep what was last in them, 0 to begin with, because the code reads     *)
(* them; slots of children beyond the last child are never read and NULL.  *)
(*                                                                         *)
(* Where the code reads before or behind the array the memory there may    *)
(* hold the key it looks for or not: a call has an outcome for each.       *)
(***************************************************************************)
EXTENDS Integers, Sequences, FiniteSetsExt, SearchBase

Full(t) == 2 * t - 1

(* New_Node *)
NewNode(t, leaf) ==
  [leaf |-> leaf, n |-> 0, keys |-> [i \in 0..Full(t) - 1 |-> 0],
   children |-> [i \in 0..Full(t) |-> NULL]]

(* New_Btree *)
Empty(t) == [degree |-> t, root |-> NULL]

(* The last slot whose key is not above k, -1 if there is none. *)
Slot(node, k) == Max({-1} \cup {i \in 0..node.n - 1 : node.keys[i] <= k})

(* The first slot whose key is not below k, n if there is none. *)
Above(node, k) == Min({node.n} \cup {i \in 0..node.n - 1 : node.keys[i] >= k})

RECURSIVE Search(_, _)
(* Node_search: what it may return and whether a slot that holds no key    *)
(* decided it.  At i = n it looks at a slot without a key, or behind the   *)
(* array of a full node.                                                   *)
Descend(node, i, k) ==
  IF node.leaf THEN {[found |-> FALSE, stray |-> FALSE]} ELSE Search(node.children[i], k)

Search(node, k) ==
  LET i     == Above(node, k)
      hit   == {[found |-> TRUE, stray |-> i = node.n]}
  IN  IF i \notin DOMAIN node.keys THEN hit \cup Descend(node, i, k)
      ELSE IF node.keys[i] = k THEN hit ELSE Descend(node, i, k)

(* BTree_search *)
Get(b, k) ==
  IF b.root = NULL THEN {Out(b, No)}
  ELSE {Lost(b, Answer(o.found), IF o.stray THEN "none" ELSE "all") : o \in Search(b.root, k)}

(* BTree_split_child: child moves its upper half to a new node, and its    *)
(* middle key up to the parent, slot i.  The slots it gives up keep their  *)
(* keys.                                                                   *)
UpperHalf(t, child) ==
  [NewNode(t, child.leaf) EXCEPT
     !.n = t - 1,
     !.keys = [j \in DOMAIN @ |-> IF j < t - 1 THEN child.keys[j + t] ELSE @[j]],
     !.children = [j \in DOMAIN @ |-> IF j < t THEN child.children[j + t] ELSE NULL]]

LowerHalf(t, child) ==
  [child EXCEPT !.n = t - 1,
                !.children = [j \in DOMAIN @ |-> IF j < t THEN @[j] ELSE NULL]]

SplitChild(t, parent, i) ==
  LET child == parent.children[i] IN
  [parent EXCEPT
     !.n = @ + 1,
     !.keys = [j \in DOMAIN @ |->
                 CASE j < i \/ j > parent.n -> @[j]
                   [] j = i -> child.keys[t - 1] [] OTHER -> @[j - 1]],
     !.children = [j \in DOMAIN @ |->
                     CASE j < i -> @[j] [] j = i -> LowerHalf(t, child)
                       [] j = i + 1 -> UpperHalf(t, child) [] OTHER -> @[j - 1]]]

(* In a leaf the keys above k move up before slot i is looked at.  If k is *)
(* there they moved for nothing: slot i + 1 keeps a copy and n does not    *)
(* grow, so the last of two or more is lost.                               *)
Shifted(leaf, i) ==
  [leaf EXCEPT !.keys = [j \in DOMAIN @ |->
                           IF j > i + 1 /\ j <= leaf.n THEN @[j - 1] ELSE @[j]]]

Placed(leaf, i, k) == [Shifted(leaf, i) EXCEPT !.keys[i + 1] = k, !.n = @ + 1]

InLeaf(leaf, k) ==
  LET i == Slot(leaf, k) IN
  IF i = -1
  THEN {Out(Placed(leaf, i, k), "stored"), Lost(Shifted(leaf, i), "kept", "none")}
  ELSE IF leaf.keys[i] # k
  THEN {Out(Placed(leaf, i, k), "stored")}
  ELSE {Lost(Shifted(leaf, i), "kept", IF leaf.n > i + 2 THEN "none" ELSE "all")}

(* The child on the way down is split if it is full, and the one that k    *)
(* belongs to is chosen.  That the key that moved up may be k itself is    *)
(* not asked: k is stored again in the left half, although the leaves are  *)
(* not to take a duplicate key.                                            *)
Prepared(t, node, i) ==
  IF node.children[i].n = Full(t) THEN SplitChild(t, node, i) ELSE node

Chosen(node, was, i, k) ==
  IF node.n > was /\ node.keys[i] < k THEN i + 1 ELSE i

RECURSIVE InsertNonFull(_, _, _)
IntoChild(t, node, i, k) ==
  {[o EXCEPT !.s = [node EXCEPT !.children[i] = o.s]] :
     o \in InsertNonFull(t, node.children[i], k)}

Twice(o) == IF o.r = "stored" THEN Lost(o.s, o.r, "twice") ELSE o

Down(t, node, i, k) ==
  LET split    == Prepared(t, node, i)
      outcomes == IntoChild(t, split, Chosen(split, node.n, i, k), k)
  IN  IF split.n > node.n /\ split.keys[i] = k THEN {Twice(o) : o \in outcomes} ELSE outcomes

(* BTree_insert_non_full *)
InsertNonFull(t, node, k) ==
  LET i == Slot(node, k) IN
  IF node.leaf THEN InLeaf(node, k)
  ELSE IF i = -1 THEN Down(t, node, 0, k) \cup {Lost(node, "kept", "none")}
  ELSE IF node.keys[i] = k THEN {Out(node, "kept")}
  ELSE Down(t, node, i + 1, k)

(* The new root above a full one. *)
Grown(t, root) == SplitChild(t, [NewNode(t, FALSE) EXCEPT !.children[0] = root], 0)

IntoRoot(t, root, k) ==
  IF root.n < Full(t) THEN InsertNonFull(t, root, k)
  ELSE LET s == Grown(t, root) IN
       IF s.keys[0] = k THEN {Out(s, "kept")}
       ELSE IntoChild(t, s, IF s.keys[0] < k THEN 1 ELSE 0, k)

RECURSIVE NodesUnder(_)
NodesUnder(node) ==
  IF node.leaf THEN 1 ELSE 1 + MapThenSumSet(LAMBDA i : NodesUnder(node.children[i]), 0..node.n)

First(t, k) == [NewNode(t, TRUE) EXCEPT !.n = 1, !.keys[0] = k]

Inserted(b, k) ==
  {[o EXCEPT !.s = [b EXCEPT !.root = o.s]] :
     o \in IF b.root = NULL THEN {Out(First(b.degree, k), "stored")}
           ELSE IntoRoot(b.degree, b.root, k)}

(* BTree_insert.  Without memory for a node the program follows NULL. *)
Allocates(b, c) ==
  IF b.root = NULL THEN TRUE ELSE NodesUnder(c.root) > NodesUnder(b.root)

Insert(b, k) ==
  LET all == Inserted(b, k) IN
  all \cup {Lost(b, "crash", "none") : o \in {p \in all : Allocates(b, p.s)}}

(* BTree_erase returns when there is a root and follows it when not. *)
Erase(b, k) ==
  {IF b.root = NULL THEN Lost(b, "crash", "none") ELSE Out(b, NULL)}

-------------------------------------------------------------------------------
RECURSIVE KeysUnder(_)
(* The keys under a node in the order of Node_traverse. *)
KeysUnder(node) ==
  LET upto[i \in 0..node.n] ==
        (IF i = 0 THEN <<>> ELSE Append(upto[i - 1], node.keys[i - 1]))
          \o (IF node.leaf THEN <<>> ELSE KeysUnder(node.children[i]))
  IN  upto[node.n]

(* BTree_traverse *)
Traverse(b) == IF b.root = NULL THEN <<>> ELSE KeysUnder(b.root)

Entries(b) == LET ks == Traverse(b) IN [i \in DOMAIN ks |-> <<ks[i], NULL>>]

RECURSIVE Depth(_)
(* How deep all the leaves under a node lie, -1 if they differ. *)
Depth(node) ==
  IF node.leaf THEN 0
  ELSE LET d == {Depth(node.children[i]) : i \in 0..node.n}
       IN  IF Cardinality(d) = 1 /\ d # {-1} THEN 1 + Max(d) ELSE -1

RECURSIVE Filled(_, _)
(* Every node under the root has at least t - 1 keys and none too many. *)
Filled(t, node) ==
  /\ node.n \in t - 1..Full(t)
  /\ ~node.leaf => \A i \in 0..node.n : Filled(t, node.children[i])

Balanced(b) ==
  b.root # NULL =>
    /\ Depth(b.root) >= 0
    /\ b.root.n \in 1..Full(b.degree)
    /\ ~b.root.leaf => \A i \in 0..b.root.n : Filled(b.degree, b.root.children[i])
===============================================================================
