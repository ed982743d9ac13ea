--------------------------- MODULE MCSearchStructures ---------------------------
(***************************************************************************)
(* Small instances of SearchStructures.  What a call returned is no part   *)
(* of what the next one depends on, so states that differ in nothing else  *)
(* are one (View); the properties look at it in the step that returned it. *)
(* States of a linked structure that differ only in which addresses its    *)
(* nodes have are one as well, if nothing is wrong with their links.       *)
(***************************************************************************)
EXTENDS SearchStructures

Bound(keys, strays, room) == [keys |-> keys, strays |-> strays, room |-> room]

MCBounds ==
  [avl      |-> Bound(1..5, {0}, 5),
   bst      |-> Bound(1..4, {1}, 4),
   splay    |-> Bound(1..6, {}, 6),
   skiplist |-> Bound(1..3, {}, 4),
   btree    |-> Bound(-1..5, {}, 8),
   hashmap  |-> Bound(1..3, {1}, 4),
   tst      |-> Bound(1..6, {}, 6),
   trie     |-> Bound(1..6, {}, 6),
   array    |-> Bound({0, 2, 3, 6}, {}, 5),
   graph    |-> Bound(0..6, {}, 4),
   rbtree   |-> Bound(1..3, {1}, 6)]

(* The empty word, words that are the beginning of others, and others. *)
MCWord == << <<0>>, <<1, 0>>, <<1, 2, 0>>, <<1, 3, 0>>, <<2, 1, 0>>, <<2, 1, 3, 0>> >>

MCIntMin == -9

RECURSIVE Shape(_)
(* The red-black tree under node n without the addresses. *)
Shape(n) ==
  IF n = NULL THEN NULL
  ELSE <<s.color[n], s.key[n], s.data[n], Shape(s.left[n]), Shape(s.right[n])>>

Heights ==
  LET nodes == Skip!Level(s, s.next[Skip!Header][0], 0)
  IN  [i \in DOMAIN nodes |-> <<s.key[nodes[i]], s.height[nodes[i]]>>]

View ==
  <<kind, trust,
    IF kind = "rbtree" /\ RB!Linked(s) THEN <<s.marked, Shape(s.root)>>
    ELSE IF kind = "skiplist" /\ Skip!LevelsNested(s) THEN <<s.height[Skip!Header], Heights>>
    ELSE s>>
===============================================================================
