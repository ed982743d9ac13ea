---------------------------------- MODULE Trie ----------------------------------
(***************************************************************************)
(* The binary trie of src/src/trie.c as a tree of values; a node is        *)
(* [key, kids], the key of a leaf a copy of its word.  Keys are integers   *)
(* and Word[k] is the string of k, as in TernaryTree; of each character    *)
(* two bits are looked at here, so that the trie has the same forms on     *)
(* fewer levels.                                                           *)
(***************************************************************************)
EXTENDS Integers, Sequences, SearchBase

CONSTANT Word  (* the strings, a function from the keys to characters 0..3 *)

(* GET_BIT, the greater bit first.  Behind the NUL there is nothing. *)
Bit(k, n) == (Word[k][1 + (n \div 2)] \div (2 - (n % 2))) % 2

(* make_trie_node *)
Node(k) == [key |-> k, kids |-> [b \in 0..1 |-> NULL]]

IsLeaf(t) == t.kids[0] = NULL /\ t.kids[1] = NULL

RECURSIVE Walk(_, _, _)
(* Where the bits of k lead from bit n on: a leaf or NULL. *)
Walk(t, k, n) ==
  IF t = NULL THEN NULL
  ELSE IF IsLeaf(t) THEN t ELSE Walk(t.kids[Bit(k, n)], k, n + 1)

KeyAt(t, k) == LET leaf == Walk(t, k, 0) IN IF leaf = NULL THEN NULL ELSE leaf.key

(* trie_contains.  In a leaf without a key strcmp would follow NULL; only  *)
(* a call that loses a word makes one.                                     *)
Get(t, k) == {Out(t, Answer(KeyAt(t, k) = k))}

RECURSIVE Extended(_, _, _, _)
(* The common prefix of the word in leaf and of k becomes a chain of inner *)
(* nodes; where they part hang the leaf's new node and the one for k.      *)
Extended(old, k, n, ends) ==
  LET b == Bit(k, n) IN
  [Node(NULL) EXCEPT
     !.kids = IF Bit(old, n) = b THEN [@ EXCEPT ![b] = Extended(old, k, n + 1, ends)]
              ELSE [@ EXCEPT ![b] = ends.new, ![1 - b] = ends.old]]

RECURSIVE With(_, _, _, _)
(* trie_insert from node t at bit n on.  ends.new is the node for k, and   *)
(* ends.old the second copy of the word that has to make way.              *)
With(t, k, n, ends) ==
  IF t = NULL THEN ends.new
  ELSE IF IsLeaf(t) THEN Extended(t.key, k, n, ends)
  ELSE [t EXCEPT !.kids[Bit(k, n)] = With(@, k, n + 1, ends)]

(* A word is copied with its node; where the copy finds no memory there is *)
(* no node, and what was to hang there is lost.  Without memory for the    *)
(* node itself the program writes to NULL.                                 *)
Insert(t, k) ==
  LET old   == KeyAt(t, k)
      moved == IF old = NULL THEN NULL ELSE Node(old)
      with(new, copy) == With(t, k, 0, [new |-> new, old |-> copy])
  IN  IF old = k THEN {Out(t, "kept")}
      ELSE {Out(with(Node(k), moved), "stored"), Out(with(NULL, moved), "nomem"),
            Lost(t, "crash", "none")}
             \cup {Lost(with(new, NULL), "lost", "none") :
                     new \in IF old = NULL THEN {} ELSE {NULL, Node(k)}}

-------------------------------------------------------------------------------
RECURSIVE Entries(_)
(* The words of the leaves from left to right. *)
Entries(t) ==
  IF t = NULL THEN <<>>
  ELSE IF ~IsLeaf(t) THEN Entries(t.kids[0]) \o Entries(t.kids[1])
  ELSE IF t.key = NULL THEN <<>> ELSE << <<t.key, NULL>> >>

(* Every leaf is where the bits of its word lead. *)
Placed(t) == \A i \in DOMAIN Entries(t) : KeyAt(t, Entries(t)[i][1]) = Entries(t)[i][1]
===============================================================================
