---------------------------- MODULE SearchStructures ----------------------------
(***************************************************************************)
(* A program with one of the legacy search structures, or with a sequence  *)
(* that it sorts: kind says which.  Each call of their headers is an       *)
(* action; the modules of the structures give its outcomes.  An outcome    *)
(* after which nothing can be trusted ends the model: the program crashed  *)
(* or hangs, or what the structure holds is no longer what was put in.     *)
(***************************************************************************)
EXTENDS Integers, Sequences, FiniteSetsExt, Bags

CONSTANTS
  Kinds,      (* the structures looked at                                *)
  Bounds,     (* for each of them the keys, integers, the pointers that  *)
              (* callers store instead of a key's own, and the room: how *)
              (* many entries it may hold                                *)
  MaxHeight,  (* how high a node of the skip list may be                 *)
  Degrees,    (* the minimal degrees a B-tree is made with               *)
  Rate,       (* how much a bucket of the hash map grows by              *)
  Buckets,    (* how many buckets it has, and how large one is at first  *)
  Word,       (* the strings that keys stand for in the tries            *)
  Base,       (* the vertices of the graph are below it                  *)
  Junk,       (* what memory holds that nobody has cleared               *)
  IntMin,     (* the least int                                           *)
  IntMax,     (* the greatest                                            *)
  NULL,       (* the null pointer                                        *)
  Yes,        (* what a call answers that returns a boolean              *)
  No

ASSUME SearchAssumption ==
  /\ Kinds \subseteq {"avl", "bst", "splay", "skiplist", "btree", "rbtree", "hashmap",
                 "tst", "trie", "graph", "array"}
  /\ \A k \in Kinds : /\ Bounds[k].keys \subseteq IntMin + 1..IntMax - 1
                      /\ Bounds[k].room \in Nat \ {0}
  /\ MaxHeight \in Nat \ {0} /\ Degrees \subseteq Nat \ {0, 1}
  /\ Rate \in Nat \ {0} /\ Buckets \in 1..Rate

VARIABLES
  kind,   (* the structure in use                        *)
  s,      (* its state                                   *)
  trust,  (* what can be relied on, see DictionarySpec   *)
  ret     (* the last call and what it returned          *)

vars == <<kind, s, trust, ret>>

AVL   == INSTANCE AVLTree
BST   == INSTANCE BSTree
Splay == INSTANCE SplayTree
Skip  == INSTANCE SkipList WITH Nodes <- 1..Bounds.skiplist.room
BTr   == INSTANCE BTree
RB    == INSTANCE LegacyRBTree WITH Nodes <- 1..Bounds.rbtree.room
Map   == INSTANCE LegacyHashmap
Tst   == INSTANCE TernaryTree
Tr    == INSTANCE Trie
Gr    == INSTANCE LegacyGraph
Sort  == INSTANCE Sorting WITH input <- s, Inputs <- Bounds.array.keys

Empty(k) ==
  CASE k \in {"avl", "bst", "splay", "tst", "trie"} -> {NULL}
    [] k = "skiplist" -> {Skip!Empty}
    [] k = "rbtree" -> {RB!Empty}
    [] k = "hashmap" -> {Map!Empty}
    [] k \in {"graph", "array"} -> {<<>>}
    [] k = "btree" -> {BTr!Empty(t) : t \in Degrees}

Init ==
  /\ kind \in Kinds /\ s \in Empty(kind)
  /\ trust = "all" /\ ret = << <<"none">>, NULL>>

Entries ==
  CASE kind = "avl" -> AVL!Entries(s) [] kind = "bst" -> BST!Entries(s)
    [] kind = "splay" -> Splay!Entries(s) [] kind = "skiplist" -> Skip!Entries(s)
    [] kind = "btree" -> BTr!Entries(s) [] kind = "rbtree" -> RB!Entries(s)
    [] kind = "hashmap" -> Map!Entries(s) [] kind = "graph" -> Gr!Entries(s)
    [] kind = "tst" -> Tst!Entries(s) [] kind = "trie" -> Tr!Entries(s)
    [] kind = "array" -> [i \in DOMAIN s |-> <<s[i], NULL>>]

-------------------------------------------------------------------------------
Rank(t) == CASE t = "none" -> 0 [] t = "keys" -> 1 [] t = "twice" -> 2 [] t = "all" -> 3

Worse(t, u) == IF Rank(t) < Rank(u) THEN t ELSE u

(* The call has one of the outcomes. *)
Calls(call, outcomes) ==
  /\ trust # "none"
  /\ \E o \in outcomes :
       s' = o.s /\ ret' = <<call, o.r>> /\ trust' = Worse(trust, o.trust)
  /\ UNCHANGED kind

Ints == IntMin..IntMax

Keys == {k \in Ints : \E name \in Kinds : k \in Bounds[name].keys}

Data == Keys \cup {d \in Ints : \E name \in Kinds : d \in Bounds[name].strays}

(* The structure in use is a name, and k is one of its keys; v is k itself, *)
(* as in the tests, or a stray.                                            *)
On(name, k) == kind = name /\ k \in Bounds[name].keys

Takes(name, k, v) == On(name, k) /\ v \in {k} \cup Bounds[name].strays

Room == Len(Entries) < Bounds[kind].room

AVLInsert(k, v) == Takes("avl", k, v) /\ Room /\ Calls(<<"insert", k, v>>, AVL!Insert(s, k, v))
AVLDelete(k)    == On("avl", k) /\ Calls(<<"delete", k>>, AVL!Delete(s, k))
AVLDeleteMin    == kind = "avl" /\ Calls(<<"delete_min">>, AVL!DeleteMin(s))
AVLGet(k)       == On("avl", k) /\ Calls(<<"get", k>>, AVL!Get(s, k))

BSTInsert(k, v) == Takes("bst", k, v) /\ Room /\ Calls(<<"insert", k, v>>, BST!Insert(s, k, v))
BSTDelete(k)    == On("bst", k) /\ Calls(<<"delete", k>>, BST!Delete(s, k))
BSTGet(k)       == On("bst", k) /\ Calls(<<"get", k>>, BST!Get(s, k))
BSTTraverse(op) == kind = "bst" /\ Calls(<<op>>, BST!Traverse(op, s))

SplayInsert(k)  == On("splay", k) /\ Room /\ Calls(<<"insert", k, NULL>>, Splay!Insert(s, k))
SplayDelete(k)  == On("splay", k) /\ Calls(<<"delete", k>>, Splay!Delete(s, k))
SplayGet(k)     == On("splay", k) /\ Calls(<<"get", k>>, Splay!Get(s, k))
SplayDestroy    == kind = "splay" /\ Calls(<<"destroy">>, {Splay!Out(Splay!Destroyed(s), NULL)})

SkipInsert(k)   == On("skiplist", k) /\ Calls(<<"insert", k, NULL>>, Skip!Insert(s, k))
SkipDelete(k)   == On("skiplist", k) /\ Calls(<<"delete", k>>, Skip!Delete(s, k))
SkipFloor(k)    == On("skiplist", k) /\ Calls(<<"floor", k>>, Skip!Floor(s, k))

BTreeInsert(k)  == On("btree", k) /\ Room /\ Calls(<<"insert", k, NULL>>, BTr!Insert(s, k))
BTreeErase(k)   == On("btree", k) /\ Calls(<<"erase", k>>, BTr!Erase(s, k))
BTreeGet(k)     == On("btree", k) /\ Calls(<<"get", k>>, BTr!Get(s, k))
BTreeTraverse   == kind = "btree" /\ Calls(<<"inorder">>, {BTr!Out(s, BTr!Traverse(s))})

RBInsert(k, v)  == Takes("rbtree", k, v) /\ Calls(<<"insert", k, v>>, RB!Insert(s, k, v))
RBDelete(k)     == On("rbtree", k) /\ Calls(<<"delete", k>>, RB!Delete(s, k))
RBUpdate(k, v)  == Takes("rbtree", k, v) /\ Calls(<<"update", k, v>>, RB!Update(s, k, v))
RBGet(k)        == On("rbtree", k) /\ Calls(<<"get", k>>, RB!Get(s, k))

MapSet(k, v)    == Takes("hashmap", k, v) /\ Room /\ Calls(<<"insert", k, v>>, Map!Insert(s, k, v))
MapRemove(k)    == On("hashmap", k) /\ Calls(<<"delete", k>>, Map!Delete(s, k))
MapGet(k)       == On("hashmap", k) /\ Calls(<<"get", k>>, Map!Get(s, k))
MapTraverse     == kind = "hashmap" /\ Calls(<<"sample">>, Map!Traverse(s))

TstInsert(k)    == On("tst", k) /\ Calls(<<"insert", k, NULL>>, Tst!Insert(s, k))
TstGet(k)       == On("tst", k) /\ Calls(<<"get", k>>, Tst!Get(s, k))

TrieInsert(k)   == On("trie", k) /\ Calls(<<"insert", k, NULL>>, Tr!Insert(s, k))
TrieGet(k)      == On("trie", k) /\ Calls(<<"get", k>>, Tr!Get(s, k))

(* Vertices are the sources of the edges. *)
GraphAddVertex(k) == On("graph", k) /\ Calls(<<"vertex">>, Gr!AddVertex(s, Gr!Source(k)))
GraphAddEdge(k)   == On("graph", k) /\ Room /\ Calls(<<"insert", k, NULL>>, Gr!AddEdge(s, k))
GraphFindEdge(k)  == On("graph", k) /\ Calls(<<"get", k>>, Gr!FindAdjNode(s, k))
GraphHasEdge(k)   == On("graph", k) /\ Calls(<<"has_edge">>, {Gr!Out(s, Gr!Answer(Gr!HasEdge(s, k)))})
GraphSearch(k)    == On("graph", k) /\ Calls(<<"sample">>, Gr!Search(s, Gr!Source(k)))
GraphDestroy      == kind = "graph" /\ Calls(<<"destroy">>, Gr!Destroy(s))

(* The caller writes one more value to its sequence. *)
ArrayPut(k) ==
  On("array", k) /\ Room
  /\ Calls(<<"insert", k, NULL>>, {AVL!Out(Append(s, k), "stored")})

(* avltreeDestroy, BSTree_destory, skiplist_destroy, tst_destroy and       *)
(* trie_destroy free every node, Hashmap_destroy those of the buckets      *)
(* below end; RbTree_destroy frees the handle alone.                       *)
Destroy ==
  /\ kind \in {"avl", "bst", "skiplist", "rbtree", "hashmap", "tst", "trie"}
  /\ trust # "none" /\ trust' = "all"
  /\ s' \in Empty(kind) /\ ret' = << <<"destroy">>, NULL>>
  /\ UNCHANGED kind

Next ==
  \/ AVLDeleteMin \/ SplayDestroy \/ BTreeTraverse \/ MapTraverse \/ GraphDestroy \/ Destroy
  \/ \E op \in {"inorder", "preorder", "postorder"} : BSTTraverse(op)
  \/ \E k \in Keys :
       \/ AVLDelete(k) \/ AVLGet(k) \/ BSTDelete(k) \/ BSTGet(k)
       \/ SplayInsert(k) \/ SplayDelete(k) \/ SplayGet(k)
       \/ SkipInsert(k) \/ SkipDelete(k) \/ SkipFloor(k)
       \/ BTreeInsert(k) \/ BTreeErase(k) \/ BTreeGet(k)
       \/ RBDelete(k) \/ RBGet(k) \/ MapRemove(k) \/ MapGet(k)
       \/ TstInsert(k) \/ TstGet(k) \/ TrieInsert(k) \/ TrieGet(k)
       \/ GraphAddVertex(k) \/ GraphAddEdge(k) \/ GraphFindEdge(k) \/ GraphHasEdge(k)
       \/ GraphSearch(k) \/ ArrayPut(k)
       \/ \E v \in Data :
            AVLInsert(k, v) \/ BSTInsert(k, v) \/ RBInsert(k, v) \/ RBUpdate(k, v)
            \/ MapSet(k, v)

Spec == Init /\ [][Next]_vars

-------------------------------------------------------------------------------
(* Properties. *)

(* Every entry is where the searches look for it: the trees and the skip   *)
(* list ascend, the hash map has it in its bucket, and no two nodes are    *)
(* linked twice or lost: through all rotations, splays, splits and moves,  *)
(* after every sequence of calls that leaves something to trust.           *)
Searchable ==
  trust # "none" =>
    CASE kind = "hashmap" -> Map!InBuckets(s)
      [] kind = "tst"     -> Tst!Ordered(s, 0..3)
      [] kind = "trie"    -> Tr!Placed(s)
      [] kind = "graph"   -> Gr!WellFormed(s)
      [] kind = "array"   -> TRUE
      [] OTHER ->
         /\ \A i \in 1..Len(Entries) - 1 : Entries[i][1] <= Entries[i + 1][1]
         /\ kind = "rbtree" => RB!Linked(s)
         /\ kind = "skiplist" => Skip!LevelsNested(s)

(* The trees that promise a logarithmic height keep it: the AVL tree as    *)
(* avltreeSanityCheck tests it, the B-tree with leaves of one depth and    *)
(* nodes at least half full, the red-black tree until a delete leaves a    *)
(* node DOUBLE_BLACK.                                                      *)
StaysBalanced ==
  CASE kind = "avl" -> AVL!Balanced(s)
    [] kind = "btree" -> BTr!Balanced(s)
    [] kind = "rbtree" -> trust # "none" => RB!Balanced(s)
    [] OTHER -> TRUE

(* list_alogs.c: merge_sort returns the list sorted by the comparator,     *)
(* equal elements in their old order, up to the first NULL value.          *)
SortStable == kind = "array" => Sort!ListSorted

(* sort.h: every function sorts what an array has, however it is shuffled  *)
(* before; merge, insert, shell and bubble sort keep the order of equal    *)
(* values, the last three also under a comparator that answers otherwise   *)
(* than with -1, 0 and 1.                                                  *)
ArraysSorted == kind = "array" => Sort!Stable /\ Sort!Sorted

(* suffix_array.c: a search finds every place of a substring and leaves    *)
(* the array only behind the greatest suffix, and what inverseBWT makes of *)
(* the transform is the string again, however often characters repeat.     *)
SuffixesRight == kind = "array" => Sort!SuffixesRight

(* Seen through its entries every structure is the dictionary of           *)
(* DictionarySpec.  The binary search tree, the skip list, the red-black   *)
(* tree and the hash map store a key that is there once more; the others   *)
(* look for it first.                                                      *)
AsBag == BagOfAll(LAMBDA i : Entries[i], SetToBag(DOMAIN Entries))

Unique == kind \in {"avl", "splay", "btree", "tst", "trie", "graph"}

Abstract == INSTANCE DictionarySpec WITH bag <- AsBag, unique <- Unique

RefinesDictionary == Abstract!Spec
===============================================================================
