# A verification of c-lib

TLA+ models of the data structures and of the allocator in this repository, checked with TLC
on small instances, with TLAPS proofs for all instances about the dynamic array, the list, the
hash map, the allocator, and the legacy list and circular queue. The C code under `src/src` and
`src/include` is the reference; where a doc, a comment or a test says something else, that is
a finding (see below).

## The system

c-lib is a collection of single-threaded C data structures in two generations, and one
allocator that takes a lock. The older generation lives in `src/src/*.c`; the newer one
("mylib") in `src/src/secure/*.c` with NULL checks, overflow checks and a CI job under
valgrind. The two share no code.

| component | source | state | operations | what is hard | correct means |
|---|---|---|---|---|---|
| mylib dynamic array | `secure/darray.c` | block, size, capacity | create, destroy, push, insert, pop, get, set, take, remove, erase, reserve, shrink, clear, sort | realloc that fails or moves; byte counts and `index + count` that wrap; realloc of zero bytes | is a sequence; block as long as capacity; no access outside it |
| mylib list | `secure/list.c`, `mylib/list.h` | head, tail, count; nodes with next, prev | push, pop and insert at both ends and by index, find, remove, reverse, clone, merge, safe loop | links in two directions; nodes move between lists; the list changes while a loop runs; memory runs out in a clone | is a deque; no node lost or shared; loop visits all |
| mylib hash map | `secure/hashmap.c` | slots with chains, count, max_load | create, put, get, contains, remove, clear, foreach | resize that fails half way; first entry of a chain in place; keys kept by pointer; callbacks that put | is a map; entry in the slot of its hash; no key twice; nodes accounted |
| mylib red-black tree | `secure/rbtree.c` | nodes with left, right, parent, colour | insert, delete, update, search, bounds, min, max, traversals, clear | two fixup loops with rotations; fixed stack in clear | is an ordered map; search order; balance |
| allocator | `my_malloc.c` | header list, program break, lock | malloc, free, calloc, realloc | threads; a read outside the lock; sizes that wrap; what size means | blocks belong to one caller each and do not overlap |
| legacy list, stack, queue, deque | `list.c`, `list_alogs.c`, `stack.h`, `queue.h`, `deque.h` | head, tail, count; nodes | push, pop, shift, addFirst, by index, addALL, find, deep copy, iterator, merge sort | two lists sharing nodes; unchecked pointers; iterator while the list changes | order kept; nodes accounted |
| legacy circular queue | `circular_queue.c` | a legacy list with its ends tied, max | enqueue, dequeue, clear, destroy | list calls run on a circle | first in, first out; circle closed |
| legacy dynamic array and hash map | `darray.c`, `hashmap.c` | contents, end, max; an array of arrays of nodes | push, pop, set, get; set, get, remove, traverse | push stores before it grows; max moves before realloc is asked; end does not count the last bucket | every node in its bucket; no store behind the contents |
| legacy red-black tree | `rbtree.c` | nodes with parent and colour | insert, get, update, delete | its own delete with DOUBLE_BLACK | search order, balance, links |
| AVL, binary search and splay trees | `avltree.c`, `bstree.c`, `splaytree.c` | nodes; height and size in the AVL tree | insert, find, delete, deleteMin, traverse | rotations; a splay takes the tree apart in every call | search order; AVL balance |
| B-tree | `btree.c` | nodes with arrays of keys and children | insert, search, traverse, erase | splits on the way down; slots outside the array are read | ordered, leaves of one depth, nodes half full |
| skip list, trie, ternary search tree | `skiplist.c`, `trie.c`, `tst.c` | nodes with links by level, bit, character | insert, search, delete | random heights; chains of inner nodes for a common prefix | levels nested; a word is where its bits or characters lead |
| graph | `graph.c` | adjacency lists | add vertex and edge, find, search | searches share a type confusion of two kinds of nodes | one list per vertex; edges found |
| sorting | `sort.h` | the caller's array | seven sorts, shuffle | comparators that answer otherwise than with -1, 0, 1; boundaries of loops | sorted, same values, stable where it is |
| suffix array | `suffix_array.c` | offsets in order | create, search, transform and its inverse | search leaves the array; counting sort must be stable | finds every place; the inverse restores the string |
| strings, hash functions, object constructors, utilities | `string.c`, `hashmap_algo.c`, `new.c`, `util.c` | | | | not modelled, see below |

How they interact: the stack, queue and deque are macros over the legacy list, and the
circular queue calls the legacy list and then ties the ends (`CircularQueue` extends
`LinkedList`, and both share one node heap). The legacy hash map is an array of legacy dynamic
arrays (both in `LegacyHashmap`), and the graph searches use the legacy list as
their stack and queue. Callbacks into the caller are the comparator,
`free_fn`, and the callback of `mylib_hashmap_foreach`, which may call the map. Callers
interleave a `MYLIB_LIST_FOREACH_SAFE` loop or a `LinkedList_Iterator` with other calls on the
same list. `my_realloc` hands blocks of the C library's `malloc` to `my_free`. Only the
allocator has threads: nothing else in the library locks.

The hazards of the code, each with its line and the properties that would catch it, are in
`PROJECT.json` under `hazards`.

## Modules

| module | models | abstract specification |
|---|---|---|
| `Darray` | `secure/darray.c` | `VectorSpec`: a sequence (`RefinesVector`) |
| `DList` | `secure/list.c`, the loop macro | `DequeSpec`: sequences of cells with handles (`RefinesDeque`) |
| `Hashmap` | `secure/hashmap.c` | `MapSpec`: a map keyed by contents (`RefinesMap`) |
| `RBTree` | `secure/rbtree.c` | `OrderedMapSpec`: an ordered map (`RefinesMap`) |
| `MyMalloc` | `my_malloc.c` | its properties |
| `LinkedList` | `list.c` and the adapter headers | its properties |
| `CircularQueue` | `circular_queue.c`, extends `LinkedList` | `FirstInFirstOut` |
| `ListSort` | `list_alogs.c` on values | `IsStableSort` |
| `Pointers` | the null pointer | |
| `Walks` | the loops along `next` that `DList` and `LinkedList` share | |
| `AVLTree`, `BSTree`, `SplayTree`, `SkipList`, `BTree`, `LegacyRBTree`, `LegacyHashmap` with `darray.c`, `TernaryTree`, `Trie`, `LegacyGraph` | the file of that name in `src/src`: each call as the set of its outcomes | |
| `SearchBase` | what an outcome is | |
| `SearchStructures` | a program that uses one of them, one action per call | `DictionarySpec`: a bag of entries (`RefinesDictionary`) |
| `ArraySort`, `SuffixArray` | `sort.h`, `suffix_array.c` as functions | |
| `Sorting` | the reference definitions for these and for `ListSort` | `IsStableSort`, `IsSort` |
| `SequenceLemmas` | what the proofs share about sequences, and about chains of nodes and the walks of `Walks` along them | |
| `DarrayProofs` | theorems about `Darray`: its invariants; that it implements `VectorSpec` | |
| `DListProofs` | theorems about `DList` | |
| `HashmapProofs` | theorems about `Hashmap`: its invariants; that it implements `MapSpec` | |
| `MyMallocProofs` | theorems about `MyMalloc` | |
| `RBTreeProofs` | theorems about `RBTree`: its types, the search tree; that it implements `OrderedMapSpec` | |
| `RBTreeColours` | theorems about `RBTree`: its colours, the balance, the stack of `clear` | |
| `LinkedListProofs` | theorems about `CircularQueue` and the `LinkedList` it extends | |
| `MC*` | the instances for TLC | |

### State and actions

*One call, one action*, with all it does: the allocation and its failure, the fixup, the loop
over the table. The exceptions are where the code lets something else run in between: the
steps of a safe loop (`IterBegin`, `IterStep`, `IterEnd`), of an iterator
(`InitializeIterator`, `Iterate`), of foreach (`ForeachBegin`, `ForeachStep`, `ForeachStop`),
and `my_free`, which reads the program break in `FreeBegin` and takes the lock in `FreeEnd`.

- `Darray`: `data` is the block, an array of `slots` slots, of which the handle knows
  `capacity`; `SlotsOf` is the byte count after it wrapped, in slots. `fault` is an access
  outside the block. `spoiled` records that a byte count wrapped, that erase was called with
  counts that wrap, or that shrink freed the block of an empty array: from there the code
  promises nothing.
- `DList` and `LinkedList`: `next`, `prev` and `data` are the fields of all nodes, `alive`
  the allocated ones, `head`, `tail` and `count` the headers. `iter` is the cursor of a loop,
  with `due`, a history variable, the nodes it has yet to reach. In `DList` it also has
  `trapped`, which remembers that the body of the loop freed `tmp`, the node that
  `MYLIB_LIST_FOREACH_SAFE` had read ahead. `fault` is a NULL or freed
  node being followed. `merged` remembers a merge of a list into itself, `stale` that
  `LinkedList_addALL` lengthened a list at its end, `lent` the lists whose nodes another took.
- `Hashmap`: a slot is a sequence of entries, the first of them the one stored in the table
  itself; `heapNodes` counts the nodes that are allocated. Keys are pointers whose bytes are
  in `content`. `spoiled` remembers that the caller wrote to the bytes of a stored key,
  `starved` that a resize failed half way.
- `RBTree`: `tree` holds the root and the links and colours of all nodes; `Rotate`,
  `Transplant`, `InsertFixStep` and `EraseFixStep` map a tree to the next one, and the loops
  (`InsertFix`, `EraseFix`) run them to the end. What the code writes twice, for left and
  right, has the side as a parameter. `astray` remembers a delete that gave the fixup the
  wrong parent.
- `MyMalloc`: `list` is the chain of headers, `live` the blocks callers hold and the bytes
  they asked for, `freeing` and `seen` a `my_free` under way and the break it read.
  `undefined` names what made the program undefined.
- `CircularQueue`: `Rings` are the headers that queues own; `Circle` walks one once around.
- `SearchStructures`: `kind` is the structure in use and `s` its state. The modules of the
  structures have no variables: an operator such as `AVL!Delete(s, k)` is the set of outcomes of
  the call, one for each allocation that may fail and each stray slot that may hold the key.
  The AVL, binary search and splay tree, the B-tree and the tries are trees of values, because a
  link of theirs leads to a node that nothing else leads to; the red-black tree and the skip
  list are modelled pointer by pointer, because there several links lead to a node and the code
  may leave them at odds. `trust` is a history variable: what the program can rely on. It falls
  to `"twice"` when a structure that looks for a key before it stores one stores it twice, to
  `"keys"` when a call spoils the caller's pointers, and to `"none"` when it crashes, hangs or
  loses entries; each place is named in the module (`TrustAfterDelete`, `LosesNodes`, `Hangs`,
  `Shifted`, ...). `DictionarySpec` holds a step to its promise as far as `trust` reaches and
  lets nothing restore it but `destroy`.
- `ArrayPut` writes one more value to a sequence; the sorts, the suffix array and the list sort
  are functions of that sequence, so that `SortStable`, `ArraysSorted` and `SuffixesRight`
  compare them with their references on every sequence there is.

An undefined access sets a flag and ends the behaviour, so `CHECK_DEADLOCK` is off in every
configuration: after it the program has no defined next step, and a bounded instance may also
run out of heap.

### What is abstracted

Values are model values, keys integers or model values. Checks of handles for NULL, which
return at once, are left out. The hash functions are one constant function, and keys have one
length. Callbacks of foreach get, put and update, but do not resize or remove: the code frees
what foreach stands on then, and the header says nothing about it (listed as a hazard).
`remove_node` gets a node of the list, by the contract of `list.h`. The program frees only the
header of a list it gave to `addALL`, as `tests/test_list.c:124` does.

What a program does to a list while a loop runs over it is restricted in two places. In `DList`
the body of a safe loop may remove any node by any call, also the one read ahead (then `trapped`
holds and the loop really follows a freed node), insert at both ends, clear, destroy and clone the list,
and do anything to other lists; `push_at`, `reverse` and `merge` are modelled only on lists
that no loop runs over (`Idle`), since they give a loop nodes that it did not find or turn it
around, and `list.h` does not say what it should visit then. In `LinkedList` the iterator's list
may be read, cleared (which frees values, no nodes) and inserted into, and `LinkedList_remove` may
take a node that the iterator has passed; the calls that may free the node it stands on (`pop`,
`shift`, `remove_index`, `remove_data`, `destroy`) and `addALL`, which joins the nodes of two lists, are
modelled only on a list without an iterator (`Idle`). `LinkedList_addALL` of a list to itself links
a node back to the head (`src/src/list.c:246-256`), after which every walk along the list runs forever:
the behaviour ends in that call, as at a bad pointer.

Merge sort runs on the
values; its intermediate lists are not on the model's heap, and a push that fails inside it
shows as a value that is missing from the result. Vertices, keys and words of the legacy
structures are integers, and a word is the sequence of characters that `Word` gives it; the
hash of a key is the key, so that the keys decide which of them collide; weights of edges and
the printing functions are left out. In a skip list the height of a node is any that
`chooseHeight` may draw. Of the loops in `sort.h`, each is a fold over its counter. `deep_copy`
loses one block per value, which has no state and is not modelled. `free` of caller values in
`clear` leaves the pointer NULL.

## Runs

| run | instance | shows |
|---|---|---|
| `darray` | 2 values and NULL, blocks up to 4 slots, `size_t` of 12 values, byte counts that wrap at 6 slots; indices, counts and capacities over the whole of `size_t` | `BlockMatchesCapacity`, `MemorySafe`, `RefinesVector` until the array is spoiled |
| `darray_shrink` | the same | finding: shrinking an empty array |
| `dlist` | 2 lists, 3 nodes, 1 value and NULL | `WellLinked`, `NodesAccounted`, `MemorySafe`, `LoopVisitsAll` (both unless the body of the loop freed the node read ahead), `RefinesDeque` |
| `hashmap` | 4 keys that collide in tables of 3 and partly of 6 slots, 4 nodes, 1 key the caller writes to | `UniqueKeys` (and every entry in its slot), `LoadBounded`, `NodesAccounted`, `ForeachVisitsOnce`, `ForeachEnds`, `RefinesMap` |
| `hashmap_leak` | the same | finding: nodes lost by a failed resize |
| `rbtree` | 6 keys, 6 nodes, the stack of clear shortened to 4 | `SearchTree`, `Balanced`, `MemorySafe`, `RefinesMap` |
| `rbtree_delete` | the same | finding: deleting the last node |
| `mymalloc` | 2 threads, header of 2 bytes, 14 bytes of heap, sizes 1, 2, 5, one that `sbrk` takes as negative and one that wraps with the header | `HeapLaidOut`, `OneOwner`, `LiveApart`, `StaleBreakOnly` |
| `mymalloc_apart` | the same | finding: the header counted as the caller's |
| `circularqueue` | 2 lists and a queue of capacity 2 on 3 nodes | `WellLinked`, `RingClosed` (and no node lost), `IterateVisitsAll`, `OnlyKnownFaults`, `OrderKept`, `FirstInFirstOut` |
| `circularqueue_dequeue` | the same | finding: dequeue of the last value |
| `searchstructures` | one structure at a time: AVL tree of 5 keys, binary search tree of 4, splay tree of 6, skip list of 4 nodes and height 3, B-trees of degree 2 and 3 with 7 keys, red-black tree of 6 nodes with equal keys, hash map with 2 buckets that grow by 2, 6 words in the tries, 4 edges between 3 vertices, sequences of up to 5 out of 4 values (2 equal pairs, one of them NULL for the list) | `Searchable`, `StaysBalanced`, `RefinesDictionary`, `SortStable`, `ArraysSorted`, `SuffixesRight` |

**Why the bounds are enough.** Three nodes give a list a first, a middle and a last node, a
merge of two and one, and a clone that runs out half way; every store of the list modules
touches a node and its two neighbours. Six keys give the red-black tree two levels of both
colours under the root and a successor that is not a child of the deleted node: each case of
the two fixup loops fires. Four keys that collide take the table through two resizes and fill
one chain with everything. Twelve values of `size_t` with wraps at six and twelve reach every
guard of the array below, at and above its bound. Fourteen bytes of heap hold three blocks:
one being freed, its neighbour, and one allocated meanwhile. Five and six keys
make the AVL and the splay tree rotate and splay in every form, straight and bent, on both sides,
at the root and below; seven keys in a B-tree of
degree 2, in any order and with keys stored again, split leaves, a root that is a leaf and one
that is not. Six nodes of the legacy red-black tree reach each case of
its two fixups. Height 3 gives a node of the skip list levels above and below it. The words of
the tries are the empty one, prefixes of each other, and words that part early and late. Five
values let every sort compare three equals and unequal ones, and a merge run out on either side.
The stack in `clear` has 64
entries in the code; with 4 the bound is as far above the depth of a balanced tree of six.

`ret` (in the lists `call` and `result`) holds the last call with its arguments and what it
returned, so that a refinement compares call with call: a `get(i)` that answered with another
element would not pass. Where `VIEW` drops it, or the identity of nodes, no action
reads what it drops; action properties are checked on every transition. Symmetry is over nodes,
lists, threads and values, which the actions only compare, and is used in no run with a
liveness property.

**Fairness.** `FairSpec` of `Hashmap` has weak fairness on `ForeachStep` and `ForeachStop`:
`mylib_hashmap_foreach` is a loop without a wait, so it goes on whenever its callback has
returned. Nothing makes the callback stop putting into the map between two steps. `ForeachEnds`
says that the loop comes to an end nevertheless, which it does since the chains are finite and
the loop never turns back. The view of that run leaves out `ret` alone, on which no action, no
fairness condition and not the property depend, and there is no symmetry in it. Elsewhere no
fairness is assumed and no liveness is claimed. The data structures are passive: they move when
called, and a call is one action, whose loops the evaluation of the model runs to their end
(those that do not end in the code, as in `BSTreeNode_find_min`, are outcomes of their own). In
the allocator every path releases the lock, and a thread in `my_free` only needs to be
scheduled; a liveness property would restate that.

## Findings

1. `darray_shrink`: `mylib_darray_shrink_to_fit` on an empty array calls `realloc` with zero
   bytes, takes the NULL for a failure and keeps a freed block.
2. `hashmap_leak`: when a resize runs out of memory, the clean-up frees one node per new chain
   and loses those behind it.
3. `rbtree_delete`: `mylib_rbtree_delete` of the only key follows the NULL parent in the fixup.
4. `mymalloc_apart`: `header->size` counts the header, and `my_realloc` and `get_free_block`
   compare the caller's size with it.
5. `circularqueue_dequeue`: `Circular_Queue_dequeue` of the only value follows a NULL head.

Met on the way and covered by the history variables of passing runs: the wrong `x_parent` of
`mylib_rbtree_delete` (`astray`), the stale tail after `LinkedList_addALL` (`stale`), merging a
list into itself (`merged`), the body of a safe loop that frees the next node (`trapped`), the program break read outside the lock (`StaleBreakOnly`). In the
legacy structures (`trust`, or the definition that is named):

- `avltreeDelete` (line 218) stores the data of the next key as the key.
- `BSTreeNode_find_min` (line 199) recurses without moving on and never returns; `BSTreeNode_swap`
  (line 215) loses one of the two data pointers.
- `RbTree_delete` (line 196) of a root or an inner node loses a subtree or follows NULL, and the
  fixup may leave a node DOUBLE_BLACK (`marked`).
- `BTree_insert_non_full` (line 170) shifts the leaf before it finds that the key is there, which
  overwrites the greatest key, and reads slot -1; `Node_search` (line 64) reads slot n.
- `BTree_insert_non_full` says "don't insert duplicate key" (`src/src/btree.c:169`), but when it
  has split a child it does not ask whether the key that moved up is the one to be inserted (line
  184), and stores it again in the left half; for a root that is split `BTree_insert` does ask (line
  209). With degree 2, inserting 1, 2, 3, 4, 5 and 4 leaves the root [2, 4] with the child [3, 4].
  The code disagrees with its comment here. `trust` is `"twice"` from such an insert on (`Down`), and
  `RefinesDictionary` shows that no other insert stores a key of a B-tree twice: `DictionarySpec`
  lets a structure that keeps its keys unique do so in `InsertAgain` alone.
- `BTree_erase` (line 225) returns when there is a tree and follows NULL when there is none.
- `Darray_resize` (line 49) moves `max` before it has the memory, so that the next pushes of a hash
  map's bucket store behind it; `Hashmap_traverse` (line 160) asks bucket i for node i each time.
- `trie_insert` (line 109) loses a word whose copy finds no memory.
- `AdjList_is_node_in_list` (line 97) does not look at the last node, so an edge may be there
  twice (`trust` is `"twice"` then); `Graph_has_edge` (line 264) asks for a node that leads elsewhere (`HasEdge`); the
  searches (lines 292 and 325) take what they pushed for a node of another type.
- `suffixArraySearch` (line 61) reads behind the array when the greatest suffix matches
  (`outside`); `shuffle` (line 45) wraps for an empty array.

## Proofs

Every property of the runs `darray`, `mymalloc` and `rbtree` is also a theorem, every one of
`hashmap` but the liveness property, every one of `dlist` but the refinement, and every one of
`circularqueue` but `OrderKept`: for all values of the constants, where a run takes one. The assumptions are those that the modules state about their
constants and TLC evaluates: `SizeAssumption` and `RankAssumption`, `NodesAssumption` of both
lists, `RingsAssumption` and `MaximaAssumption`,
`HashmapAssumption`, `MallocAssumption`, `RBTreeAssumption` and `StackAssumption`. They say what
the C types say (a size is below
`SizeMod`, a pointer is not NULL); for the map, that the smallest table may hold an entry,
`MinCapacity * LoadFactor >= 100`, where the code has 16 and 75; and for the tree, that the heap
has no room for a balanced tree so high that `clear` overruns its stack. With the 64 entries of
the code that takes 2^33 - 1 nodes (`Fewest`), more than 300 GB of them. In each component one lemma per action
shows that the action keeps the inductive invariant, and the theorems follow from it.

**Dynamic array** (`TypeCorrect`, `MemorySafety`, `CapacityTruthful`). `MemorySafe` is not
inductive, since the handle does not record how long the block is. `BlockInv` adds it: an
unspoiled array has a block of exactly `capacity` slots, a spoiled one a block of
`SlotsOf(capacity)` slots or none, and size fits in it.

**Dynamic array as a sequence** (`ImplementsVector`: `Spec => RefinesVector`). The sequence is
the first `size` slots of the block (`View`). By the invariant they are in the block, so that
each `memmove` and each store has its counterpart among the operators of `VectorSpec`; a realloc
that fails or moves changes no element. `Sort` needs that a sequence that the positions of
another give in some order has the same bag of elements (`RearrangedBag`).

**List** (`TypeCorrect`, `ListsLinkedBothWays`, `NoNodeLost`, `NoBadPointer`, `LoopComplete`).
The runs' properties walk along `next` as the code does. The invariant has instead a function
from positions to nodes for each list, `Picture`: linked in both directions, every node allocated, no node on two
of them. It speaks of all lists at once, since a store to a node must not disturb the chain of
another list. `SequenceLemmas` has what connects both: a walk finds just the chain, and the chain is
unique. The loop needs more than that its remaining nodes are on the list (`Loop`): `tmp` is on
it and is not the node the loop is at, and the nodes due are distinct, begin with
`node` and `tmp` and follow one another along `next`. A removal takes one of them out and those on
either side of it then follow one another (`Shortened`, `LoopShortened`); the removal of `tmp` itself ends
all this, which is why the invariant asks it of a loop that is not `trapped` only (`OnTrack`).

**Hash map** (`TypeCorrect`, `KeysUnique`, `LoadWithinBounds`, `NodesKept`,
`EveryEntryVisitedOnce`). That no key is stored twice depends on where entries are: a put
searches one slot only. `Good` therefore has every entry in the slot that its stored hash
selects, and that hash current for the bytes of the key as long as the caller wrote to none. A
resize is proved with a listing that both tables share (`Listing`): the entries in the order of
foreach, each with its place, of the old table by `FlattenSeq` and of the new one by the copying
loop. No entry is lost or doubled then, and there are not more nodes than before: two occupied
slots stay apart when the capacity doubles, so the occupied slots do not get fewer. While
foreach runs, what is due lies behind the visited entry and what was seen does not (`Visiting`);
a put appends to a chain and so keeps both.

**Hash map as a map** (`ImplementsMap`: `Spec => RefinesMap`). `IsMap` describes the map that a
set of entries is when they differ in their bytes; there is one such map. A search in one slot
finds the key or shows that it is nowhere (`SearchTells`), so that every call answers as the map
does, and the set of entries changes by the one entry that was put, updated or removed, and not
at all in a resize or when memory runs out.

**Allocator** (`TypeCorrect`, `HeapInOrder`, `EveryBlockOwned`, `CallersApart`, `StaleBreak`).
That the headers ascend without overlap is kept by every step of the locked part; that `my_free`
cuts off the right block is not, since the break it compares with was read before the lock.
`HeadersOwned` says that a header that is not free has exactly one owner, a caller or a `my_free`
under way. `NothingBetween` says that when a block ends where the break was seen, no header
behind it begins below that, and the break has not moved below it: if it has
not moved at all, the block is the last. `StaleBreakOnly` is the action property that follows.

**Legacy list and circular queue** (`TypesKept`, `AlwaysWellLinked`, `AlwaysRingClosed`,
`AlwaysVisitsAll`, `AlwaysOnlyKnownFaults`, `AlwaysFirstInFirstOut`). `IInv` is `Types`, a
`Picture` of the nodes of all lists and queues, and `Looping` for the iterator. The picture is
again a function from positions to nodes, here with two shapes: a chain that ends in NULL, and
a circle (`Ringed`) for a queue. A list that another took the nodes of (`lent`) has none of its
own. Of a list that `addALL` has lengthened at its end (`stale`) much is lost, but the next calls
rely on what is left: the tail is somewhere on the chain, and no more nodes are on it than
`count` says, so that a push cuts off what follows the tail and joins nothing to another list.
The iterator is at some position of its chain, and the nodes it found and has not given out are
at positions from there on, in the same order (`Pending`, `Follows`); each call that
inserts or removes a node maps these positions to new ones. `OnlyKnownFaults` follows because
while no list is stale, `prev` and `next` of a node on a list are on it too or NULL at its ends,
so `remove_node` reads allocated nodes alone; `destroy` faults only when the tail is not the last
node. A merge sort makes a list of new nodes, so all that these theorems need of it is that the
result is a sequence of the list's values: `MergeSeq` and `MergeSortedSeq`, the second by
induction on the depth of the calls, as a least counterexample (`LeastNumber`).

**Red-black tree: the search tree** (`TreeInvariant`, `TypeCorrect`, `SearchTreeHolds`). The
properties walk the tree recursively; the invariant has instead a set for every node, `sub[n]`,
the nodes at and below it. `Shape` says that `sub` of a node is the node with `sub` of its two
children, that links down and up agree, and that the keys in `sub` of a side lie on that side.
Since the sets are finite and get smaller downwards, what holds of a node when it holds of its
children holds of all (`TreeInduction`), and a recursion over the children has a solution
(`TreeRecursion`); that is how the searches, walks and traversals of the model are given a
meaning without any induction over data. Each pointer operation has one lemma that says what it
does to `sub`: a rotation (`RotatedShape`), a leaf that is hung on (`LeafHung`), a node taken out
(`CutShape`) or given another's place (`ReplacedShape`, `GivesPlace`). The colours do not matter
to any of it, so the order survives the wrong `x_parent` too; the fixup then may follow NULL,
which `Outcome` allows for.

**Red-black tree: the colours** (`ColoursRight`, `BalancedHolds`). `ColourInv` is that until
delete went astray there is a labelling `bh` of the nodes by black height (`Counted`), the root
is black and no red node has a red child. Both loops break it for a while, each at one place only.
In the insertion (`Fixing`) it is the new node, which may be red under a red parent: a
turn ends that (`Settles`) or moves it two levels up (`Rises`). In the deletion (`Lacking`) one
side of one node owes a black one: a turn pays (`RaisedColoured`), or moves the debt up (`Sinks`,
which counts the turns), and a red sibling first becomes a black one (`RedSiblingTurned`). The
loops are unrolled as many times as there are nodes, and the place climbs with each turn, so that
both loops end within that. Left and right are one case throughout: the side is a parameter.

**Red-black tree: memory** (`MemorySafeHolds`). The fixup follows NULL only where a
sibling must be and is not; while the heights are right there is one (`SiblingThere`), unless the
tree has become empty. The stack of `clear` holds what a path leaves to come back to, at most twice
the black height (`StackFits`), and a tree of that height has at least `Fewest` nodes.

**Red-black tree as an ordered map** (`ImplementsOrderedMap`: `Spec => RefinesMap`). No two nodes
have one key (`KeysApart`), so that the nodes are a map (`Maps`), which an insertion, an
update and a deletion change at one key. A search finds the key or there is none (`LookupIs`),
the two bounds are the least key from there on (`BoundIs`), min and max the ends (`ExtremesAre`), and
each traversal names every key once, the one in order ascending (`TraversalVisits`).

The attempt to prove `WellLinked` found a case that the model had wrong, which takes four nodes
and so was beyond the run: `LinkedList_addALL_with_index` in the middle of a list, with a stale
list to insert, brings in the nodes up to the tail of that list but adds its whole `count`
(`src/src/list.c:246-262`), so that the receiving list is stale from there on. `Splice` says so
now. `IterateVisitsAll` is stated over positions of the walk instead of a filtered sequence,
and the merge in `ListSort` over how many values each side has given (`Shifted`) instead of a
recursion, which is the same loop of the code in a form that can be reasoned about.

**Only model-checked.**
- `ForeachEnds`, for it is liveness under fairness, which these provers do not treat.
- `RefinesDeque` of the list: not proved yet; the invariant of `DListProofs` is made for it.
- `OrderKept` of the legacy lists: it filters the chain with `SelectSeq`, whose definition the
  provers cannot unfold. It says more than `WellLinked`: that calls keep the order of the nodes.
- That a merge sort sorts (`SortStable`): the sort is a function of depth and its result an
  order, not only a sequence of the same values.
- `SearchStructures` with the modules it uses, `ArraySort` and `SuffixArray`: they are recursive operators over trees
  and sequences, and what these compute for every input takes induction over data, which is out
  of the provers' reach.

## Plan

1. (done) The four mylib structures with their abstract specifications, the allocator, the
   legacy list with its adapters, the circular queue and the merge sort; type correctness and
   memory safety of the array.
2. (done) The legacy search structures, `sort.h` and the suffix array, refining one
   `DictionarySpec`; liveness of `mylib_hashmap_foreach`.
3. (done) Proofs of the invariants of the array, the list, the hash map, the allocator and the
   red-black tree, of the legacy list and the circular queue, and of the refinements of the array,
   the hash map and the red-black tree. Left: the refinement of the list, and `OrderKept` stated
   over positions.
4. A thread of the allocator that crashes with the lock held is not handled by the code and not
   worth a model; what is left is listed next.

### Not modelled

- `new.c`, `class.h` and `string.c`: `New`, `Del`, `Clone` and `Differ` call the function that
  the object's class has for them, and the one class there is holds a string that never changes.
  `hashmap_algo.c` is three hash functions, of which the maps need only that equal keys have
  equal hashes.
- `BTree_erease_real`, `BTree_merge` and `Node_find_key`: nothing but `BTree_erase` calls them,
  and that never does with a node. `BTree_remove` (marked unfinished) only frees.
- Of the legacy dynamic array what the hash map does not use: `Darray_clear`, `Darray_new`,
  `Darray_qsort`.
- Reading a file (`util.c`), logging (`dbg.h`), and every function that only prints.
