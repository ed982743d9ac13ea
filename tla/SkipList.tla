-------------------------------- MODULE SkipList --------------------------------
(***************************************************************************)
(* The skip list of src/src/skiplist.c, pointer by pointer.  A list l is   *)
(* [next, key, height]: next[n][level], the fields of all nodes, of which  *)
(* "head" is the one that skiplist_create makes, with the least int as its *)
(* key and the height of the highest node so far.  Levels count from 0;    *)
(* MaxHeight is MAX_HEIGHT.                                                *)
(***************************************************************************)
EXTENDS Integers, Sequences, FiniteSetsExt, SearchBase

CONSTANTS
  Nodes,      (* the nodes memory has room for, integers from 1 on *)
  MaxHeight,  (* MAX_HEIGHT                                        *)
  IntMin      (* INT_MIN: below every key                          *)

Header == 0

Levels == 0..MaxHeight - 1

Unused == [level \in Levels |-> NULL]

(* skiplist_create *)
Empty ==
  [next   |-> [n \in Nodes \cup {Header} |-> Unused],
   key    |-> [n \in Nodes \cup {Header} |-> IntMin],
   height |-> [n \in Nodes \cup {Header} |-> IF n = Header THEN 1 ELSE 0]]

(* The nodes that are allocated have a height. *)
Free(l) == {n \in Nodes : l.height[n] = 0}

RECURSIVE Along(_, _, _, _)
(* Along one level from n, to the last node with a key below k. *)
Along(l, n, level, k) ==
  LET m == l.next[n][level] IN
  IF m = NULL THEN n
  ELSE IF l.key[m] < k THEN Along(l, m, level, k) ELSE n

RECURSIVE Before(_, _, _)
(* Where the search for k turns down from a level: it comes there from the *)
(* level above.                                                            *)
Before(l, level, k) ==
  IF level >= l.height[Header] THEN Header
  ELSE Along(l, Before(l, level + 1, k), level, k)

(* skiplist_search: the last key that is not above k. *)
Floor(l, k) ==
  LET n == Before(l, 0, k + 1) IN
  {Out(l, IF n = Header THEN NULL ELSE l.key[n])}

(* The new node is linked in on each of its levels.                        *)
Linked(l, n, k, h) ==
  LET tall  == [l EXCEPT !.height[Header] = Max({@, h})]
      above == [level \in Levels |-> Before(tall, level, k)]
  IN  [next   |-> [m \in DOMAIN l.next |-> [level \in Levels |->
                     IF level >= h THEN l.next[m][level]
                     ELSE IF m = n THEN l.next[above[level]][level]
                     ELSE IF m = above[level] THEN n
                     ELSE l.next[m][level]]],
       key    |-> [l.key EXCEPT ![n] = k],
       height |-> [tall.height EXCEPT ![n] = h]]

(* skiplistInsert, with the height that chooseHeight draws.  Which node    *)
(* malloc returns is of no consequence: the first free one.                *)
Insert(l, k) ==
  {Out(Linked(l, Min(Free(l)), k, h), "stored") : h \in {i \in 1..MaxHeight : Free(l) # {}}}
    \cup {Out(l, "nomem")}

(* The leftmost node with key k, NULL if there is none. *)
Target(l, k) ==
  LET n == l.next[Before(l, 0, k)][0] IN
  IF n = NULL THEN NULL ELSE IF l.key[n] = k THEN n ELSE NULL

(* On every level where the walk for n's key arrives before n, n is taken  *)
(* out; then it is freed.                                                  *)
Unlinked(l, n) ==
  LET above == [level \in Levels |-> Before(l, level, l.key[n])]
  IN  [next   |-> [m \in DOMAIN l.next |-> [level \in Levels |->
                     IF m = n THEN NULL
                     ELSE IF m = above[level] /\ l.next[m][level] = n
                     THEN l.next[n][level]
                     ELSE l.next[m][level]]],
       key    |-> [l.key EXCEPT ![n] = IntMin],
       height |-> [l.height EXCEPT ![n] = 0]]

(* skiplistDelete *)
Delete(l, k) ==
  {Out(IF Target(l, k) = NULL THEN l ELSE Unlinked(l, Target(l, k)), NULL)}

-------------------------------------------------------------------------------
RECURSIVE Level(_, _, _)
(* The nodes on a level, from n on. *)
Level(l, n, level) ==
  IF n = NULL THEN <<>> ELSE <<n>> \o Level(l, l.next[n][level], level)

(* The entries from the lowest list; there is no data. *)
Entries(l) ==
  LET nodes == Level(l, l.next[Header][0], 0)
  IN  [i \in DOMAIN nodes |-> <<l.key[nodes[i]], NULL>>]

(* Every level is the list below it without the nodes that are too low for *)
(* it, the lowest holds all nodes, and the header is as high as the highest *)
(* node, or higher once that is deleted.                                   *)
LevelsNested(l) ==
  \A level \in Levels :
    LET nodes == Level(l, l.next[Header][level], level)
        under == IF level = 0 THEN nodes ELSE Level(l, l.next[Header][level - 1], level - 1)
    IN  /\ nodes = SelectSeq(under, LAMBDA n : l.height[n] > level)
        /\ level = 0 => Len(nodes) = Cardinality(Nodes \ Free(l))
        /\ nodes # <<>> => level < l.height[Header]
===============================================================================
