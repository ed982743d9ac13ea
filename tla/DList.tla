--------------------------------- MODULE DList ---------------------------------
(***************************************************************************)
(* The doubly linked lists of src/src/secure/list.c, pointer by pointer:   *)
(* nodes on a heap that may run out, list headers with head, tail and      *)
(* count, every exported operation as one action, and the iteration macro  *)
(* MYLIB_LIST_FOREACH_SAFE of mylib/list.h as a cursor that other calls    *)
(* interleave with.                                                        *)
(*                                                                         *)
(* fault is set when a pointer is followed that is NULL or leads to a      *)
(* freed node; the program is undefined from there on and stops.           *)
(***************************************************************************)
EXTENDS Walks, SequencesExt, FiniteSets

CONSTANTS
  Lists,   (* the list headers the program can allocate           *)
  Nodes,   (* the list nodes the heap has room for                *)
  Values   (* the caller's pointers                               *)

ASSUME NodesAssumption == IsFiniteSet(Nodes) /\ NULL \notin Nodes \cup Lists

Elem == Values \cup {NULL}
Ref == Nodes \cup {NULL}

VARIABLES
  exists,  (* which headers are allocated                         *)
  head, tail, count,  (* the fields of each header                *)
  alive,   (* the allocated nodes                                 *)
  next, prev, data,   (* the fields of each node                  *)
  iter,    (* the running MYLIB_LIST_FOREACH_SAFE loop            *)
  call,    (* the last call                                       *)
  result,  (* and what it returned                                *)
  fault,   (* a bad pointer was followed                          *)
  merged   (* history: some list was merged into itself           *)

headers == <<exists, head, tail, count>>
heap == <<alive, next, prev, data>>
vars == <<headers, heap, iter, call, result, fault, merged>>

(* Two fields are history.  due is what the loop found on the list and has *)
(* yet to visit; trapped says that the body has freed the node read ahead. *)
NoIter == [list |-> NULL, node |-> NULL, tmp |-> NULL, due |-> <<>>, trapped |-> FALSE]

Init ==
  /\ exists = [l \in Lists |-> FALSE]
  /\ head = [l \in Lists |-> NULL] /\ tail = [l \in Lists |-> NULL]
  /\ count = [l \in Lists |-> 0]
  /\ alive = {}
  /\ next = [n \in Nodes |-> NULL] /\ prev = [n \in Nodes |-> NULL]
  /\ data = [n \in Nodes |-> NULL]
  /\ iter = NoIter /\ call = <<"none">> /\ result = NULL /\ fault = FALSE /\ merged = FALSE

-------------------------------------------------------------------------------
(* Shapes that the actions share. *)

(* The first n + 1 nodes that next leads to from the head; less after a NULL. *)
WalkTo(l, n) == Walk(next, head[l], n)

(* A walk along the whole list; a cycle shows as a walk that is too long. *)
Chain(l) == WalkTo(l, Cardinality(Nodes))

Cyclic(l) == Len(Chain(l)) > Cardinality(Nodes)

(* The node at position i, NULL when the walk falls off the end. *)
NodeAt(l, i) == LET w == WalkTo(l, i) IN IF i < Len(w) THEN w[i + 1] ELSE NULL

(* The list is not being iterated over.  push_at, reverse and merge are    *)
(* modelled on such lists only: under a loop they give it nodes to visit   *)
(* that it did not find, or in another order.                              *)
Idle(l) == ~fault /\ exists[l] /\ iter.list # l

Live(l) == ~fault /\ exists[l]

Answers(c, r) == call' = c /\ result' = r /\ UNCHANGED <<fault, merged>>

Returns(c, r) == Answers(c, r) /\ UNCHANGED iter

Keep == UNCHANGED <<headers, heap>>

Crash == fault' = TRUE /\ UNCHANGED <<headers, heap, iter, call, result, merged>>

Header(l, h, t, c) ==
  /\ head' = [head EXCEPT ![l] = h]
  /\ tail' = [tail EXCEPT ![l] = t]
  /\ count' = [count EXCEPT ![l] = c]
  /\ UNCHANGED exists

(* A freed node's fields are not read again without a fault. *)
Free(S) ==
  /\ alive' = alive \ S
  /\ next' = [n \in Nodes |-> IF n \in S THEN NULL ELSE next[n]]
  /\ prev' = [n \in Nodes |-> IF n \in S THEN NULL ELSE prev[n]]
  /\ data' = [n \in Nodes |-> IF n \in S THEN NULL ELSE data[n]]

(* Mutant: insertion that forgets the back pointer of the node behind. *)
LinkOneWay(l, p, q, v) ==
  \E n \in Nodes \ alive :
    /\ alive' = alive \cup {n}
    /\ next' = [m \in Nodes |-> IF m = n THEN q ELSE IF m = p THEN n ELSE next[m]]
    /\ prev' = [prev EXCEPT ![n] = p]
    /\ data' = [data EXCEPT ![n] = v]
    /\ Header(l, IF p = NULL THEN n ELSE head[l], IF q = NULL THEN n ELSE tail[l],
              count[l] + 1)

(* The stores that put a new node with value v between p and q. *)
Link(l, p, q, v) ==
  \E n \in Nodes \ alive :
    /\ alive' = alive \cup {n}
    /\ next' = [m \in Nodes |-> IF m = n THEN q ELSE IF m = p THEN n ELSE next[m]]
    /\ prev' = [m \in Nodes |-> IF m = n THEN p ELSE IF m = q THEN n ELSE prev[m]]
    /\ data' = [data EXCEPT ![n] = v]
    /\ Header(l, IF p = NULL THEN n ELSE head[l], IF q = NULL THEN n ELSE tail[l],
              count[l] + 1)

(* Allocation failure drops the value without a word. *)
Insert(l, c, p, q, v) ==
  IF {p, q} \subseteq alive \cup {NULL}
  THEN (Link(l, p, q, v) \/ Keep) /\ Returns(c, NULL)
  ELSE Crash

(* Mutant: removal that does not count down. *)
UnlinkUncounted(l, n, p, q) ==
  /\ alive' = alive \ {n}
  /\ next' = [m \in Nodes |-> IF m = n THEN NULL ELSE IF m = p THEN q ELSE next[m]]
  /\ prev' = [m \in Nodes |-> IF m = n THEN NULL ELSE IF m = q THEN p ELSE prev[m]]
  /\ data' = [data EXCEPT ![n] = NULL]
  /\ Header(l, IF p = NULL THEN q ELSE head[l], IF q = NULL THEN p ELSE tail[l], count[l])

(* The stores that take node n from between p and q, then its free. *)
Unlink(l, n, p, q) ==
  /\ alive' = alive \ {n}
  /\ next' = [m \in Nodes |-> IF m = n THEN NULL ELSE IF m = p THEN q ELSE next[m]]
  /\ prev' = [m \in Nodes |-> IF m = n THEN NULL ELSE IF m = q THEN p ELSE prev[m]]
  /\ data' = [data EXCEPT ![n] = NULL]
  /\ Header(l, IF p = NULL THEN q ELSE head[l], IF q = NULL THEN p ELSE tail[l],
            count[l] - 1)

(* A loop on list l knows nothing of the removal of node n.  It holds      *)
(* nothing of it but the node it is at and the node read ahead.            *)
LoopLoses(l, n) ==
  iter' = IF iter.list # l \/ n = iter.node THEN iter
          ELSE [iter EXCEPT !.due = RemoveFirst(@, n), !.trapped = @ \/ n = iter.tmp]

Remove1(l, c, n, p, q, r) ==
  IF n \in alive /\ {p, q} \subseteq alive \cup {NULL}
  THEN Unlink(l, n, p, q) /\ Answers(c, r) /\ LoopLoses(l, n)
  ELSE Crash

NonNull(s) == SelectSeq([k \in DOMAIN s |-> data[s[k]]], LAMBDA v : v # NULL)

-------------------------------------------------------------------------------
(* The operations. *)

Create(l) ==
  /\ ~fault /\ ~exists[l]
  /\ \/ exists' = [exists EXCEPT ![l] = TRUE] /\ Returns(<<"create", l>>, TRUE)
     \/ UNCHANGED exists /\ Returns(<<"create", l>>, FALSE)
  /\ UNCHANGED <<head, tail, count, heap>>

(* Every node is read and freed in turn; released is what free_fn got.  A  *)
(* loop on the list has read ahead, unless it is at the last node.         *)
Clear(l, op, released) ==
  /\ Live(l)
  /\ IF Cyclic(l) \/ ~(ToSet(Chain(l)) \subseteq alive)
     THEN Crash
     ELSE /\ Free(ToSet(Chain(l)))
          /\ head' = [head EXCEPT ![l] = NULL]
          /\ tail' = [tail EXCEPT ![l] = NULL]
          /\ count' = [count EXCEPT ![l] = 0]
          /\ exists' = [exists EXCEPT ![l] = op \in {"clear", "clear_with"}]
          /\ Answers(<<op, l>>, released)
          /\ iter' = [iter EXCEPT !.trapped = @ \/ (iter.list = l /\ iter.tmp # NULL)]

Push(l, v) == Live(l) /\ Insert(l, <<"push", l, v>>, tail[l], NULL, v)

PushFront(l, v) == Live(l) /\ Insert(l, <<"push_front", l, v>>, NULL, head[l], v)

(* The walk to index - 1 and the store into curr->next->prev need nodes. *)
PushAt(l, v, i) ==
  LET curr == NodeAt(l, i - 1) IN
  /\ Idle(l)
  /\ IF i >= count[l]
     THEN Insert(l, <<"push_at", l, v, i>>, tail[l], NULL, v)
     ELSE IF i = 0
     THEN Insert(l, <<"push_at", l, v, i>>, NULL, head[l], v)
     ELSE IF curr = NULL \/ next[curr] = NULL
     THEN Crash
     ELSE Insert(l, <<"push_at", l, v, i>>, curr, next[curr], v)

Pop(l) ==
  LET n == tail[l] IN
  /\ Live(l)
  /\ IF n = NULL
     THEN Keep /\ Returns(<<"pop", l>>, NULL)
     ELSE Remove1(l, <<"pop", l>>, n, prev[n], NULL, data[n])

PopFront(l) ==
  LET n == head[l] IN
  /\ Live(l)
  /\ IF n = NULL
     THEN Keep /\ Returns(<<"pop_front", l>>, NULL)
     ELSE Remove1(l, <<"pop_front", l>>, n, NULL, next[n], data[n])

PopAt(l, i) ==
  LET n == NodeAt(l, i) IN
  /\ Live(l)
  /\ IF i >= count[l]
     THEN Keep /\ Returns(<<"pop_at", l, i>>, NULL)
     ELSE IF n = NULL
     THEN Crash
     ELSE Remove1(l, <<"pop_at", l, i>>, n, prev[n], next[n], data[n])

Get(l, i) ==
  LET n == NodeAt(l, i) IN
  /\ Live(l)
  /\ IF i >= count[l]
     THEN Keep /\ Returns(<<"get", l, i>>, NULL)
     ELSE IF n = NULL THEN Crash ELSE Keep /\ Returns(<<"get", l, i>>, data[n])

(* Mutant: the search runs from the tail. *)
FoundLast(l, v) ==
  LET c == Chain(l)
      hits == {i \in DOMAIN c : data[c[i]] = v}
  IN  IF hits = {} THEN NULL ELSE c[Max(hits)]

(* The first node whose data the comparator calls equal to v, or NULL. *)
Found(l, v) ==
  LET c == Chain(l)
      hits == {i \in DOMAIN c : data[c[i]] = v}
  IN  IF hits = {} THEN NULL ELSE c[Min(hits)]

Find(l, v) == Live(l) /\ Keep /\ Returns(<<"find", l, v>>, Found(l, v))

(* The caller passes a node of the list: one it got from find, or the node *)
(* a loop is at, has left or has yet to come to.                           *)
RemoveNode(l, n) ==
  /\ Live(l) /\ n \in ToSet(Chain(l))
  /\ Remove1(l, <<"remove_node", l, n>>, n, prev[n], next[n], NULL)

RemoveData(l, v) ==
  LET n == Found(l, v) IN
  /\ Live(l)
  /\ IF n = NULL
     THEN Keep /\ Returns(<<"remove_data", l, v>>, FALSE)
     ELSE Remove1(l, <<"remove_data", l, v>>, n, prev[n], next[n], TRUE)

(* next and prev trade places in every node; the last one visited is the   *)
(* new head, found through the prev field of the last but one.             *)
TurnAround(l) ==
  LET c == Chain(l) IN
  /\ Idle(l)
  /\ IF count[l] <= 1
     THEN Keep
     ELSE /\ next' = [n \in Nodes |-> IF n \in ToSet(c) THEN prev[n] ELSE next[n]]
          /\ prev' = [n \in Nodes |-> IF n \in ToSet(c) THEN next[n] ELSE prev[n]]
          /\ tail' = [tail EXCEPT ![l] = head[l]]
          /\ head' = [head EXCEPT ![l] = IF Len(c) > 1 THEN Last(c) ELSE @]
          /\ UNCHANGED <<exists, count, alive, data>>
  /\ Returns(<<"reverse", l>>, NULL)

(* A new list k with the values of l.  Each push allocates and is silent   *)
(* when it cannot: kept are the positions whose push succeeded, at[i] the  *)
(* node that the value at i got.                                           *)
Clone(l, k) ==
  LET c == Chain(l) IN
  /\ Live(l) /\ ~exists[k]
  /\ \/ Keep /\ Returns(<<"clone", l, k>>, FALSE)
     \/ \E kept \in SUBSET DOMAIN c :
        \E at \in Injection(kept, Nodes \ alive) :
          LET new == Range(at)
              pos == AntiFunction(at)
              later(n) == {i \in kept : i > pos[n]}
              earlier(n) == {i \in kept : i < pos[n]}
          IN  /\ alive' = alive \cup new
              /\ next' = [n \in Nodes |-> IF n \notin new THEN next[n]
                            ELSE IF later(n) = {} THEN NULL ELSE at[Min(later(n))]]
              /\ prev' = [n \in Nodes |-> IF n \notin new THEN prev[n]
                            ELSE IF earlier(n) = {} THEN NULL ELSE at[Max(earlier(n))]]
              /\ data' = [n \in Nodes |-> IF n \notin new THEN data[n] ELSE data[c[pos[n]]]]
              /\ exists' = [exists EXCEPT ![k] = TRUE]
              /\ head' = [head EXCEPT ![k] = IF kept = {} THEN NULL ELSE at[Min(kept)]]
              /\ tail' = [tail EXCEPT ![k] = IF kept = {} THEN NULL ELSE at[Max(kept)]]
              /\ count' = [count EXCEPT ![k] = Cardinality(kept)]
              /\ Returns(<<"clone", l, k>>, TRUE)

(* Mutant: merge leaves the source header as it was. *)
MergeShares(d, s) ==
  /\ Idle(d) /\ Idle(s) /\ d # s
  /\ tail[d] # NULL /\ head[s] # NULL
  /\ next' = [next EXCEPT ![tail[d]] = head[s]]
  /\ prev' = [prev EXCEPT ![head[s]] = tail[d]]
  /\ Header(d, head[d], tail[s], count[d] + count[s])
  /\ UNCHANGED <<alive, data>>
  /\ Returns(<<"merge", d, s>>, NULL)

(* The nodes of s change hands.  With d = s the stores close a cycle and   *)
(* the header then forgets it.                                             *)
Merge(d, s) ==
  /\ Idle(d) /\ Idle(s)
  /\ UNCHANGED <<exists, alive, data, iter, fault>>
  /\ call' = <<"merge", d, s>> /\ result' = NULL
  /\ IF count[s] = 0
     THEN UNCHANGED <<head, tail, count, next, prev, merged>>
     ELSE /\ IF tail[d] # NULL
             THEN /\ next' = [next EXCEPT ![tail[d]] = head[s]]
                  /\ prev' = [prev EXCEPT ![head[s]] = tail[d]]
             ELSE UNCHANGED <<next, prev>>
          /\ head' = [head EXCEPT ![d] = IF tail[d] = NULL THEN head[s] ELSE @,
                                  ![s] = NULL]
          /\ tail' = [tail EXCEPT ![d] = tail[s], ![s] = NULL]
          /\ count' = [count EXCEPT ![d] = @ + count[s], ![s] = 0]
          /\ merged' = (merged \/ d = s)

-------------------------------------------------------------------------------
(* MYLIB_LIST_FOREACH_SAFE(list, node, tmp): tmp is read when node is      *)
(* reached, so that the body may remove node.  The body may remove any     *)
(* other node as well; the loop reads tmp and its next field all the same. *)

NextOf(n) == IF n = NULL THEN NULL ELSE next[n]

Rest(s) == IF s = <<>> THEN s ELSE Tail(s)

IterBegin(l) ==
  /\ Idle(l) /\ iter = NoIter
  /\ iter' = [list |-> l, node |-> head[l], tmp |-> NextOf(head[l]),
              due |-> Chain(l), trapped |-> FALSE]
  /\ UNCHANGED <<headers, heap, call, result, fault, merged>>

(* Mutant: FOREACH without SAFE reads the next pointer after the body. *)
IterStepUnsafe ==
  /\ ~fault /\ iter.node # NULL
  /\ IF iter.node \notin alive
     THEN Crash
     ELSE /\ iter' = [iter EXCEPT !.node = next[iter.node],
                                  !.due = Rest(@)]
          /\ UNCHANGED <<headers, heap, call, result, fault, merged>>

(* Mutant: the step advances tmp before node. *)
IterStepSwapped ==
  /\ ~fault /\ iter.node # NULL
  /\ iter' = [iter EXCEPT !.node = NextOf(iter.tmp), !.tmp = NextOf(NextOf(iter.tmp)),
                          !.due = Rest(@)]
  /\ UNCHANGED <<headers, heap, call, result, fault, merged>>

(* node = tmp, tmp = tmp ? tmp->next : NULL *)
IterStep ==
  /\ ~fault /\ iter.node # NULL
  /\ IF iter.tmp \notin alive \cup {NULL}
     THEN Crash
     ELSE /\ iter' = [iter EXCEPT !.node = iter.tmp, !.tmp = NextOf(iter.tmp),
                                  !.due = Rest(@)]
          /\ UNCHANGED <<headers, heap, call, result, fault, merged>>

IterEnd ==
  /\ ~fault /\ iter.list # NULL /\ iter.node = NULL
  /\ iter' = NoIter
  /\ UNCHANGED <<headers, heap, call, result, fault, merged>>

Next ==
  \/ IterStep \/ IterEnd
  \/ \E l \in Lists :
       \/ Create(l) \/ Pop(l) \/ PopFront(l) \/ TurnAround(l) \/ IterBegin(l)
       \/ \E op \in {"clear", "destroy"} : Clear(l, op, NULL)
       \/ \E op \in {"clear_with", "destroy_with"} : Clear(l, op, NonNull(Chain(l)))
       \/ \E v \in Elem : Push(l, v) \/ PushFront(l, v) \/ Find(l, v) \/ RemoveData(l, v)
       \/ \E i \in 0..Cardinality(Nodes) :
            PopAt(l, i) \/ Get(l, i) \/ \E v \in Elem : PushAt(l, v, i)
       \/ \E n \in Nodes : RemoveNode(l, n)
       \/ \E k \in Lists : Clone(l, k) \/ Merge(l, k)

Spec == Init /\ [][Next]_vars

-------------------------------------------------------------------------------
(* Properties. *)

(* Every variable has its type. *)
TypeOK ==
  /\ exists \in [Lists -> BOOLEAN]
  /\ head \in [Lists -> Ref] /\ tail \in [Lists -> Ref]
  /\ count \in [Lists -> 0..Cardinality(Nodes)]
  /\ alive \subseteq Nodes
  /\ next \in [Nodes -> Ref] /\ prev \in [Nodes -> Ref]
  /\ data \in [Nodes -> Elem]
  /\ fault \in BOOLEAN /\ merged \in BOOLEAN

(* In both directions every list is the same chain of allocated nodes: no  *)
(* cycle, prev undoes next, the chain ends at tail and has count nodes.    *)
WellLinked ==
  \A l \in Lists :
    LET c == Chain(l) IN
    /\ ~Cyclic(l) /\ ToSet(c) \subseteq alive
    /\ count[l] = Len(c)
    /\ tail[l] = IF c = <<>> THEN NULL ELSE Last(c)
    /\ \A i \in DOMAIN c : prev[c[i]] = IF i = 1 THEN NULL ELSE c[i - 1]

(* No node is lost and none is on two lists, however nodes move between    *)
(* lists, unless a list was merged into itself.                            *)
NodesAccounted ==
  /\ \A l, k \in Lists : l # k => ToSet(Chain(l)) \cap ToSet(Chain(k)) = {}
  /\ ~merged => alive = UNION {ToSet(Chain(l)) : l \in Lists}

(* list.c and the safe loop never follow NULL or a freed node, whatever    *)
(* the loop body removes, inserts or clears, on its own list or another:   *)
(* except that a body which frees the node read ahead is a trap, the       *)
(* step that follows it and the reuse of its memory included.              *)
MemorySafe == fault => iter.trapped

(* A safe loop visits every node that was on the list when it began and    *)
(* that its body does not remove before the loop is there, in order and    *)
(* once, unless the body frees the node read ahead.                        *)
LoopVisitsAll == iter.due # <<>> /\ ~iter.trapped => iter.node = Head(iter.due)

(* Seen through their chains the lists are the sequences of DequeSpec, and *)
(* every call returns what that promises, failed allocations included.     *)
Cells(l) ==
  LET c == Chain(l) IN [i \in DOMAIN c |-> [id |-> c[i], val |-> data[c[i]]]]

Deque == INSTANCE DequeSpec WITH cells <- [l \in Lists |-> Cells(l)]

RefinesDeque == Deque!Spec
===============================================================================
