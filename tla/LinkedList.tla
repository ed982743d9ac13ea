------------------------------- MODULE LinkedList -------------------------------
(***************************************************************************)
(* The older lists of src/src/list.c, and through the macros of stack.h,   *)
(* queue.h and deque.h the stacks, queues and deques of the library, with  *)
(* the merge sort of list_alogs.c.                                         *)
(*                                                                         *)
(* fault is set when NULL or a freed node is followed, or a node is freed  *)
(* twice; the program is undefined from there on and stops.  call then     *)
(* tells which call it was.                                                *)
(***************************************************************************)
EXTENDS Walks, SequencesExt, FiniteSets, Functions

CONSTANTS
  Lists,     (* the headers the program can allocate                       *)
  Rings,     (* those of them that circular queues own                     *)
  Nodes,     (* the nodes the heap has room for                            *)
  Values,    (* the caller's pointers                                      *)
  Rank(_)    (* what the comparator compares of a pointer                  *)

ASSUME RingsAssumption == Rings \subseteq Lists
ASSUME NodesAssumption == IsFiniteSet(Nodes) /\ NULL \notin Nodes \cup Lists

(* The lists that the program works on with the calls of list.c. *)
Plain == Lists \ Rings

Elem == Values \cup {NULL}

Algorithm == INSTANCE ListSort

VARIABLES
  exists,             (* which headers are allocated                       *)
  head, tail, count,  (* the fields of each header                         *)
  alive,              (* the allocated nodes                               *)
  next, prev, data,   (* the fields of each node                           *)
  iter,               (* a LinkedList_Iterator                             *)
  call, result,       (* the last call and what it returned                *)
  fault,              (* a bad pointer was followed                        *)
  lent,               (* history: lists whose nodes addALL gave away       *)
  stale               (* history: lists that addALL lengthened at the end  *)

headers == <<exists, head, tail, count>>
heap == <<alive, next, prev, data>>
notes == <<lent, stale>>
vars == <<headers, heap, iter, call, result, fault, notes>>

(* due is history: the nodes the iterator has yet to give out. *)
NoIter == [list |-> NULL, position |-> NULL, due |-> <<>>]

Init ==
  /\ exists = [l \in Lists |-> FALSE]
  /\ head = [l \in Lists |-> NULL] /\ tail = [l \in Lists |-> NULL]
  /\ count = [l \in Lists |-> 0]
  /\ alive = {}
  /\ next = [n \in Nodes |-> NULL] /\ prev = [n \in Nodes |-> NULL]
  /\ data = [n \in Nodes |-> NULL]
  /\ iter = NoIter /\ call = "none" /\ result = NULL /\ fault = FALSE
  /\ lent = {} /\ stale = {}

-------------------------------------------------------------------------------
(* Shapes that the actions share. *)

(* The nodes of a list from its head on; too long a walk is a cycle. *)
Chain(l) == Walk(next, head[l], Cardinality(Nodes))

Cyclic(l) == Len(Chain(l)) > Cardinality(Nodes)

ValuesOf(l) == LET c == Chain(l) IN [i \in DOMAIN c |-> data[c[i]]]

(* LinkedList_getNodeFromIndex *)
NodeAt(l, i) ==
  LET c == Chain(l)
  IN  IF 0 <= i /\ i <= count[l] /\ i < Len(c) THEN c[i + 1] ELSE NULL

(* A list whose nodes another list took over may only be freed. *)
Live(l) == ~fault /\ exists[l] /\ l \notin lent

(* Calls that free nodes or hand them to another list are not made on the  *)
(* list that an iterator is under way on, RemoveNode of a node behind it   *)
(* excepted: the iterator keeps a pointer to a node, and nothing in list.h *)
(* tells it that the node is gone.                                         *)
Idle(l) == Live(l) /\ iter.list # l

Returns(op, r) == call' = op /\ result' = r /\ UNCHANGED <<iter, fault>>

Keep == UNCHANGED <<headers, heap, notes>>

(* The call follows a bad pointer, or leaves one that every other call     *)
(* would follow; owed is what it had to return.                            *)
Crash(op, owed) ==
  /\ fault' = TRUE /\ call' = op /\ result' = owed
  /\ UNCHANGED <<headers, heap, iter, notes>>

(* A node with value v comes between p and q; at an end the header learns. *)
Link(l, p, q, v) ==
  \E n \in Nodes \ alive :
    /\ alive' = alive \cup {n}
    /\ next' = [m \in Nodes |-> IF m = n THEN q ELSE IF m = p THEN n ELSE next[m]]
    /\ prev' = [m \in Nodes |-> IF m = n THEN p ELSE IF m = q THEN n ELSE prev[m]]
    /\ data' = [data EXCEPT ![n] = v]
    /\ head' = [head EXCEPT ![l] = IF p = NULL THEN n ELSE @]
    /\ tail' = [tail EXCEPT ![l] = IF q = NULL THEN n ELSE @]
    /\ count' = [count EXCEPT ![l] = @ + 1]
    /\ UNCHANGED <<exists, notes>>

(* The stores of LinkedList_remove.  Its two "Invalid list" checks never   *)
(* fail, since the tail of a list is on its chain.                         *)
Unlink(l, n) ==
  LET first == head[l] = n
      last  == tail[l] = n
  IN  /\ head' = [head EXCEPT ![l] = IF ~first THEN @ ELSE IF last THEN NULL ELSE next[n]]
      /\ tail' = [tail EXCEPT ![l] = IF ~last THEN @ ELSE IF first THEN NULL ELSE prev[n]]
      /\ next' = [m \in Nodes |-> IF m = n THEN NULL
                                  ELSE IF m = prev[n] /\ ~first
                                  THEN IF last THEN NULL ELSE next[n]
                                  ELSE next[m]]
      /\ prev' = [m \in Nodes |-> IF m = n THEN NULL
                                  ELSE IF m = next[n] /\ ~last
                                  THEN IF first THEN NULL ELSE prev[n]
                                  ELSE prev[m]]
      /\ data' = [data EXCEPT ![n] = NULL]
      /\ alive' = alive \ {n}
      /\ count' = [count EXCEPT ![l] = @ - 1]
      /\ UNCHANGED <<exists, notes>>

(* Mutant: the value is read after the node was freed. *)
RemoveReadsLate(l, op, n) ==
  IF n = NULL
  THEN Keep /\ Returns(op, NULL)
  ELSE Unlink(l, n) /\ Returns(op, NULL)

(* The neighbours that LinkedList_remove stores to must be nodes. *)
RemoveCall(l, op, n) ==
  IF n = NULL
  THEN Keep /\ Returns(op, NULL)
  ELSE IF \/ n \notin alive
          \/ head[l] # n /\ prev[n] \notin alive
          \/ tail[l] # n /\ next[n] \notin alive
       THEN Crash(op, data[n])
       ELSE Unlink(l, n) /\ Returns(op, data[n])

(* Header k becomes a new list; of the values s those at the places from   *)
(* are pushed in turn, and a push that gets no memory drops its value.     *)
Build(k, s, from) ==
  \E size \in 0..Cardinality(from) :
  \E src \in [1..size -> from], at \in Injection(1..size, Nodes \ alive) :
    LET pos == AntiFunction(at)
        new == Range(at)
    IN  /\ \A i \in 2..size : src[i - 1] < src[i]
        /\ alive' = alive \cup new
        /\ next' = [n \in Nodes |-> IF n \notin new THEN next[n]
                                    ELSE IF pos[n] < size THEN at[pos[n] + 1] ELSE NULL]
        /\ prev' = [n \in Nodes |-> IF n \notin new THEN prev[n]
                                    ELSE IF pos[n] > 1 THEN at[pos[n] - 1] ELSE NULL]
        /\ data' = [n \in Nodes |-> IF n \in new THEN s[src[pos[n]]] ELSE data[n]]
        /\ exists' = [exists EXCEPT ![k] = TRUE]
        /\ head' = [head EXCEPT ![k] = IF size = 0 THEN NULL ELSE at[1]]
        /\ tail' = [tail EXCEPT ![k] = IF size = 0 THEN NULL ELSE at[size]]
        /\ count' = [count EXCEPT ![k] = size]
        /\ UNCHANGED notes

-------------------------------------------------------------------------------
(* The operations. *)

(* New_LinkedList *)
New(l) ==
  /\ ~fault /\ ~exists[l]
  /\ \/ exists' = [exists EXCEPT ![l] = TRUE] /\ Returns("new", TRUE)
     \/ UNCHANGED exists /\ Returns("new", FALSE)
  /\ UNCHANGED <<head, tail, count, heap, notes>>

(* Every node frees the one before it; the tail is freed in the end, again *)
(* when it was not the last.                                               *)
Destroy(l) ==
  LET c == Chain(l) IN
  /\ Idle(l)
  /\ IF c # <<>> /\ tail[l] # Last(c)
     THEN Crash("destroy", NULL)
     ELSE /\ alive' = alive \ ToSet(c)
          /\ next' = [n \in Nodes |-> IF n \in ToSet(c) THEN NULL ELSE next[n]]
          /\ prev' = [n \in Nodes |-> IF n \in ToSet(c) THEN NULL ELSE prev[n]]
          /\ data' = [n \in Nodes |-> IF n \in ToSet(c) THEN NULL ELSE data[n]]
          /\ exists' = [exists EXCEPT ![l] = FALSE]
          /\ head' = [head EXCEPT ![l] = NULL]
          /\ tail' = [tail EXCEPT ![l] = NULL]
          /\ count' = [count EXCEPT ![l] = 0]
          /\ UNCHANGED notes
          /\ Returns("destroy", NULL)

(* Mutant: clear takes the nodes to be gone. *)
ClearUncounts(l) ==
  /\ Live(l)
  /\ data' = [n \in Nodes |-> IF n \in ToSet(Chain(l)) THEN NULL ELSE data[n]]
  /\ count' = [count EXCEPT ![l] = 0]
  /\ UNCHANGED <<exists, head, tail, alive, next, prev, notes>>
  /\ Returns("clear", NULL)

(* The values are freed; the nodes stay, without a value. *)
Clear(l) ==
  /\ Live(l)
  /\ data' = [n \in Nodes |-> IF n \in ToSet(Chain(l)) THEN NULL ELSE data[n]]
  /\ UNCHANGED <<headers, alive, next, prev, notes>>
  /\ Returns("clear", NULL)

Push(l, v) ==
  Live(l) /\ (Link(l, tail[l], NULL, v) \/ Keep) /\ Returns("push", NULL)

AddFirst(l, v) ==
  Live(l) /\ (Link(l, NULL, head[l], v) \/ Keep) /\ Returns("addFirst", NULL)

Pop(l) == Idle(l) /\ RemoveCall(l, "pop", tail[l])

Shift(l) == Idle(l) /\ RemoveCall(l, "shift", head[l])

(* The caller has n from find_node or list_foreach.  While an iterator is  *)
(* under way, n is not a node that it stands on or is going to reach.      *)
RemoveNode(l, n) ==
  /\ Live(l) /\ n \in ToSet(Chain(l))
  /\ iter.list = l => n \notin ToSet(Walk(next, iter.position, Cardinality(Nodes)))
  /\ RemoveCall(l, "remove", n)

RemoveIndex(l, i) == Idle(l) /\ RemoveCall(l, "remove_index", NodeAt(l, i))

(* node->value and index_node->prev->next are stored to unchecked. *)
AddWithIndex(l, i, v) ==
  LET n == NodeAt(l, i) IN
  /\ Live(l)
  /\ \/ n = NULL /\ Keep /\ Returns("addWithIndex", NULL)
     \/ n # NULL /\ prev[n] # NULL /\ Link(l, prev[n], n, v) /\ Returns("addWithIndex", NULL)
     \/ n # NULL /\ Crash("addWithIndex", IF prev[n] = NULL THEN "first" ELSE "memory")

(* Mutant: the splice forgets the node behind the inserted chain. *)
SpliceOneWay(l, n, a) ==
  /\ next' = [next EXCEPT ![n] = head[a], ![tail[a]] = next[n]]
  /\ prev' = [prev EXCEPT ![head[a]] = n]
  /\ UNCHANGED stale

(* The chain of a comes behind node n; the tail is left as it is.  In the  *)
(* middle only the nodes of a up to its tail come in, though all count.    *)
Splice(l, n, a) ==
  IF next[n] = NULL
  THEN /\ next' = [next EXCEPT ![n] = head[a]]
       /\ prev' = [prev EXCEPT ![head[a]] = n]
       /\ stale' = stale \cup {l}
  ELSE /\ next' = [next EXCEPT ![n] = head[a], ![tail[a]] = next[n]]
       /\ prev' = [prev EXCEPT ![head[a]] = n, ![next[n]] = tail[a]]
       /\ stale' = IF a \in stale THEN stale \cup {l} ELSE stale

(* addALL is the call with i = count - 1.  The header of a keeps pointing  *)
(* to the nodes.  A list that is added to itself leads from n back to its  *)
(* head, and every walk along it runs forever: the model ends there.       *)
AddAllWithIndex(l, i, a) ==
  LET n == NodeAt(l, i) IN
  /\ Idle(l) /\ Idle(a)
  /\ IF head[a] = NULL \/ n = NULL
     THEN Keep /\ Returns("addALL", NULL)
     ELSE IF a = l
     THEN Crash("addALL", NULL)
     ELSE /\ Returns("addALL", NULL)
          /\ Splice(l, n, a)
          /\ count' = [count EXCEPT ![l] = @ + count[a]]
          /\ lent' = lent \cup {a}
          /\ UNCHANGED <<exists, head, tail, alive, data>>

(* The caller frees the header alone, as the tests do after addALL. *)
FreeHeader(l) ==
  /\ ~fault /\ l \in lent
  /\ exists' = [exists EXCEPT ![l] = FALSE]
  /\ head' = [head EXCEPT ![l] = NULL]
  /\ tail' = [tail EXCEPT ![l] = NULL]
  /\ count' = [count EXCEPT ![l] = 0]
  /\ lent' = lent \ {l}
  /\ UNCHANGED <<heap, stale>>
  /\ Returns("free", NULL)

Get(l, i) ==
  LET n == NodeAt(l, i) IN
  Live(l) /\ Keep /\ Returns("get", IF n = NULL THEN NULL ELSE data[n])

(* The comparator answers 0 for equal, and NULL is equal to nothing. *)
Equal(u, v) == u # NULL /\ v # NULL /\ Rank(u) = Rank(v)

FindNode(l, v) ==
  LET i == SelectInSeq(Chain(l), LAMBDA n : Equal(data[n], v))
  IN  IF i = 0 THEN NULL ELSE Chain(l)[i]

FindValue(l, v) ==
  LET n == FindNode(l, v) IN
  Live(l) /\ Keep /\ Returns("find_value", IF n = NULL THEN NULL ELSE data[n])

RemoveData(l, v) == Idle(l) /\ RemoveCall(l, "remove_data", FindNode(l, v))

(* Here a comparator other than 0 counts as found. *)
ItemExists(l, v) ==
  /\ Live(l) /\ Keep
  /\ Returns("item_exists",
       IF head[l] = NULL THEN -1
       ELSE IF \E w \in ToSet(ValuesOf(l)) : ~Equal(v, w) THEN 1 ELSE 0)

(* The copy shares the values, and NULL values are left out. *)
DeepCopy(l, k) ==
  LET s    == ValuesOf(l)
      from == {i \in DOMAIN s : s[i] # NULL}
  IN  /\ Live(l) /\ ~exists[k]
      /\ \/ Build(k, s, from) /\ Returns("deep_copy", k)
         \/ from = {} /\ Keep /\ Returns("deep_copy", NULL)
         \/ from # {} /\ Crash("deep_copy", NULL)

(* A list of at most one value is returned as it is; else k is new. *)
MergeSort(l, k) ==
  LET s == Algorithm!MergeSorted(ValuesOf(l), count[l] \div 2) IN
  /\ Live(l)
  /\ IF count[l] <= 1
     THEN k = l /\ Keep /\ Returns("merge_sort", l)
     ELSE /\ ~exists[k]
          /\ \/ Build(k, s, DOMAIN s) /\ Returns("merge_sort", k)
             \/ Crash("merge_sort", NULL)

-------------------------------------------------------------------------------
(* LinkedList_Iterator: position is the node whose value comes next. *)

(* What is due once n was given out. *)
Rest(s, n) == IF s # <<>> /\ Head(s) = n THEN Tail(s) ELSE s

(* LinkedList_InitializeIterator, LinkedList_ResetIterator *)
InitializeIterator(l) ==
  /\ Live(l) /\ iter.list \in {l, NULL}
  /\ iter' = [list |-> l, position |-> head[l], due |-> Chain(l)]
  /\ UNCHANGED <<headers, heap, call, result, fault, notes>>

(* Mutant: the position moves on before the value is read. *)
IterateAhead ==
  LET n == iter.position IN
  /\ ~fault /\ iter # NoIter
  /\ call' = "iterate"
  /\ IF n = NULL \/ count[iter.list] = 0
     THEN result' = NULL /\ UNCHANGED iter
     ELSE /\ result' = data[n]
          /\ iter' = [iter EXCEPT !.position = IF next[n] = NULL THEN NULL ELSE next[next[n]],
                                  !.due = Rest(@, n)]
  /\ UNCHANGED <<headers, heap, fault, notes>>

Iterate ==
  LET n == iter.position IN
  /\ ~fault /\ iter # NoIter
  /\ IF n # NULL /\ n \notin alive
     THEN Crash("iterate", NULL)
     ELSE /\ call' = "iterate"
          /\ IF n = NULL \/ count[iter.list] = 0
             THEN result' = NULL /\ UNCHANGED iter
             ELSE /\ result' = data[n]
                  /\ iter' = [iter EXCEPT !.position = next[n], !.due = Rest(@, n)]
          /\ UNCHANGED <<headers, heap, fault, notes>>

(* The caller needs the iterator no more. *)
Abandon ==
  /\ ~fault /\ iter # NoIter
  /\ iter' = NoIter
  /\ UNCHANGED <<headers, heap, call, result, fault, notes>>

ListCall(l) ==
  \/ New(l) \/ Destroy(l) \/ Clear(l) \/ Pop(l) \/ Shift(l)
  \/ FreeHeader(l) \/ InitializeIterator(l)
  \/ \E v \in Elem :
       \/ Push(l, v) \/ AddFirst(l, v)
       \/ FindValue(l, v) \/ RemoveData(l, v) \/ ItemExists(l, v)
  \/ \E n \in Nodes : RemoveNode(l, n)
  \/ \E i \in 0..Cardinality(Nodes) :
       \/ Get(l, i) \/ RemoveIndex(l, i)
       \/ \E v \in Elem : AddWithIndex(l, i, v)
       \/ \E a \in Plain : AddAllWithIndex(l, i - 1, a)
  \/ \E k \in Plain : DeepCopy(l, k) \/ MergeSort(l, k)

Next == (\E l \in Plain : ListCall(l)) \/ Iterate \/ Abandon

Spec == Init /\ [][Next]_vars

-------------------------------------------------------------------------------
(* Properties. *)

(* Every variable has its type. *)
TypeOK ==
  /\ exists \in [Lists -> BOOLEAN]
  /\ head \in [Lists -> Nodes \cup {NULL}] /\ tail \in [Lists -> Nodes \cup {NULL}]
  /\ count \in [Lists -> Nat]
  /\ alive \subseteq Nodes
  /\ next \in [Nodes -> Nodes \cup {NULL}] /\ prev \in [Nodes -> Nodes \cup {NULL}]
  /\ data \in [Nodes -> Elem]
  /\ fault \in BOOLEAN /\ lent \subseteq Plain /\ stale \subseteq Plain

(* The chain of a list that is in use is one of allocated nodes on which   *)
(* prev undoes next; it ends at tail and has count nodes, unless addALL    *)
(* has lengthened the list at its end or put such a list into it.          *)
WellLinked ==
  \A l \in Plain \ lent :
    LET c == Chain(l) IN
    /\ ~Cyclic(l) /\ ToSet(c) \subseteq alive
    /\ \A i \in DOMAIN c : prev[c[i]] = IF i = 1 THEN NULL ELSE c[i - 1]
    /\ l \notin stale =>
         count[l] = Len(c) /\ tail[l] = IF c = <<>> THEN NULL ELSE Last(c)

(* No call of list.c follows a bad pointer or frees a node twice, but for  *)
(* the stores through unchecked pointers and the calls on a list that      *)
(* addALL has left with the wrong tail.                                    *)
OnlyKnownFaults ==
  [][fault' /\ call' \in {"destroy", "pop", "shift", "remove", "remove_index",
                          "remove_data", "iterate"}
       => stale # {}]_vars

(* A list call keeps the order of the nodes that stay and changes no value *)
(* but by clear; a node that leaves is the one whose value is returned.    *)
OrderKept ==
  [][\A l \in Plain :
       exists[l] /\ exists'[l] /\ l \notin lent \cup stale' /\ ~fault' =>
         LET old == Chain(l)
             new == Chain(l)'
         IN  /\ SelectSeq(old, LAMBDA n : n \in ToSet(new))
                  = SelectSeq(new, LAMBDA n : n \in ToSet(old))
             /\ \A n \in ToSet(old) \ ToSet(new) : result' = data[n]]_<<head, next>>

(* An iterator gives out every node that was on the list when it was       *)
(* initialized, in order and once, also when nodes come in or nodes it     *)
(* gave out are removed meanwhile.                                         *)
IterateVisitsAll ==
  iter.list \notin stale =>
    LET ahead == Walk(next, iter.position, Cardinality(Nodes)) IN
    \E at \in [DOMAIN iter.due -> DOMAIN ahead] :
      /\ \A i, j \in DOMAIN at : i < j => at[i] < at[j]
      /\ \A i \in DOMAIN at : ahead[at[i]] = iter.due[i]
===============================================================================
