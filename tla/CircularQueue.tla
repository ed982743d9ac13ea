----------------------------- MODULE CircularQueue -----------------------------
(***************************************************************************)
(* The circular queues of src/src/circular_queue.c: a queue of LinkedList  *)
(* whose ends are tied together after every call, so that the calls of     *)
(* list.c run on a list without a NULL at its ends.  Queues and ordinary   *)
(* lists share one heap.                                                   *)
(***************************************************************************)
EXTENDS LinkedList

CONSTANT Maxima  (* bound: the capacities that queues are created with *)

(* A queue for a negative number of values would never be full. *)
ASSUME MaximaAssumption == Maxima \subseteq Nat

VARIABLE max     (* the capacity of each queue *)

qvars == <<vars, max>>

QInit == Init /\ max = [q \in Rings |-> 0]

(* The nodes of a queue, once around. *)
Circle(q) == SubSeq(Chain(q), 1, count[q])

InUse(q) == ~fault /\ exists[q]

(* New_Circular_Queue: two allocations. *)
NewQueue(q, m) ==
  /\ ~fault /\ ~exists[q]
  /\ \/ /\ exists' = [exists EXCEPT ![q] = TRUE]
        /\ max' = [max EXCEPT ![q] = m]
        /\ Returns("new_queue", TRUE)
     \/ UNCHANGED <<exists, max>> /\ Returns("new_queue", FALSE)
  /\ UNCHANGED <<head, tail, count, heap, notes>>

(* Mutant: only next is tied back after an enqueue. *)
TieNextOnly(q, n) ==
  /\ next' = [m \in Nodes |-> IF m = n THEN IF head[q] = NULL THEN n ELSE head[q]
                              ELSE IF m = tail[q] THEN n ELSE next[m]]
  /\ prev' = [m \in Nodes |-> IF m = n THEN IF head[q] = NULL THEN n ELSE tail[q]
                              ELSE prev[m]]

(* LinkedList_push of node n, then head and tail are tied together. *)
Tie(q, n) ==
  LET first == IF head[q] = NULL THEN n ELSE head[q]
      last  == IF head[q] = NULL THEN n ELSE tail[q]
  IN  /\ next' = [m \in Nodes |-> IF m = n THEN first
                                  ELSE IF m = last THEN n ELSE next[m]]
      /\ prev' = [m \in Nodes |-> IF m = n THEN last
                                  ELSE IF m = first THEN n ELSE prev[m]]

(* A push that gets no memory is not noticed: the ends are tied as before, *)
(* through a NULL head in an empty queue, and 0 is returned.               *)
Enqueue(q, v) ==
  /\ InUse(q) /\ UNCHANGED max
  /\ IF count[q] = max[q]
     THEN Keep /\ Returns("enqueue", -1)
     ELSE \/ \E n \in Nodes \ alive :
               /\ alive' = alive \cup {n}
               /\ data' = [data EXCEPT ![n] = v]
               /\ Tie(q, n)
               /\ head' = [head EXCEPT ![q] = IF @ = NULL THEN n ELSE @]
               /\ tail' = [tail EXCEPT ![q] = n]
               /\ count' = [count EXCEPT ![q] = @ + 1]
               /\ UNCHANGED <<exists, notes>>
               /\ Returns("enqueue", 0)
          \/ IF head[q] = NULL THEN Crash("enqueue", 0) ELSE Keep /\ Returns("enqueue", 0)

(* Mutant: dequeue by LinkedList_pop instead of LinkedList_shift. *)
DequeuePops(q) ==
  LET n == tail[q] IN
  /\ InUse(q) /\ UNCHANGED max
  /\ n # head[q]
  /\ next' = [next EXCEPT ![n] = NULL, ![prev[n]] = head[q]]
  /\ prev' = [prev EXCEPT ![n] = NULL, ![head[q]] = prev[n]]
  /\ data' = [data EXCEPT ![n] = NULL]
  /\ alive' = alive \ {n}
  /\ tail' = [tail EXCEPT ![q] = prev[n]]
  /\ count' = [count EXCEPT ![q] = @ - 1]
  /\ UNCHANGED <<exists, head, notes>>
  /\ Returns("dequeue", data[n])

(* LinkedList_shift, then the ends are tied: through NULL if none is left. *)
Dequeue(q) ==
  LET n == head[q] IN
  /\ InUse(q) /\ UNCHANGED max
  /\ IF n = tail[q]
     THEN Crash("dequeue", IF n = NULL THEN NULL ELSE data[n])
     ELSE /\ next' = [m \in Nodes |-> IF m = n THEN NULL
                                      ELSE IF m = tail[q] THEN next[n] ELSE next[m]]
          /\ prev' = [m \in Nodes |-> IF m = n THEN NULL
                                      ELSE IF m = next[n] THEN tail[q] ELSE prev[m]]
          /\ data' = [data EXCEPT ![n] = NULL]
          /\ alive' = alive \ {n}
          /\ head' = [head EXCEPT ![q] = next[n]]
          /\ count' = [count EXCEPT ![q] = @ - 1]
          /\ UNCHANGED <<exists, tail, notes>>
          /\ Returns("dequeue", data[n])

(* Each node frees the one before it until the tail is reached; a node     *)
(* alone frees itself and is then used.  An empty queue is not freed.      *)
DestroyQueue(q) ==
  LET gone == ToSet(Circle(q)) IN
  /\ InUse(q)
  /\ IF head[q] = NULL
     THEN Keep /\ UNCHANGED max /\ Returns("destroy_queue", NULL)
     ELSE IF head[q] = tail[q]
     THEN Crash("destroy_queue", NULL) /\ UNCHANGED max
     ELSE /\ alive' = alive \ gone
          /\ next' = [n \in Nodes |-> IF n \in gone THEN NULL ELSE next[n]]
          /\ prev' = [n \in Nodes |-> IF n \in gone THEN NULL ELSE prev[n]]
          /\ data' = [n \in Nodes |-> IF n \in gone THEN NULL ELSE data[n]]
          /\ exists' = [exists EXCEPT ![q] = FALSE]
          /\ head' = [head EXCEPT ![q] = NULL]
          /\ tail' = [tail EXCEPT ![q] = NULL]
          /\ count' = [count EXCEPT ![q] = 0]
          /\ max' = [max EXCEPT ![q] = 0]
          /\ UNCHANGED notes
          /\ Returns("destroy_queue", NULL)

(* The values are freed once around the circle. *)
ClearQueue(q) ==
  /\ InUse(q) /\ UNCHANGED max
  /\ data' = [n \in Nodes |-> IF n \in ToSet(Circle(q)) THEN NULL ELSE data[n]]
  /\ UNCHANGED <<headers, alive, next, prev, notes>>
  /\ Returns("clear_queue", NULL)

QueueCall(q) ==
  \/ Dequeue(q) \/ DestroyQueue(q) \/ ClearQueue(q)
  \/ \E m \in Maxima : NewQueue(q, m)
  \/ \E v \in Elem : Enqueue(q, v)

QNext == (Next /\ UNCHANGED max) \/ \E q \in Rings : QueueCall(q)

QSpec == QInit /\ [][QNext]_qvars

-------------------------------------------------------------------------------
(* Properties. *)

(* A queue of k nodes is a circle of k allocated nodes in both directions, *)
(* tail is behind head, and there are no more than max of them.            *)
Closed(q) ==
  LET c == Circle(q)
      k == Len(c)
  IN  /\ k = count[q] /\ k <= max[q]
      /\ ToSet(c) \subseteq alive /\ Cardinality(ToSet(c)) = k
      /\ \A i \in 1..k : /\ next[c[i]] = c[(i % k) + 1]
                         /\ prev[c[(i % k) + 1]] = c[i]
      /\ IF k = 0 THEN head[q] = NULL /\ tail[q] = NULL
                  ELSE head[q] = c[1] /\ tail[q] = c[k]

(* Queues stay closed circles, and every allocated node is on one list or  *)
(* queue and on no other, unless addALL has lengthened a list at its end.  *)
RingClosed ==
  LET on == [l \in Lists \ lent |->
               IF l \in Rings THEN ToSet(Circle(l)) ELSE ToSet(Chain(l))]
  IN  /\ \A q \in Rings : Closed(q)
      /\ \A l, k \in Lists \ lent : l # k => on[l] \cap on[k] = {}
      /\ stale = {} => alive = UNION Range(on)

(* Queues are first in, first out: a call that changes the nodes of a      *)
(* queue appends one, or takes the first and returns its value, or empties *)
(* it, and no call on a list or on another queue changes them.             *)
FirstInFirstOut ==
  [][\A q \in Rings :
       LET old == Circle(q)
           new == Circle(q)'
       IN  \/ new = old
           \/ call' = "enqueue" /\ result' = 0 /\ new # <<>> /\ Front(new) = old
           \/ call' = "dequeue" /\ new = Tail(old) /\ result' = data[Head(old)]
           \/ call' = "destroy_queue" /\ new = <<>>]_<<head, next, count>>

(* tests/test_circular_queue.c:32: a dequeue returns the value that is     *)
(* first in the queue, also when it is the only one.                       *)
DequeueReturns == ~(fault /\ call = "dequeue" /\ result # NULL)
===============================================================================
