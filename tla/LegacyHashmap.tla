----------------------------- MODULE LegacyHashmap -----------------------------
(***************************************************************************)
(* The hash map of src/src/hashmap.c and the dynamic array of              *)
(* src/src/darray.c as far as the map uses it.                             *)
(*                                                                         *)
(* An array d is [end, max, slots]: DOMAIN slots are the slots that        *)
(* contents has memory for, and max is what the array takes for that.  A   *)
(* map h is the array of the buckets, each NULL or an array of nodes       *)
(* <<key, data>>.  The hash of a key is the key, so that it is up to the   *)
(* keys which of them share a bucket.                                      *)
(***************************************************************************)
EXTENDS Integers, Sequences, FiniteSetsExt, SearchBase

CONSTANTS
  Rate,    (* DEFAULT_EXPAND_RATE, at least 1                             *)
  Junk,    (* what memory holds that nobody has cleared                   *)
  Buckets  (* DEFAULT_NUMBER_OF_BUCKETS, of the map and in a bucket; at   *)
           (* most Rate, so that a traversal reads no slot that calloc    *)
           (* did not clear                                               *)

(* Darray_create; calloc clears the slots. *)
New(max) == [end |-> 0, max |-> max, slots |-> [i \in 0..max - 1 |-> NULL]]

(* Darray_set and Darray_get, for the indices below max that callers use;  *)
(* an index above end becomes the new end, so end does not count it.       *)
Set(d, i, v) == [d EXCEPT !.end = Max({@, i}), !.slots[i] = v]

SlotAt(d, i) == IF i < d.max THEN d.slots[i] ELSE NULL

(* Darray_resize with the memory it asks for, and without: max has moved   *)
(* before realloc is asked.  The memset of Darray_expand clears            *)
(* expand_rate + 1 bytes, which are not that many slots: none is counted   *)
(* on to be clear.                                                         *)
Resized(d, max) ==
  [d EXCEPT !.max = max,
            !.slots = [i \in 0..max - 1 |-> IF i \in DOMAIN @ THEN @[i] ELSE Junk]]

Unresized(d, max) == [d EXCEPT !.max = max]

(* Darray_push stores first and then looks for room for the next value.    *)
Appended(d, v) == [d EXCEPT !.end = @ + 1, !.slots[d.end] = v]

Push(d, v) ==
  LET e == Appended(d, v) IN
  IF d.end \notin DOMAIN d.slots THEN {Lost(d, "overrun", "none")}
  ELSE IF e.end < e.max THEN {Out(e, 0)}
  ELSE {Out(Resized(e, e.max + Rate), 0), Out(Unresized(e, e.max + Rate), -1)}

(* Darray_pop: the slot is cleared (Darray_remove), and a large array gives *)
(* memory back (Darray_contract).                                          *)
Popped(d) == [d EXCEPT !.end = @ - 1, !.slots[d.end - 1] = NULL]

Pop(d) ==
  LET e == Popped(d) IN
  IF e.end > Rate /\ e.end % Rate # 0
  THEN {Resized(e, e.end + 1), Unresized(e, e.end + 1)}
  ELSE {e}

-------------------------------------------------------------------------------
(* Hashmap_create *)
Empty == New(Buckets)

BucketOf(k) == k % Buckets

(* Hashmap_find_bucket; the bucket that it makes stays, whatever follows. *)
Bucket(h, k) == SlotAt(h, BucketOf(k))

WithBucket(h, k) == IF Bucket(h, k) # NULL THEN h ELSE Set(h, BucketOf(k), New(Buckets))

Changed(h, k, d) == [h EXCEPT !.slots[BucketOf(k)] = d]

(* Hashmap_set: a key that is there gets a second node.  Whether the push  *)
(* got its memory is not asked.                                            *)
Insert(h, k, v) ==
  LET g == WithBucket(h, k) IN
  {Out(h, "nomem"), Out(g, "nomem")}
    \cup {Lost(Changed(g, k, o.s), "stored", o.trust) : o \in Push(Bucket(g, k), <<k, v>>)}

(* Hashmap_get_node: where the first node with key k is, -1 if there is none. *)
Found(d, k) ==
  LET at == {i \in 0..d.end - 1 : d.slots[i][1] = k} IN IF at = {} THEN -1 ELSE Min(at)

IndexOf(h, k) == IF Bucket(h, k) = NULL THEN -1 ELSE Found(Bucket(h, k), k)

(* Hashmap_get *)
Get(h, k) ==
  {Out(h, IF IndexOf(h, k) = -1 THEN NULL ELSE Bucket(h, k).slots[IndexOf(h, k)][2])}

(* The last node of the bucket fills the hole, unless it is what went. *)
Filled(d, i, ending) == IF i = d.end THEN d ELSE Set(d, i, ending)

(* Hashmap_remove *)
Without(h, k, i) ==
  LET d == Bucket(h, k) IN {Changed(h, k, Filled(e, i, d.slots[d.end - 1])) : e \in Pop(d)}

Delete(h, k) ==
  LET i == IndexOf(h, k) IN
  IF i = -1 THEN {Out(h, NULL)}
  ELSE {Out(g, Bucket(h, k).slots[i][2]) : g \in Without(h, k, i)}

(* Hashmap_traverse: the buckets below end, and in bucket i as many times  *)
(* the node at i as there are nodes.                                       *)
Visited(d, i) ==
  IF d = NULL THEN <<>>
  ELSE IF SlotAt(d, i) = NULL THEN <<>> ELSE [j \in 1..d.end |-> SlotAt(d, i)[1]]

Traverse(h) ==
  LET upto[i \in 0..h.end] ==
        IF i = 0 THEN <<>> ELSE upto[i - 1] \o Visited(h.slots[i - 1], i - 1)
  IN  {Out(h, upto[h.end])}

-------------------------------------------------------------------------------
(* The nodes of a bucket, and the entries of all buckets, one after the other. *)
NodesOf(d) == IF d = NULL THEN <<>> ELSE [j \in 1..d.end |-> d.slots[j - 1]]

Entries(h) ==
  LET upto[i \in 0..Buckets] ==
        IF i = 0 THEN <<>> ELSE upto[i - 1] \o NodesOf(h.slots[i - 1])
  IN  upto[Buckets]

(* Every node is in the bucket that its key is looked for in, no bucket is *)
(* beyond end, and a bucket says that it has room for one more only if it  *)
(* has, unless the memory for that was refused.                            *)
InBuckets(h) ==
  /\ \A i \in 0..Buckets - 1 : h.slots[i] # NULL =>
       /\ i <= h.end
       /\ \A j \in 0..h.slots[i].end - 1 : BucketOf(h.slots[i].slots[j][1]) = i
       /\ h.slots[i].end < h.slots[i].max
===============================================================================
