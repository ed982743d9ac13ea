-------------------------------- MODULE Hashmap --------------------------------
(***************************************************************************)
(* The chained hash table of src/src/secure/hashmap.c.  A slot of the      *)
(* table holds its first entry in place and the others as allocated nodes  *)
(* behind it: here a sequence, whose first element is the entry in place   *)
(* (empty: not occupied).  heapNodes counts the allocated nodes, on the    *)
(* table or lost.                                                          *)
(*                                                                         *)
(* Keys are pointers into the caller's memory and are never copied, so the *)
(* caller can write to the bytes of a stored key; spoiled is the history   *)
(* of that.  Keys have one length here.                                    *)
(***************************************************************************)
EXTENDS Pointers, Integers, Sequences, SequencesExt, FiniteSetsExt

CONSTANTS
  Keys,        (* the pointers to keys that callers pass                *)
  Writable,    (* bound: those whose bytes the caller changes           *)
  Scribbles,   (* bound: what the caller changes them to                *)
  Contents,    (* the bytes of a key                                    *)
  Given,       (* the bytes each key pointer leads to at first          *)
  Hash,        (* hash_fn                                               *)
  Values,      (* the caller's pointers                                 *)
  MinCapacity, (* MYLIB_HASHMAP_MIN_CAPACITY                            *)
  LoadFactor,  (* MYLIB_HASHMAP_LOAD_FACTOR, in percent                 *)
  Capacities,  (* bound: the initial capacities callers ask for         *)
  HeapNodes    (* bound: how many nodes the allocator hands out         *)

ASSUME HashmapAssumption ==
  /\ Writable \subseteq Keys /\ Scribbles \subseteq Contents
  /\ Given \in [Keys -> Contents]
  /\ Hash \in [Contents -> Nat]
  /\ MinCapacity \in Nat /\ LoadFactor \in Nat /\ HeapNodes \in Nat
  /\ Capacities \subseteq Nat
  /\ MinCapacity * LoadFactor >= 100

Elem == Values \cup {NULL}

VARIABLES
  exists,    (* the caller holds a handle                     *)
  capacity,  (* map->capacity                                 *)
  count,     (* map->count                                    *)
  slots,     (* map->entries                                  *)
  heapNodes, (* nodes allocated and not freed                 *)
  content,   (* the bytes each key pointer leads to           *)
  loop,      (* the running mylib_hashmap_foreach             *)
  ret,       (* the last call and what it returned            *)
  spoiled,   (* history: the bytes of a stored key changed    *)
  starved    (* history: a resize ran out of memory half way  *)

vars == <<exists, capacity, count, slots, heapNodes, content, loop, ret,
          spoiled, starved>>

Entry == [key : Keys, val : Elem, hash : Range(Hash)]

MaxLoad(c) == (c * LoadFactor) \div 100

Vacant(c) == [i \in 0..c - 1 |-> <<>>]

(* slot and pos lead to the entry being visited.  due and seen are history: *)
(* what was on the map at the start and is not visited yet, what is.        *)
NoLoop == [on |-> FALSE, slot |-> 0, pos |-> 0, due |-> {}, seen |-> {}]

Init ==
  /\ exists = FALSE /\ capacity = 0 /\ count = 0 /\ slots = Vacant(0)
  /\ heapNodes = 0 /\ loop = NoLoop /\ ret = << <<"none">>, NULL>>
  /\ content = Given
  /\ spoiled = FALSE /\ starved = FALSE

-------------------------------------------------------------------------------
(* Shapes that the actions share. *)

Returns(call, r) == ret' = <<call, r>>

Keep == UNCHANGED <<exists, capacity, count, slots, heapNodes, content, spoiled, starved>>

Stored == UNION {ToSet(slots[i]) : i \in DOMAIN slots}

(* The places of table t from position n of each slot on. *)
PlacesFrom(t, n) == UNION {{<<i, p>> : p \in n..Len(t[i])} : i \in DOMAIN t}

(* How many nodes there are behind the first entries of table t. *)
Chained(t) == Cardinality(PlacesFrom(t, 2))

(* What happens outside a callback of foreach. *)
Idle == exists /\ ~loop.on

Slot(k) == Hash[content[k]] % capacity

(* Mutant: entries with equal hashes are taken for equal. *)
MatchesHash(e, k) == e.hash = Hash[content[k]]

(* e->hash == hash and cmp_fn(e->key, key) == 0: the bytes as they are now. *)
Matches(e, k) == e.hash = Hash[content[k]] /\ content[e.key] = content[k]

Position(chain, k) == SelectInSeq(chain, LAMBDA e : Matches(e, k))

-------------------------------------------------------------------------------
(* The operations. *)

(* A capacity below the minimum is raised to it. *)
Create(asked) ==
  LET c == Max({asked, MinCapacity}) IN
  /\ ~exists
  /\ \/ /\ Returns(<<"create">>, TRUE)
        /\ exists' = TRUE /\ capacity' = c /\ slots' = Vacant(c) /\ count' = 0
     \/ Returns(<<"create">>, FALSE) /\ UNCHANGED <<exists, capacity, slots, count>>
  /\ UNCHANGED <<heapNodes, content, loop, spoiled, starved>>

(* Every node is freed; the _with forms give every pair to free_fn. *)
Empty(op) ==
  /\ Idle
  /\ Returns(<<op>>, IF op \in {"clear_with", "destroy_with"}
                     THEN {[key |-> e.key, val |-> e.val] : e \in Stored} ELSE {})
  /\ heapNodes' = heapNodes - Chained(slots)
  /\ count' = 0
  /\ IF op \in {"clear", "clear_with"}
     THEN slots' = Vacant(capacity) /\ UNCHANGED <<exists, capacity>>
     ELSE slots' = Vacant(0) /\ capacity' = 0 /\ exists' = FALSE
  /\ UNCHANGED <<content, loop, starved>>
  /\ spoiled' = FALSE

(* The table of capacity c that the entries es, copied in order, make. *)
Rehash(es, c) ==
  LET copied[n \in 0..Len(es)] ==
        IF n = 0 THEN Vacant(c)
        ELSE LET t == copied[n - 1] IN
             [i \in 0..c - 1 |-> IF i = es[n].hash % c THEN Append(t[i], es[n]) ELSE t[i]]
  IN  copied[Len(es)]

(* The order in which hashmap_resize and foreach go through the entries. *)
InOrder == FlattenSeq([i \in 1..capacity |-> slots[i - 1]])

(* The copy after the n-th fails.  Of each new chain only the entry in     *)
(* place and the first node behind it are freed.                           *)
LostBy(n) == Cardinality(PlacesFrom(Rehash(SubSeq(InOrder, 1, n), 2 * capacity), 3))

ResizeFails(k, v) ==
  /\ Returns(<<"put", k, v>>, FALSE)
  /\ UNCHANGED <<exists, capacity, count, slots, content, loop, spoiled>>
  /\ \/ UNCHANGED <<heapNodes, starved>>
     \/ \E n \in 0..count - 1 :
          /\ heapNodes' = heapNodes + LostBy(n)
          /\ heapNodes' <= HeapNodes
          /\ starved' = TRUE

(* The rest of put, on table t of capacity c with h nodes allocated.       *)
(* Mutant first: the search looks at the first entry only.                 *)
StoreBlind(k, v, t, c, h) ==
  LET i == Hash[content[k]] % c
      p == IF t[i] # <<>> /\ Matches(t[i][1], k) THEN 1 ELSE 0
      new == [key |-> k, val |-> v, hash |-> Hash[content[k]]]
      h2 == h + IF t[i] = <<>> THEN 0 ELSE 1
  IN  /\ capacity' = c
      /\ \/ /\ p > 0
            /\ slots' = [t EXCEPT ![i][p].val = v]
            /\ heapNodes' = h /\ UNCHANGED count /\ Returns(<<"put", k, v>>, TRUE)
         \/ /\ p = 0 /\ h2 <= HeapNodes
            /\ slots' = [t EXCEPT ![i] = Append(@, new)]
            /\ heapNodes' = h2 /\ count' = count + 1 /\ Returns(<<"put", k, v>>, TRUE)
      /\ UNCHANGED <<exists, content, loop, spoiled, starved>>

Store(k, v, t, c, h) ==
  LET i == Hash[content[k]] % c
      p == Position(t[i], k)
      new == [key |-> k, val |-> v, hash |-> Hash[content[k]]]
      h2 == h + IF t[i] = <<>> THEN 0 ELSE 1
  IN  /\ capacity' = c
      /\ \/ /\ p > 0
            /\ slots' = [t EXCEPT ![i][p].val = v]
            /\ heapNodes' = h /\ UNCHANGED count /\ Returns(<<"put", k, v>>, TRUE)
         \/ /\ p = 0 /\ h2 <= HeapNodes
            /\ slots' = [t EXCEPT ![i] = Append(@, new)]
            /\ heapNodes' = h2 /\ count' = count + 1 /\ Returns(<<"put", k, v>>, TRUE)
         \/ /\ p = 0 /\ t[i] # <<>>
            /\ slots' = t /\ heapNodes' = h /\ UNCHANGED count /\ Returns(<<"put", k, v>>, FALSE)
      /\ UNCHANGED <<exists, content, loop, spoiled, starved>>

(* Mutant: the table doubles one entry late. *)
PutGrowsLate(k, v) ==
  /\ exists
  /\ count <= MaxLoad(capacity)
  /\ Store(k, v, slots, capacity, heapNodes)

(* A full table doubles before the key is looked for.  A callback of       *)
(* foreach that made it double would leave foreach on the freed table.     *)
Put(k, v) ==
  /\ exists
  /\ IF count < MaxLoad(capacity)
     THEN Store(k, v, slots, capacity, heapNodes)
     ELSE /\ ~loop.on
          /\ \/ ResizeFails(k, v)
             \/ LET t == Rehash(InOrder, 2 * capacity)
                IN  Store(k, v, t, 2 * capacity, heapNodes - Chained(slots) + Chained(t))

(* contains is get # NULL. *)
Get(k) ==
  LET chain == slots[Slot(k)]
      p == Position(chain, k)
  IN  /\ exists
      /\ Returns(<<"get", k>>, IF p = 0 THEN NULL ELSE chain[p].val)
      /\ Keep /\ UNCHANGED loop

(* Mutants: the node that moves into the slot is not freed; what is freed  *)
(* is the entry in the slot.                                               *)
RemoveKeepsNode(k) ==
  LET i == Slot(k)
      p == Position(slots[i], k)
  IN  /\ Idle /\ p > 0
      /\ Returns(<<"remove", k>>, slots[i][p].val)
      /\ slots' = [slots EXCEPT ![i] = RemoveAt(@, p)]
      /\ count' = count - 1
      /\ heapNodes' = heapNodes - IF p > 1 THEN 1 ELSE 0
      /\ UNCHANGED <<exists, capacity, content, loop, spoiled, starved>>

RemoveFreesSlot(k) ==
  LET i == Slot(k)
      p == Position(slots[i], k)
  IN  /\ Idle /\ p > 0
      /\ Returns(<<"remove", k>>, slots[i][p].val)
      /\ slots' = [slots EXCEPT ![i] = RemoveAt(@, p)]
      /\ count' = count - 1 /\ heapNodes' = heapNodes - 1
      /\ UNCHANGED <<exists, capacity, content, loop, spoiled, starved>>

(* The first entry of a slot is overwritten by the node behind it, which   *)
(* is freed; a node behind is unlinked and freed; the only entry goes.     *)
RemoveKey(k) ==
  LET i == Slot(k)
      p == Position(slots[i], k)
  IN  /\ Idle
      /\ Returns(<<"remove", k>>, IF p = 0 THEN NULL ELSE slots[i][p].val)
      /\ IF p = 0
         THEN UNCHANGED <<slots, count, heapNodes>>
         ELSE /\ slots' = [slots EXCEPT ![i] = RemoveAt(@, p)]
              /\ count' = count - 1
              /\ heapNodes' = heapNodes - IF Len(slots[i]) > 1 THEN 1 ELSE 0
      /\ UNCHANGED <<exists, capacity, content, loop, spoiled, starved>>

(* The caller reuses the memory of a key. *)
Overwrite(k, c) ==
  /\ content' = [content EXCEPT ![k] = c]
  /\ spoiled' = (spoiled \/ \E e \in Stored : e.key = k /\ content[k] # c)
  /\ UNCHANGED <<exists, capacity, count, slots, heapNodes, loop, ret, starved>>

-------------------------------------------------------------------------------
(* mylib_hashmap_foreach.  The visit callback runs with the entry current  *)
(* and may call get and put; the next entry is read when it has returned.  *)

Id(e) == <<e.key, e.hash>>

(* Visit position p of slot i, or the first entry behind if there is none. *)
VisitFrom(i, p, due, seen) ==
  LET later == {j \in i + 1..capacity - 1 : slots[j] # <<>>}
      at    == IF i \in DOMAIN slots /\ p <= Len(slots[i]) THEN <<i, p>>
               ELSE IF later # {} THEN <<Min(later), 1>> ELSE <<>>
  IN  IF at = <<>>
      THEN loop' = NoLoop /\ Returns(<<"foreach">>, TRUE)
      ELSE LET e == slots[at[1]][at[2]] IN
           /\ loop' = [on |-> TRUE, slot |-> at[1], pos |-> at[2],
                       due |-> due \ {Id(e)}, seen |-> seen \cup {Id(e)}]
           /\ Returns(<<"visit">>, [key |-> e.key, val |-> e.val])

ForeachBegin ==
  Idle /\ VisitFrom(0, 1, {Id(e) : e \in Stored}, {}) /\ Keep

(* Mutant: the nodes behind the first entry are passed over. *)
ForeachSkipsNodes ==
  loop.on /\ VisitFrom(loop.slot + 1, 1, loop.due, loop.seen) /\ Keep

(* Mutant: behind the last entry of a slot comes the first one again.      *)
ForeachStaysInSlot ==
  /\ loop.on /\ Keep
  /\ LET last == loop.pos = Len(slots[loop.slot])
     IN  VisitFrom(loop.slot, IF last THEN 1 ELSE loop.pos + 1, loop.due, loop.seen)

ForeachStep ==
  loop.on /\ VisitFrom(loop.slot, loop.pos + 1, loop.due, loop.seen) /\ Keep

(* visit returned false. *)
ForeachStop == loop.on /\ loop' = NoLoop /\ Returns(<<"foreach">>, FALSE) /\ Keep

Next ==
  \/ \E asked \in Capacities : Create(asked)
  \/ \E op \in {"clear", "destroy", "clear_with", "destroy_with"} : Empty(op)
  \/ \E k \in Keys :
       \/ Get(k) \/ RemoveKey(k)
       \/ \E v \in Elem : Put(k, v)
  \/ \E k \in Writable, c \in Scribbles : Overwrite(k, c)
  \/ ForeachBegin \/ ForeachStep \/ ForeachStop

Spec == Init /\ [][Next]_vars

(* Every callback of foreach returns at last, with true or with false. *)
FairSpec == Spec /\ WF_vars(ForeachStep \/ ForeachStop)

-------------------------------------------------------------------------------
(* Properties. *)

(* Every variable has its type, and the table is as long as its capacity. *)
TypeOK ==
  /\ exists \in BOOLEAN /\ spoiled \in BOOLEAN /\ starved \in BOOLEAN
  /\ capacity \in Nat /\ count \in Nat
  /\ DOMAIN slots = 0..capacity - 1
  /\ \A i \in DOMAIN slots : slots[i] \in Seq(Entry)
  /\ heapNodes \in 0..HeapNodes
  /\ content \in [Keys -> Contents]

(* Every entry is in the slot its hash selects at the present capacity,    *)
(* whatever the table was resized from and however its key was written to, *)
(* and no key is stored twice: not by pointer and hash, and by its bytes   *)
(* not either unless the caller wrote to a stored key.                     *)
UniqueKeys ==
  \A i, j \in DOMAIN slots : \A p \in DOMAIN slots[i], q \in DOMAIN slots[j] :
    LET e == slots[i][p]
        f == slots[j][q]
    IN  /\ e.hash % capacity = i
        /\ <<i, p>> # <<j, q>> =>
             Id(e) # Id(f) /\ (spoiled \/ content[e.key] # content[f.key])

(* count is the number of entries and stays within max_load, so that       *)
(* chains are short on average even when resizing fails.                   *)
LoadBounded ==
  /\ count = Len(InOrder)
  /\ exists => count <= MaxLoad(capacity)

(* No node is freed twice or lost, unless a resize failed half way.        *)
NodesAccounted ==
  heapNodes >= Chained(slots) /\ (~starved => heapNodes = Chained(slots))

(* ci.yml:81-84: the table leaks no node. *)
NoLeak == heapNodes = Chained(slots)

(* foreach visits no entry twice, and every entry that was on the map when *)
(* it began, while its callback puts and updates entries.                  *)
ForeachVisitsOnce ==
  [][ /\ loop'.on /\ loop.on /\ loop' # loop =>
           Id(slots[loop'.slot][loop'.pos]) \notin loop.seen
      /\ loop.on /\ ret' = << <<"foreach">>, TRUE>> => loop.due = {} ]_vars

(* A foreach ends even if every callback puts: a put that does not resize  *)
(* adds behind or before the visited entry, and max_load bounds how often. *)
ForeachEnds == loop.on ~> ~loop.on

(* Seen through the bytes of its keys the table is the map of MapSpec:     *)
(* collisions, resizes and failed allocations never show, until the caller *)
(* writes to a stored key.                                                 *)
Bytes(c) == CHOOSE e \in Stored : content[e.key] = c

AsMap ==
  [c \in {content[e.key] : e \in Stored} |->
     [key |-> Bytes(c).key, val |-> Bytes(c).val]]

Abstract == INSTANCE MapSpec WITH map <- AsMap

RefinesMap ==
  Abstract!Init /\ [][spoiled \/ spoiled' \/ Abstract!Next]_<<exists, slots, content, ret>>
===============================================================================
