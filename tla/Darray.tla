-------------------------------- MODULE Darray --------------------------------
(***************************************************************************)
(* The growable pointer array of src/src/secure/darray.c: one handle, its  *)
(* heap block slot by slot, and every exported operation as one action.    *)
(* Sizes are size_t and wrap.  Byte counts are n * sizeof(void * ) modulo  *)
(* SizeMod; since sizeof(void * ) divides SizeMod this is a count of n     *)
(* modulo SlotMod slots.                                                   *)
(*                                                                         *)
(* fault is set when a call touches memory outside the block: the program  *)
(* is undefined from there on and takes no further step.  spoiled is a     *)
(* history variable, set when a call makes the block and its capacity      *)
(* disagree (a byte count wraps, an empty array is shrunk) or wraps        *)
(* index + count in erase.                                                 *)
(***************************************************************************)
EXTENDS Pointers, Integers, Sequences

CONSTANTS
  Values,    (* the caller's pointers                                  *)
  Rank,      (* the order defined by the comparator given to sort      *)
  Default,   (* MYLIB_DARRAY_DEFAULT_CAPACITY                          *)
  HeapSlots, (* bound: the largest block the allocator hands out       *)
  SlotMod,   (* SizeMod \div sizeof(void * )                           *)
  SizeMod,   (* number of values of a size_t                           *)
  Sizes      (* bound: the indices, counts and capacities callers pass *)

ASSUME SizeAssumption ==
  /\ HeapSlots \in Nat /\ SlotMod \in Nat /\ SizeMod \in Nat
  /\ 0 < HeapSlots /\ HeapSlots < SlotMod /\ 2 * SlotMod <= SizeMod
  /\ Sizes \subseteq 0..SizeMod - 1
  /\ Default \in 1..SizeMod - 1

Elem == Values \cup {NULL}

ASSUME RankAssumption == Rank \in [Elem -> Nat]

VARIABLES
  exists,   (* the caller holds a handle                          *)
  data,     (* the slots of the block that arr->data points to    *)
  slots,    (* how many there are; 0 once the block was freed     *)
  size,     (* arr->size                                          *)
  capacity, (* arr->capacity                                      *)
  ret,      (* the last call and what it returned                 *)
  fault,    (* memory outside the block was touched               *)
  spoiled   (* history: see above                                 *)

vars == <<exists, data, slots, size, capacity, ret, fault, spoiled>>

NoBlock == [k \in 0..-1 |-> NULL]

Wrap(n) == n % SizeMod
SlotsOf(n) == n % SlotMod

Init ==
  /\ exists = FALSE /\ data = NoBlock /\ slots = 0 /\ size = 0 /\ capacity = 0
  /\ ret = << <<"none">>, NULL>> /\ fault = FALSE /\ spoiled = FALSE

-------------------------------------------------------------------------------
(* Shapes that the actions share. *)

Live == exists /\ ~fault

Returns(call, r) == ret' = <<call, r>> /\ UNCHANGED <<exists, fault>>

Keep == UNCHANGED <<data, slots, size, capacity, spoiled>>

Crash == fault' = TRUE /\ UNCHANGED <<exists, data, slots, size, capacity, ret>>

(* The n slots from lo on are inside the block. *)
InBlock(lo, n) == n = 0 \/ lo + n <= slots

NonNull(d, n) == SelectSeq([k \in 1..n |-> d[k - 1]], LAMBDA e : e # NULL)

(* realloc to n slots, then memset from the old capacity to n.  The memset *)
(* length wraps like the request, so it ends where the new block ends, or  *)
(* past it when the block has become shorter than the old capacity.        *)
Resized(n) ==
  [k \in 0..SlotsOf(n) - 1 |-> IF k < capacity THEN data[k] ELSE NULL]

ResizeFaults(n) == slots = 0 \/ capacity + SlotsOf(n - capacity) > SlotsOf(n)

CanResize(n) == SlotsOf(n) \in 1..HeapSlots

(* realloc returns NULL: memory ran out, or zero bytes were asked for and  *)
(* the block is gone while arr->data still points to it.                   *)
ReallocNull(n) ==
  /\ UNCHANGED <<size, capacity>>
  /\ IF SlotsOf(n) = 0
     THEN data' = NoBlock /\ slots' = 0 /\ spoiled' = TRUE
     ELSE UNCHANGED <<data, slots, spoiled>>

(* memmove the tail up from index i, store v there, count it. *)
StoreAt(call, i, v, d, n, c, s) ==
  IF size >= n
  THEN Crash /\ spoiled' = s
  ELSE /\ data' = [k \in 0..n - 1 |-> IF k < i \/ k > size THEN d[k]
                                      ELSE IF k = i THEN v ELSE d[k - 1]]
       /\ slots' = n /\ size' = size + 1 /\ capacity' = c /\ spoiled' = s
       /\ Returns(call, TRUE)

(* Mutant: the full check is off by one. *)
InsertGrowsLate(call, i, v) ==
  IF size <= capacity
  THEN StoreAt(call, i, v, data, slots, capacity, spoiled)
  ELSE Keep /\ Returns(call, FALSE)

(* darray_grow when the array is full, then the store. *)
Insert(call, i, v) ==
  LET n == Wrap(2 * capacity) IN
  IF size < capacity
  THEN StoreAt(call, i, v, data, slots, capacity, spoiled)
  ELSE IF n < capacity
  THEN Keep /\ Returns(call, FALSE)
  ELSE IF slots = 0
  THEN Crash /\ UNCHANGED spoiled
  ELSE \/ ReallocNull(n) /\ Returns(call, FALSE)
       \/ CanResize(n) /\ ResizeFaults(n) /\ Crash /\ spoiled' = TRUE
       \/ /\ CanResize(n) /\ ~ResizeFaults(n)
          /\ StoreAt(call, i, v, Resized(n), SlotsOf(n), n, spoiled \/ n >= SlotMod)

-------------------------------------------------------------------------------
(* The operations. *)

Create(c) ==
  LET n == IF c = 0 THEN Default ELSE c IN
  /\ ~exists /\ ~fault
  /\ \/ /\ n <= HeapSlots
        /\ exists' = TRUE /\ data' = [k \in 0..n - 1 |-> NULL]
        /\ slots' = n /\ size' = 0 /\ capacity' = n
        /\ ret' = << <<"create">>, TRUE>> /\ UNCHANGED <<fault, spoiled>>
     \/ Keep /\ Returns(<<"create">>, FALSE)

(* free(arr->data) is undefined when realloc already freed the block. *)
Gone(call, released) ==
  IF slots = 0
  THEN Crash /\ UNCHANGED spoiled
  ELSE /\ exists' = FALSE /\ data' = NoBlock /\ slots' = 0 /\ size' = 0
       /\ capacity' = 0 /\ ret' = <<call, released>> /\ spoiled' = FALSE
       /\ UNCHANGED fault

Destroy == Live /\ Gone(<<"destroy">>, <<>>)

DestroyWith ==
  /\ Live
  /\ IF ~InBlock(0, size)
     THEN Crash /\ UNCHANGED spoiled
     ELSE Gone(<<"destroy_with">>, NonNull(data, size))

Zeroed(lo, n) ==
  [k \in 0..slots - 1 |-> IF lo <= k /\ k < lo + n THEN NULL ELSE data[k]]

Emptied(call, released) ==
  /\ data' = Zeroed(0, size) /\ size' = 0
  /\ UNCHANGED <<slots, capacity, spoiled>>
  /\ Returns(call, released)

Clear ==
  /\ Live
  /\ IF ~InBlock(0, size)
     THEN Crash /\ UNCHANGED spoiled
     ELSE \/ Emptied(<<"clear">>, <<>>)
          \/ Emptied(<<"clear_with">>, NonNull(data, size))

Push(v) == Live /\ Insert(<<"push", v>>, size, v)

InsertAtIndex(i, v) ==
  /\ Live
  /\ IF i > size
     THEN Keep /\ Returns(<<"insert", i, v>>, FALSE)
     ELSE Insert(<<"insert", i, v>>, i, v)

(* Mutant: pop does not look whether there is an element. *)
PopUnchecked ==
  /\ Live
  /\ size' = size - 1
  /\ UNCHANGED <<data, slots, capacity, spoiled>>
  /\ Returns(<<"pop">>, NULL)

(* The popped pointer stays behind in its slot. *)
Pop ==
  /\ Live
  /\ IF size = 0
     THEN Keep /\ Returns(<<"pop">>, NULL)
     ELSE IF ~InBlock(size - 1, 1)
     THEN Crash /\ UNCHANGED spoiled
     ELSE /\ size' = size - 1
          /\ UNCHANGED <<data, slots, capacity, spoiled>>
          /\ Returns(<<"pop">>, data[size - 1])

(* A read of element i, or what the call returns when there is none. *)
Read(call, i) ==
  IF i \notin 0..size - 1
  THEN Keep /\ Returns(call, NULL)
  ELSE IF ~InBlock(i, 1)
  THEN Crash /\ UNCHANGED spoiled
  ELSE Keep /\ Returns(call, data[i])

Peek == Live /\ Read(<<"peek">>, size - 1)
Get(i) == Live /\ Read(<<"get", i>>, i)

(* A write of element i; the call returns r, or none out of bounds. *)
Write(call, i, v, r, none) ==
  IF i >= size
  THEN Keep /\ Returns(call, none)
  ELSE IF ~InBlock(i, 1)
  THEN Crash /\ UNCHANGED spoiled
  ELSE /\ data' = [data EXCEPT ![i] = v]
       /\ UNCHANGED <<slots, size, capacity, spoiled>>
       /\ Returns(call, r)

Put(i, v) == Live /\ Write(<<"set", i, v>>, i, v, TRUE, FALSE)
Take(i) == Live /\ Write(<<"take", i>>, i, NULL, data[i], NULL)

(* Mutant: remove forgets to close the gap in front of the last element. *)
RemoveShiftsShort(i) ==
  /\ Live
  /\ IF i >= size
     THEN Keep /\ Returns(<<"remove", i>>, NULL)
     ELSE IF ~InBlock(i, size - i)
     THEN Crash /\ UNCHANGED spoiled
     ELSE /\ data' = [k \in 0..slots - 1 |->
                        IF k < i \/ k >= size - 2 THEN data[k] ELSE data[k + 1]]
          /\ size' = size - 1
          /\ UNCHANGED <<slots, capacity, spoiled>>
          /\ Returns(<<"remove", i>>, data[i])

RemoveIndex(i) ==
  /\ Live
  /\ IF i >= size
     THEN Keep /\ Returns(<<"remove", i>>, NULL)
     ELSE IF ~InBlock(i, size - i)
     THEN Crash /\ UNCHANGED spoiled
     ELSE /\ data' = [k \in 0..slots - 1 |->
                        IF k < i \/ k >= size THEN data[k]
                        ELSE IF k = size - 1 THEN NULL ELSE data[k + 1]]
          /\ size' = size - 1
          /\ UNCHANGED <<slots, capacity, spoiled>>
          /\ Returns(<<"remove", i>>, data[i])

(* end = index + count wraps.  The tail from end on moves down to index,   *)
(* then the last n elements' slots are zeroed: from before the block on    *)
(* when the wrapped sum let a count above the size through.                *)
Erase(i, count) ==
  LET n    == IF Wrap(i + count) > size THEN size - i ELSE count
      end  == Wrap(i + n)
      tail == IF end < size THEN size - end ELSE 0
      s    == spoiled \/ i + count >= SizeMod
  IN
  /\ Live
  /\ IF i >= size
     THEN Keep /\ Returns(<<"erase", i, count>>, FALSE)
     ELSE IF ~InBlock(end, tail) \/ ~InBlock(i, tail)
             \/ n > size
     THEN Crash /\ spoiled' = s
     ELSE /\ data' = [k \in 0..slots - 1 |->
                        IF size - n <= k /\ k < size THEN NULL
                        ELSE IF i <= k /\ k < i + tail THEN data[k + end - i]
                        ELSE data[k]]
          /\ size' = size - n /\ spoiled' = s
          /\ UNCHANGED <<slots, capacity>>
          /\ Returns(<<"erase", i, count>>, TRUE)

(* Mutant: reserve notes the capacity before it knows that realloc succeeded. *)
ReserveEarly(c) ==
  /\ Live
  /\ c > capacity
  /\ capacity' = c
  /\ UNCHANGED <<data, slots, size, spoiled>>
  /\ Returns(<<"reserve">>, FALSE)

Reserve(c) ==
  /\ Live
  /\ IF c <= capacity
     THEN Keep /\ Returns(<<"reserve">>, TRUE)
     ELSE IF slots = 0
     THEN Crash /\ UNCHANGED spoiled
     ELSE \/ ReallocNull(c) /\ Returns(<<"reserve">>, FALSE)
          \/ CanResize(c) /\ ResizeFaults(c) /\ Crash /\ spoiled' = TRUE
          \/ /\ CanResize(c) /\ ~ResizeFaults(c)
             /\ data' = Resized(c) /\ slots' = SlotsOf(c) /\ capacity' = c
             /\ UNCHANGED size
             /\ spoiled' = (spoiled \/ c >= SlotMod)
             /\ Returns(<<"reserve">>, TRUE)

(* The block shrinks to the elements.  With no element realloc is asked    *)
(* for zero bytes, which frees the block and returns NULL.                 *)
ShrinkToFit ==
  /\ Live
  /\ IF size = capacity
     THEN Keep /\ Returns(<<"shrink_to_fit">>, TRUE)
     ELSE IF slots = 0
     THEN Crash /\ UNCHANGED spoiled
     ELSE \/ ReallocNull(size) /\ Returns(<<"shrink_to_fit">>, TRUE)
          \/ /\ CanResize(size)
             /\ data' = [k \in 0..SlotsOf(size) - 1 |-> data[k]]
             /\ slots' = SlotsOf(size) /\ capacity' = size
             /\ UNCHANGED <<size, spoiled>>
             /\ Returns(<<"shrink_to_fit">>, TRUE)

(* qsort: some permutation of the elements that the comparator accepts.    *)
Arrangements ==
  {p \in [0..size - 1 -> 0..size - 1] :
     /\ \A i, j \in 0..size - 1 : i # j => p[i] # p[j]
     /\ \A i, j \in 0..size - 1 : i < j => Rank[data[p[i]]] <= Rank[data[p[j]]]}

Sort ==
  /\ Live
  /\ IF size <= 1
     THEN Keep /\ Returns(<<"sort">>, TRUE)
     ELSE IF ~InBlock(0, size)
     THEN Crash /\ UNCHANGED spoiled
     ELSE /\ \E p \in Arrangements :
               data' = [k \in 0..slots - 1 |-> IF k < size THEN data[p[k]] ELSE data[k]]
          /\ UNCHANGED <<slots, size, capacity, spoiled>>
          /\ Returns(<<"sort">>, TRUE)

Next ==
  \/ Destroy \/ DestroyWith \/ Clear \/ Pop \/ Peek \/ ShrinkToFit \/ Sort
  \/ \E c \in Sizes : Create(c) \/ Reserve(c)
  \/ \E v \in Elem : Push(v)
  \/ \E i \in Sizes : Get(i) \/ Take(i) \/ RemoveIndex(i)
  \/ \E i \in Sizes, v \in Elem : InsertAtIndex(i, v) \/ Put(i, v)
  \/ \E i, n \in Sizes : Erase(i, n)

Spec == Init /\ [][Next]_vars

-------------------------------------------------------------------------------
(* Properties. *)

(* Every variable has its type; the block has exactly slots slots. *)
TypeOK ==
  /\ exists \in BOOLEAN /\ fault \in BOOLEAN /\ spoiled \in BOOLEAN
  /\ slots \in 0..HeapSlots /\ size \in Nat /\ capacity \in Nat
  /\ data \in [0..slots - 1 -> Elem]

(* As long as nothing spoiled the array its block is as long as the        *)
(* capacity says and the elements fit in it.                               *)
BlockMatchesCapacity ==
  exists /\ ~spoiled => slots = capacity /\ size <= capacity

(* As long as nothing spoiled the array no call of darray.c touches memory *)
(* outside the block, resizes a freed block or frees it twice.             *)
MemorySafe == fault => spoiled

(* test_darray.c:177: when shrink_to_fit has given the array another block *)
(* its capacity is the size.  It is not when the size is 0: realloc of no  *)
(* bytes frees the block and the array keeps its old capacity.             *)
ShrinkLeavesNoSlack ==
  [][ret' = << <<"shrink_to_fit">>, TRUE>> /\ slots' # slots => capacity' = size']_vars

(* Seen through its elements the array is the sequence of VectorSpec: the  *)
(* heap block, its growth, shrinking and failed allocations never show     *)
(* until a call spoils the array.                                          *)
Vector == INSTANCE VectorSpec WITH seq <- [k \in 1..size |-> data[k - 1]]

RefinesVector ==
  Vector!Init /\ [][spoiled' \/ Vector!Next]_<<exists, data, slots, size, ret>>
===============================================================================
